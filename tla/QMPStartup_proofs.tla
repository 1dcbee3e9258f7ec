------------------------- MODULE QMPStartup_proofs ---------------------------
(***************************************************************************)
(* Theorems about the start of a job, for any number of nodes, any command  *)
(* lines and any programs.                                                 *)
(***************************************************************************)
EXTENDS QMPStartup_stages, FiniteSetTheorems, SequenceTheorems, WellFoundedInduction, TLAPS

-----------------------------------------------------------------------------
(* Sequences.                                                              *)

LEMMA SequenceIs ==
  ASSUME NEW S, NEW s \in Seq(S)
  PROVE  IsSequence(s) /\ Len(s) \in Nat /\ DOMAIN s = 1 .. Len(s)
<1>1. s \in Seq({s[i] : i \in 1 .. Len(s)})
  <2>1. s = [i \in 1 .. Len(s) |-> s[i]] /\ Len(s) \in Nat
    OBVIOUS
  <2> QED  BY <2>1, IsASeq
<1> QED  BY <1>1 DEF IsSequence

\* The head of s is replaced by t.
LEMMA Replaced ==
  ASSUME NEW s, IsSequence(s), s # <<>>, NEW t, IsSequence(t)
  PROVE  /\ IsSequence(t \o Tail(s))
         /\ Len(s) \in Nat \ {0} /\ Len(t) \in Nat
         /\ Len(t \o Tail(s)) = Len(t) + Len(s) - 1
         /\ \A i \in 1 .. Len(t) : (t \o Tail(s))[i] = t[i]
         /\ \A i \in Len(t) + 1 .. Len(t) + Len(s) - 1 : (t \o Tail(s))[i] = s[i - Len(t) + 1]
<1> DEFINE S == {s[i] : i \in DOMAIN s} \cup {t[i] : i \in DOMAIN t}
<1>1. s \in Seq(S) /\ t \in Seq(S)
  BY DEF IsSequence
<1> HIDE DEF S
<1>2. Tail(s) \in Seq(S) /\ Len(Tail(s)) = Len(s) - 1 /\ Len(s) \in Nat \ {0} /\ Len(t) \in Nat
      /\ \A i \in 1 .. Len(s) - 1 : Tail(s)[i] = s[i + 1]
  BY <1>1
<1> DEFINE r == Tail(s)
           u == t \o r
<1>3. u \in Seq(S) /\ Len(u) = Len(t) + Len(r)
      /\ \A i \in 1 .. Len(t) + Len(r) : u[i] = IF i <= Len(t) THEN t[i] ELSE r[i - Len(t)]
  BY <1>1, <1>2, ConcatProperties
<1>4. IsSequence(u)
  BY <1>3, SequenceIs
<1>5. \A i \in 1 .. Len(t) : u[i] = t[i]
  BY <1>2, <1>3
<1>6. ASSUME NEW i \in Len(t) + 1 .. Len(t) + Len(s) - 1 PROVE u[i] = s[i - Len(t) + 1]
  <2>1. i \in 1 .. Len(t) + Len(r) /\ ~(i <= Len(t)) /\ i - Len(t) \in 1 .. Len(s) - 1
    BY <1>2
  <2> HIDE DEF r, u
  <2>2. u[i] = r[i - Len(t)]
    BY <1>3, <2>1
  <2> QED  BY <1>2, <2>1, <2>2 DEF r
<1> QED  BY <1>2, <1>3, <1>4, <1>5, <1>6

-----------------------------------------------------------------------------
(* The inductive invariant: what holds of each node, of its agenda ag, of   *)
(* whether it is inside a call, of its calls ent, of its register rg, of its *)
(* communicators cm and pt and of its arguments ar and av.                  *)

\* c is a communicator of nodes, n among them.
Good(n, c) == IsSequence(c.group) /\ Members(c) \subseteq Node /\ n \in Members(c)

Fields == {"mpicomm", "num_nodes", "nodeid"}
\* A communicator that is being split off.
Incomplete(s) == Fields \subseteq DOMAIN s /\ s.mpicomm = None

\* The struct s, the node's communicator o: once it is complete the node has a rank in it.
StructOK(n, o, s) ==
  s # None => /\ Fields \subseteq DOMAIN s
              /\ s.mpicomm # None => /\ Good(n, s.mpicomm)
                                     /\ o # "A" => s.nodeid \in 0 .. s.num_nodes - 1

\* The items of an agenda.
ItemOK(it) ==
  /\ "do" \in DOMAIN it
  /\ it.do = "mpi" => it.comm \in Names /\ (it.op = "split" => it.arg.key \in Int)
  /\ it.do \in {"reduce", "exchange", "binary_reduction", "declare", "settopo"} \cup Splitting =>
       "comm" \in DOMAIN it /\ it.comm \in Names
  /\ it.do = "reduce" => it.call \in DOMAIN Calls
  /\ it.do = "exchange" => it.call \in {"bcast", "alltoall"}
  /\ it.do \in Splitting => /\ {"into", "key"} \subseteq DOMAIN it
                            /\ it.into \in {"job", "def", "sub"} /\ it.key \in Int
  /\ it.do = "setdefault" => it.to \in Objects
  /\ it.do = "reduced" => it.nmpi \in Int

\* What uses the result of a call comes right behind it.
Late == {"count", "colors", "made", "reduced"}
\* What there is only before the command line has been read.
Early == {"nmpi", "reduced", "parse"}

Behind(it, call) == call.do = "mpi" /\ (it.do \in {"made", "reduced"} => call.op = "split")

AgendaOK(ag) ==
  /\ IsSequence(ag)
  /\ \A i \in 1 .. Len(ag) : ItemOK(ag[i])
  /\ \A i \in 1 .. Len(ag) : ag[i].do \in Late => i = 1 \/ (i = 2 /\ Behind(ag[2], ag[1]))
  /\ \A i \in 1 .. Len(ag) : ag[i].do = "nmpi" => i = 1
  /\ \A i, j \in 1 .. Len(ag) : i < j /\ ag[i].do = "parse" => ag[j].do \notin Early

\* A node is inside the call that it made last.
InsideOK(ag, ent, cm, pt) ==
  /\ ag # <<>> /\ ag[1].do = "mpi"
  /\ LET o == IF ag[1].comm \in DOMAIN pt THEN pt[ag[1].comm] ELSE ag[1].comm
         c == cm[o].mpicomm
     IN /\ cm[o] # None /\ c # None
        /\ c \in DOMAIN ent /\ Len(ent[c]) >= 1 /\ ent[c][Len(ent[c])].op = ag[1].op

\* The results that the items use are there, and what they complete.
ResultsOK(n, ag, rg, cm) ==
  /\ ag # <<>> /\ ag[1].do \in {"made", "reduced"} => Good(n, rg.comm)
  /\ \A i \in 1 .. Len(ag) :
       ag[i].do \in {"count", "colors", "made"} => Incomplete(cm[ObjectOf(ag[i].into)])

CallsOK(ent) ==
  \A c \in DOMAIN ent : /\ IsSequence(ent[c])
                        /\ \A k \in 1 .. Len(ent[c]) :
                             ent[c][k].op = "split" => ent[c][k].arg.key \in Int

CommsOK(n, cm, pt) ==
  /\ DOMAIN cm = Objects /\ \A o \in Objects : StructOK(n, o, cm[o])
  /\ pt \in [{"alloc", "job", "def"} -> Objects] /\ pt["alloc"] = "A"

\* The allocated communicator numbers the nodes; a node that it leaves out has nothing to do.
AllocOK(n, ag, cm, ar) ==
  /\ Fields \subseteq DOMAIN cm["A"] /\ cm["A"].nodeid = n
  /\ ar # None \/ ag # <<>> => n \in 0 .. cm["A"].num_nodes - 1

ArgsOK(ag, ar, av) ==
  /\ ar # None => \A i \in 1 .. Len(ag) : ag[i].do \notin Early
  /\ ag # <<>> /\ ag[1].do = "nmpi" => IsSequence(av)

NodeOK(n, ag, ins, ent, rg, cm, pt, ar, av) ==
  /\ AgendaOK(ag)
  /\ ins => InsideOK(ag, ent, cm, pt)
  /\ ResultsOK(n, ag, rg, cm)
  /\ CallsOK(ent)
  /\ CommsOK(n, cm, pt)
  /\ AllocOK(n, ag, cm, ar)
  /\ ArgsOK(ag, ar, av)

TypesOK ==
  /\ scenario \in Scenarios /\ opInited \in [Node -> BOOLEAN] /\ aborted \in BOOLEAN
  /\ ictype \in [Node -> {"switch", "mesh"}]
  /\ status \in [Node -> {"success", "invalid", "error"}]
  /\ ptr \in [Node -> [{"alloc", "job", "def"} -> Objects]]

ShapeOK ==
  /\ DOMAIN agenda = Node /\ DOMAIN entered = Node /\ DOMAIN reg = Node
  /\ DOMAIN comm = Node /\ DOMAIN ptr = Node /\ DOMAIN args = Node /\ DOMAIN argv = Node
  /\ inside \in [Node -> BOOLEAN]

\* All this holds of node n.
Holds(n) == NodeOK(n, agenda[n], inside[n], entered[n], reg[n], comm[n], ptr[n], args[n], argv[n])
StartupInv == TypesOK /\ ShapeOK /\ \A n \in Node : Holds(n)

-----------------------------------------------------------------------------
(* MPI_Comm_split.                                                         *)

\* The number of the elements before x.
PlaceIn(S, Less, x) == Cardinality({y \in S : <<y, x>> \in Less})

\* In a finite set with a strict order Less, the number of the elements before an
\* element is its place: each place below the number of all elements is that of one.
LEMMA Places ==
  ASSUME NEW S, IsFiniteSet(S), NEW Less,
         \A x \in S : <<x, x>> \notin Less,
         \A x, y, z \in S : <<x, y>> \in Less /\ <<y, z>> \in Less => <<x, z>> \in Less,
         \A x, y \in S : x # y => <<x, y>> \in Less \/ <<y, x>> \in Less
  PROVE  /\ \A x \in S : PlaceIn(S, Less, x) \in 0 .. Cardinality(S) - 1
         /\ \A x, y \in S : PlaceIn(S, Less, x) = PlaceIn(S, Less, y) => x = y
         /\ \A i \in 0 .. Cardinality(S) - 1 : \E x \in S : PlaceIn(S, Less, x) = i
<1> DEFINE Before(x) == {y \in S : <<y, x>> \in Less}
           place(x) == Cardinality(Before(x))
           N == Cardinality(S)
<1>1. N \in Nat /\ \A x \in S : IsFiniteSet(Before(x)) /\ place(x) \in Nat
  <2>1. \A x \in S : Before(x) \in SUBSET S
    OBVIOUS
  <2> QED  BY <2>1, FS_Subset, FS_CardinalityType
<1>2. ASSUME NEW x \in S, NEW T, IsFiniteSet(T), Before(x) \subseteq T, x \in T
      PROVE  place(x) < Cardinality(T)
  <2>1. Before(x) # T
    BY <1>2
  <2>2. Before(x) \in SUBSET T
    BY <1>2
  <2> HIDE DEF Before
  <2> QED  BY <1>1, <1>2, <2>1, <2>2, FS_Subset, FS_CardinalityType
<1>3. \A x \in S : place(x) \in 0 .. N - 1
  <2>1. \A x \in S : Before(x) \subseteq S
    OBVIOUS
  <2>2. \A x \in S : place(x) < N
    <3> HIDE DEF Before
    <3> QED  BY <1>2, <2>1
  <2>3. N \in Nat /\ \A x \in S : place(x) \in Nat
    BY <1>1
  <2> HIDE DEF place, N
  <2> QED  BY <2>2, <2>3
<1>4. ASSUME NEW x \in S, NEW y \in S, <<x, y>> \in Less PROVE place(x) < place(y)
  <2>1. Before(x) \subseteq Before(y) /\ x \in Before(y)
    BY <1>4
  <2> HIDE DEF Before
  <2> QED  BY <1>1, <1>2, <2>1
<1>5. \A x, y \in S : place(x) = place(y) => x = y
  <2>1. \A x \in S : place(x) \in Nat
    BY <1>1
  <2> HIDE DEF place
  <2>2. ASSUME NEW x \in S, NEW y \in S, x # y PROVE place(x) # place(y)
    <3>1. place(x) < place(y) \/ place(y) < place(x)
      BY <1>4, <2>2
    <3> QED  BY <2>1, <3>1
  <2> QED  BY <2>2
<1>6. ASSUME NEW i \in 0 .. N - 1 PROVE \E x \in S : place(x) = i
  <2> DEFINE f == [x \in S |-> place(x)]
             T == {place(x) : x \in S}
  <2>1. f \in Surjection(S, T) /\ f \in Injection(S, T)
    <3> HIDE DEF place
    <3> QED  BY <1>5 DEF Surjection, Injection, IsInjective
  <2>2. f \in Bijection(S, T)
    <3> HIDE DEF f, T
    <3> QED  BY <2>1 DEF Bijection
  <2>3. Cardinality(T) = N /\ IsFiniteSet(T)
    <3>1. ExistsBijection(S, T)
      <4> HIDE DEF f, T
      <4> QED  BY <2>2 DEF ExistsBijection
    <3> HIDE DEF T
    <3> QED  BY <3>1, FS_Bijection
  <2>4. IsFiniteSet(0 .. N - 1) /\ Cardinality(0 .. N - 1) = N
    <3>1. N \in Nat
      BY <1>1
    <3> HIDE DEF N
    <3>2. 0 \in Int /\ N - 1 \in Int
      BY <3>1
    <3>3. /\ IsFiniteSet(0 .. (N - 1))
          /\ Cardinality(0 .. (N - 1)) = (IF 0 > (N - 1) THEN 0 ELSE (N - 1) - 0 + 1)
      BY <3>2, FS_Interval, Zenon
    <3>4. (IF 0 > (N - 1) THEN 0 ELSE (N - 1) - 0 + 1) = N
      BY <3>1
    <3> QED  BY <3>3, <3>4
  <2>5. T \in SUBSET (0 .. N - 1)
    <3> HIDE DEF place, N
    <3> QED  BY <1>3
  <2>6. T = 0 .. N - 1
    <3> HIDE DEF T
    <3> QED  BY <1>1, <2>3, <2>4, <2>5, FS_Subset
  <2>7. i \in T
    <3> HIDE DEF T, N
    <3> QED  BY <2>6
  <2> QED  BY <2>7
<1> QED  BY <1>3, <1>5, <1>6 DEF PlaceIn

\* The members of a communicator have a rank each.
LEMMA RanksDiffer ==
  ASSUME NEW c, IsSequence(c.group)
  PROVE  /\ IsFiniteSet(Members(c)) /\ Len(c.group) \in Nat /\ DOMAIN c.group = 1 .. Len(c.group)
         /\ \A m \in Members(c) : /\ RankIn(m, c) \in 0 .. Len(c.group) - 1
                                  /\ c.group[RankIn(m, c) + 1] = m
<1>1. Len(c.group) \in Nat /\ DOMAIN c.group = 1 .. Len(c.group)
  BY DEF IsSequence
<1>2. IsFiniteSet(Members(c))
  <2> DEFINE g == c.group
             f == [i \in 1 .. Len(g) |-> g[i]]
  <2>1. f \in Surjection(1 .. Len(g), Members(c))
    <3> HIDE DEF g
    <3>1. Members(c) = {g[i] : i \in 1 .. Len(g)}
      BY <1>1 DEF Members, g
    <3> QED  BY <3>1 DEF Surjection
  <2>2. IsFiniteSet(1 .. Len(g))
    <3> HIDE DEF g
    <3> QED  BY <1>1, FS_Interval DEF g
  <2> HIDE DEF f, g
  <2> QED  BY <2>1, <2>2, FS_Surjection
<1>3. ASSUME NEW m \in Members(c)
      PROVE  RankIn(m, c) \in 0 .. Len(c.group) - 1 /\ c.group[RankIn(m, c) + 1] = m
  <2> DEFINE i == CHOOSE k \in DOMAIN c.group : c.group[k] = m
  <2>1. i \in DOMAIN c.group /\ c.group[i] = m
    BY DEF Members
  <2>2. RankIn(m, c) = i - 1
    BY DEF RankIn
  <2> HIDE DEF i
  <2>3. i \in 1 .. Len(c.group) /\ i \in Nat
    BY <1>1, <2>1
  <2>4. RankIn(m, c) + 1 = i
    BY <2>2, <2>3
  <2> QED  BY <1>1, <2>1, <2>2, <2>3, <2>4
<1> QED  BY <1>1, <1>2, <1>3

\* The members of a colour; m comes before k in it; how many come before x.
Coloured(c, arg, color) == {m \in Members(c) : arg[m].color = color}
Before(c, arg, m, k) ==
  \/ arg[m].key < arg[k].key
  \/ arg[m].key = arg[k].key /\ RankIn(m, c) < RankIn(k, c)
Place(c, arg, color, x) == Cardinality({m \in Coloured(c, arg, color) : Before(c, arg, m, x)})

\* What MPI_Comm_split gives the nodes of a colour: all of them and no other, each at its
\* place.
LEMMA SplitOrder ==
  ASSUME NEW c, IsSequence(c.group), NEW arg, \A m \in Members(c) : arg[m].key \in Int, NEW color
  PROVE  /\ IsSequence(SplitGroup(c, arg, color))
         /\ \A i \in DOMAIN SplitGroup(c, arg, color) :
              /\ i \in Nat
              /\ SplitGroup(c, arg, color)[i] \in Coloured(c, arg, color)
              /\ Place(c, arg, color, SplitGroup(c, arg, color)[i]) = i - 1
         /\ \A x \in Coloured(c, arg, color) :
              \E i \in DOMAIN SplitGroup(c, arg, color) : SplitGroup(c, arg, color)[i] = x
<1> DEFINE S == Coloured(c, arg, color)
           before(m, k) == Before(c, arg, m, k)
           Less == {p \in S \X S : before(p[1], p[2])}
           place(x) == PlaceIn(S, Less, x)
           g == SplitGroup(c, arg, color)
<1>2. \A m \in Members(c) : /\ RankIn(m, c) \in Int /\ arg[m].key \in Int
                            /\ c.group[RankIn(m, c) + 1] = m
  BY RanksDiffer
<1>3. S \subseteq Members(c) /\ IsFiniteSet(S)
  <2>1. S \in SUBSET Members(c)
    BY DEF Coloured
  <2> HIDE DEF S
  <2> QED  BY <2>1, RanksDiffer, FS_Subset
<1>4. \A x, y \in S : <<x, y>> \in Less <=> before(x, y)
  <2> HIDE DEF before, S
  <2> QED  OBVIOUS
<1>5. /\ \A x \in S : ~before(x, x)
      /\ \A x, y, z \in S : before(x, y) /\ before(y, z) => before(x, z)
      /\ \A x, y \in S : x # y => before(x, y) \/ before(y, x)
  <2> DEFINE key(x) == arg[x].key
             rank(x) == RankIn(x, c)
  <2>1. \A x \in S : key(x) \in Int /\ rank(x) \in Int
    <3> HIDE DEF S
    <3> QED  BY <1>2, <1>3
  <2>2. \A x, y \in S : x # y => rank(x) # rank(y)
    <3> HIDE DEF S
    <3> QED  BY <1>2, <1>3
  <2>3. \A x, y \in S : before(x, y) <=> (key(x) < key(y) \/ (key(x) = key(y) /\ rank(x) < rank(y)))
    BY DEF Before
  <2> HIDE DEF S, key, rank, before
  <2>4. \A x \in S : ~before(x, x)
    BY <2>1, <2>3
  <2>5. ASSUME NEW x \in S, NEW y \in S, NEW z \in S, before(x, y), before(y, z) PROVE before(x, z)
    BY <2>1, <2>3, <2>5
  <2>6. ASSUME NEW x \in S, NEW y \in S, x # y PROVE before(x, y) \/ before(y, x)
    <3>1. rank(x) # rank(y)
      BY <2>2, <2>6
    <3> QED  BY <2>1, <2>3, <3>1
  <2> QED  BY <2>4, <2>5, <2>6
<1>6. /\ \A x \in S : place(x) \in 0 .. Cardinality(S) - 1
      /\ \A x, y \in S : place(x) = place(y) => x = y
      /\ \A i \in 0 .. Cardinality(S) - 1 : \E x \in S : place(x) = i
  <2>1. /\ \A x \in S : <<x, x>> \notin Less
        /\ \A x, y, z \in S : <<x, y>> \in Less /\ <<y, z>> \in Less => <<x, z>> \in Less
        /\ \A x, y \in S : x # y => <<x, y>> \in Less \/ <<y, x>> \in Less
    <3> HIDE DEF S, before, Less
    <3> QED  BY <1>4, <1>5
  <2> HIDE DEF S, Less
  <2> QED  BY <1>3, <2>1, Places
<1>7. Cardinality(S) \in Nat
  <2> HIDE DEF S
  <2> QED  BY <1>3, FS_CardinalityType
<1>8. \A x \in S : Place(c, arg, color, x) = place(x)
  <2> SUFFICES ASSUME NEW x \in S PROVE Place(c, arg, color, x) = place(x)
    OBVIOUS
  <2>1. {m \in S : before(m, x)} = {y \in S : <<y, x>> \in Less}
    <3> HIDE DEF S, Less, before
    <3> QED  BY <1>4
  <2> QED  BY <2>1 DEF Place, PlaceIn
<1>9. g = [i \in 1 .. Cardinality(S) |-> CHOOSE x \in S : Place(c, arg, color, x) = i - 1]
  BY DEF SplitGroup, Place, Coloured, Before
<1> HIDE DEF S, Less, place, g, before
<1>10. \A i \in 1 .. Cardinality(S) : g[i] \in S /\ Place(c, arg, color, g[i]) = i - 1
  <2> SUFFICES ASSUME NEW i \in 1 .. Cardinality(S)
               PROVE  g[i] \in S /\ Place(c, arg, color, g[i]) = i - 1
    OBVIOUS
  <2>1. g[i] = CHOOSE x \in S : Place(c, arg, color, x) = i - 1
    BY <1>9
  <2>2. \E x \in S : Place(c, arg, color, x) = i - 1
    <3>1. i - 1 \in 0 .. Cardinality(S) - 1
      BY <1>7
    <3> QED  BY <1>6, <1>8, <3>1
  <2> QED  BY <2>1, <2>2
<1>11. g \in Seq(S) /\ DOMAIN g = 1 .. Cardinality(S)
  <2>1. g \in [1 .. Cardinality(S) -> S]
    BY <1>9, <1>10
  <2> QED  BY <1>7, <2>1
<1>12. \A x \in S : \E i \in 1 .. Cardinality(S) : g[i] = x
  <2> SUFFICES ASSUME NEW x \in S PROVE \E i \in 1 .. Cardinality(S) : g[i] = x
    OBVIOUS
  <2>1. place(x) \in 0 .. Cardinality(S) - 1
    BY <1>6
  <2>2. place(x) + 1 \in 1 .. Cardinality(S) /\ (place(x) + 1) - 1 = place(x)
    BY <1>7, <2>1
  <2>3. g[place(x) + 1] \in S /\ place(g[place(x) + 1]) = place(x)
    BY <1>8, <1>10, <2>2
  <2>4. g[place(x) + 1] = x
    BY <1>6, <2>3
  <2> QED  BY <2>2, <2>4
<1>14. IsSequence(g) /\ \A i \in 1 .. Cardinality(S) : i \in Nat
  BY <1>11, SequenceIs
<1> QED  BY <1>10, <1>11, <1>12, <1>14 DEF S, g

\* What it gives a member: a communicator of members of the old one, it among them.
LEMMA SplitGood ==
  ASSUME NEW n, NEW c, Good(n, c), NEW arg, NEW name,
         \A m \in Members(c) : arg[m].key \in Int
  PROVE  Good(n, [name |-> name, group |-> SplitGroup(c, arg, arg[n].color)])
<1> DEFINE color == arg[n].color
           S == Coloured(c, arg, color)
           g == SplitGroup(c, arg, color)
           d == [name |-> name, group |-> g]
<1>1. Members(c) \subseteq Node /\ n \in S /\ IsSequence(c.group) /\ S \subseteq Members(c)
  BY DEF Good, Coloured
<1>2. /\ IsSequence(g)
      /\ \A i \in DOMAIN g : g[i] \in S
      /\ \A x \in S : \E i \in DOMAIN g : g[i] = x
  BY <1>1, SplitOrder
<1>3. d.group = g
  OBVIOUS
<1> HIDE DEF S, g, d
<1>4. IsSequence(d.group) /\ Members(d) \subseteq Node /\ n \in Members(d)
  BY <1>1, <1>2, <1>3 DEF Members
<1> QED  BY <1>4 DEF Good, d, g, color

-----------------------------------------------------------------------------
(* Arguments.                                                              *)

\* A bounded set of natural numbers has a greatest element: the rest of the range from
\* it on is the least of the rests.
LEMMA HasLatest ==
  ASSUME NEW m \in Nat, NEW S \in SUBSET (0 .. m), S # {}
  PROVE  Latest(S) \in S /\ \A j \in S : j <= Latest(S)
<1> DEFINE T == {i .. m : i \in S}
           Less == StrictSubsetOrdering(0 .. m)
<1>1. IsWellFoundedOn(Less, SUBSET (0 .. m))
  <2>1. IsFiniteSet(0 .. m)
    BY FS_Interval
  <2> QED  BY <2>1, FS_StrictSubsetOrderingWellFounded, FS_FiniteSubsetsOfFinite
<1>2. T \subseteq SUBSET (0 .. m) /\ T # {}
  <2>1. PICK i \in S : TRUE
    OBVIOUS
  <2>2. (i .. m) \in T
    BY <2>1
  <2>3. ASSUME NEW j \in S PROVE j .. m \subseteq 0 .. m
    OBVIOUS
  <2> QED  BY <2>2, <2>3
<1>3. \E X \in T : \A Y \in T : ~(<<Y, X>> \in Less)
  <2> HIDE DEF T, Less
  <2> QED  BY <1>1, <1>2, WFMin
<1>4. PICK i \in S : \A j \in S : ~(<<j .. m, i .. m>> \in Less)
  BY <1>3
<1>5. ASSUME NEW j \in S, i < j PROVE FALSE
  <2>1. j .. m \subseteq i .. m /\ i \in i .. m /\ i \notin j .. m
    BY <1>5
  <2>2. j .. m \in SUBSET (0 .. m) /\ i .. m \in SUBSET (0 .. m)
    OBVIOUS
  <2> QED  BY <1>4, <2>1, <2>2 DEF StrictSubsetOrdering
<1>6. i \in S /\ \A j \in S : j <= i
  BY <1>5
<1> HIDE DEF T, Less
<1>7. \E k \in S : \A j \in S : j <= k
  BY <1>6
<1> QED  BY <1>7 DEF Latest

\* The row of numbers behind tag i ends somewhere.
LEMMA RowEnds ==
  ASSUME NEW av, Len(av) \in Nat, NEW i \in 2 .. Len(av)
  PROVE  /\ End(av, i) \in i .. Len(av)
         /\ \A k \in i + 1 .. End(av, i) : IsDigit(av[k])
<1> DEFINE S == {e \in i .. Len(av) : \A k \in i + 1 .. e : IsDigit(av[k])}
           e == Latest(S)
<1>1. i \in S /\ S \in SUBSET (0 .. Len(av))
  OBVIOUS
<1>2. e \in S /\ \A j \in S : j <= e
  <2> HIDE DEF S
  <2> QED  BY <1>1, HasLatest
<1>3. e = Len(av) \/ ~IsDigit(av[e + 1])
  <2> SUFFICES ASSUME e # Len(av), IsDigit(av[e + 1]) PROVE FALSE
    OBVIOUS
  <2> HIDE DEF e
  <2>1. e \in i .. Len(av) /\ \A k \in i + 1 .. e : IsDigit(av[k])
    BY <1>2
  <2>2. e + 1 \in i .. Len(av) /\ \A k \in i + 1 .. e + 1 : k = e + 1 \/ k \in i + 1 .. e
    BY <2>1
  <2>3. e + 1 \in S
    BY <2>1, <2>2
  <2> QED  BY <1>2, <2>1, <2>3
<1>4. e \in i .. Len(av) /\ \A k \in i + 1 .. e : IsDigit(av[k])
  <2> HIDE DEF e
  <2> QED  BY <1>2
<1> HIDE DEF e, S
<1>5. \E x \in i .. Len(av) : /\ \A k \in i + 1 .. x : IsDigit(av[k])
                              /\ x = Len(av) \/ ~IsDigit(av[x + 1])
  BY <1>3, <1>4
<1> QED  BY <1>5 DEF End

\* What get_arg gives as numbers is numbers.
LEMMA GivesNumbers ==
  ASSUME NEW av, IsSequence(av), NEW tag, GetIntArray(av, tag).a # NULL
  PROVE  GetIntArray(av, tag).a[1] \in Int
<1> DEFINE found == Found(av, tag)
           lists == {i \in found : ~Word(av, i) /\ End(av, i) > i}
           l == Latest(lists)
           a == GetIntArray(av, tag).a
<1>1. Len(av) \in Nat
  BY DEF IsSequence
<1>2. found \subseteq 2 .. Len(av)
  BY DEF Found
<1>3. a = IF lists = {} THEN NULL ELSE [k \in 1 .. End(av, l) - l |-> Value[av[l + k]]]
  BY DEF GetIntArray, GetArg
<1>4. lists # {} /\ a = [k \in 1 .. End(av, l) - l |-> Value[av[l + k]]]
  BY <1>3
<1>5. l \in lists
  <2>1. lists \in SUBSET (0 .. Len(av))
    BY <1>1, <1>2
  <2> HIDE DEF lists
  <2> QED  BY <1>1, <1>4, <2>1, HasLatest
<1>6. l \in 2 .. Len(av) /\ End(av, l) > l
  <2> HIDE DEF l
  <2> QED  BY <1>2, <1>5
<1> HIDE DEF l
<1>7. End(av, l) \in l .. Len(av) /\ \A k \in l + 1 .. End(av, l) : IsDigit(av[k])
  BY <1>1, <1>6, RowEnds
<1>8. IsDigit(av[l + 1]) /\ 1 \in 1 .. End(av, l) - l
  BY <1>1, <1>6, <1>7
<1>9. \A x \in DOMAIN Value : Value[x] \in Int
  BY DEF Value
<1>10. a[1] = Value[av[l + 1]]
  BY <1>4, <1>8
<1> HIDE DEF a
<1> QED  BY <1>8, <1>9, <1>10 DEF IsDigit, a

-----------------------------------------------------------------------------
(* A step of a node: the first item of its agenda gives way to others.      *)

MayCome(items) ==
  /\ IsSequence(items)
  /\ \A i \in 1 .. Len(items) :
       /\ ItemOK(items[i]) /\ items[i].do \notin {"nmpi", "parse"}
       /\ items[i].do \in Late => i = 2 /\ Behind(items[2], items[1])

FreshOK(items) == MayCome(items) /\ \A i \in 1 .. Len(items) : items[i].do \notin Early

LEMMA AgendaReplaced ==
  ASSUME NEW ag, AgendaOK(ag), ag # <<>>, ag[1].do # "mpi", NEW items, MayCome(items)
  PROVE  LET new == items \o Tail(ag)
         IN /\ AgendaOK(new)
            /\ \A i \in 1 .. Len(new) :
                 \/ i \in 1 .. Len(items) /\ new[i] = items[i]
                 \/ new[i].do \notin Late /\ \E j \in 2 .. Len(ag) : new[i] = ag[j]
<1> DEFINE new == items \o Tail(ag)
           L == Len(items)
           M == Len(ag)
<1>1. /\ IsSequence(new) /\ M \in Nat \ {0} /\ L \in Nat /\ Len(new) = L + M - 1
      /\ \A i \in 1 .. L : new[i] = items[i]
      /\ \A i \in L + 1 .. L + M - 1 : new[i] = ag[i - L + 1]
  BY Replaced DEF AgendaOK, MayCome
<1>2. \A j \in 1 .. M : ItemOK(ag[j]) /\ (ag[j].do \in Late \/ ag[j].do = "nmpi" => j = 1)
  BY DEF AgendaOK, Behind
<1> HIDE DEF new
<1>3. ASSUME NEW i \in 1 .. Len(new)
      PROVE  \/ i \in 1 .. L /\ new[i] = items[i]
             \/ i - L + 1 \in 2 .. M /\ new[i] = ag[i - L + 1]
  <2>0. L \in Nat /\ M \in Nat \ {0} /\ Len(new) = L + M - 1
    BY <1>1
  <2>1. CASE i <= L
    <3>1. i \in 1 .. L
      BY <2>0, <2>1
    <3> QED  BY <1>1, <3>1
  <2>2. CASE ~(i <= L)
    <3>1. i \in L + 1 .. L + M - 1 /\ i - L + 1 \in 2 .. M
      <4> HIDE DEF L, M
      <4> QED  BY <2>0, <2>2
    <3> QED  BY <1>1, <3>1
  <2> QED  BY <2>1, <2>2
<1>4. ASSUME NEW i \in 1 .. Len(new) PROVE ItemOK(new[i])
  <2>1. CASE i \in 1 .. L /\ new[i] = items[i]
    BY <2>1 DEF MayCome
  <2>2. CASE i - L + 1 \in 2 .. M /\ new[i] = ag[i - L + 1]
    <3>1. i - L + 1 \in 1 .. M
      BY <2>2
    <3> QED  BY <1>2, <2>2, <3>1
  <2> QED  BY <1>3, <2>1, <2>2
<1>5. \A i \in 1 .. Len(new) : new[i].do \in Late => i = 2 /\ Behind(new[2], new[1])
  <2> SUFFICES ASSUME NEW i \in 1 .. Len(new), new[i].do \in Late PROVE i = 2 /\ Behind(new[2], new[1])
    OBVIOUS
  <2>1. i \in 1 .. L /\ new[i] = items[i]
    <3> SUFFICES ASSUME i - L + 1 \in 2 .. M, new[i] = ag[i - L + 1] PROVE FALSE
      BY <1>3
    <3>1. ag[i - L + 1].do \in Late /\ i - L + 1 \in 1 .. M /\ i - L + 1 # 1
      BY <1>1
    <3> QED  BY <1>2, <3>1
  <2>2. i = 2 /\ Behind(items[2], items[1])
    BY <2>1 DEF MayCome
  <2> HIDE DEF L, M
  <2>3. 1 \in 1 .. L /\ 2 \in 1 .. L
    BY <1>1, <2>1, <2>2
  <2>4. new[1] = items[1] /\ new[2] = items[2]
    BY <1>1, <2>3
  <2> QED  BY <2>2, <2>4
<1>6. ASSUME NEW i \in 1 .. Len(new) PROVE new[i].do # "nmpi"
  <2>1. CASE i \in 1 .. L /\ new[i] = items[i]
    BY <2>1 DEF MayCome
  <2>2. CASE i - L + 1 \in 2 .. M /\ new[i] = ag[i - L + 1]
    <3>1. i - L + 1 \in 1 .. M /\ i - L + 1 # 1
      BY <2>2
    <3> QED  BY <1>2, <2>2, <3>1
  <2> QED  BY <1>3, <2>1, <2>2
<1>7. ASSUME NEW i \in 1 .. Len(new), NEW j \in 1 .. Len(new), i < j, new[i].do = "parse"
      PROVE  new[j].do \notin Early
  <2>1. i \notin 1 .. L
    BY <1>1, <1>7 DEF MayCome
  <2>2. j \notin 1 .. L
    BY <1>1, <1>7, <2>1
  <2>3. /\ i - L + 1 \in 1 .. M /\ new[i] = ag[i - L + 1]
        /\ j - L + 1 \in 1 .. M /\ new[j] = ag[j - L + 1] /\ i - L + 1 < j - L + 1
    BY <1>1, <1>3, <1>7, <2>1, <2>2
  <2> QED  BY <1>7, <2>3 DEF AgendaOK
<1>8. AgendaOK(new)
  BY <1>1, <1>4, <1>5, <1>6, <1>7 DEF AgendaOK
<1>9. \A i \in 1 .. Len(new) :
        \/ i \in 1 .. L /\ new[i] = items[i]
        \/ new[i].do \notin Late /\ \E j \in 2 .. M : new[i] = ag[j]
  <2> TAKE i \in 1 .. Len(new)
  <2>1. CASE i \in 1 .. L /\ new[i] = items[i]
    BY <2>1
  <2>2. CASE i - L + 1 \in 2 .. M /\ new[i] = ag[i - L + 1]
    <3> DEFINE j == i - L + 1
    <3>1. j \in 2 .. M /\ new[i] = ag[j]
      BY <2>2
    <3> HIDE DEF j, M, L
    <3>2. j \in 1 .. M /\ j # 1
      BY <1>1, <3>1
    <3>3. new[i].do \notin Late
      BY <1>2, <3>1, <3>2
    <3> QED  BY <3>1, <3>3
  <2> HIDE DEF M, L
  <2> QED  BY <1>3, <2>1, <2>2
<1> QED  BY <1>8, <1>9 DEF new

\* What a step of QMP that is no call of MPI keeps.
LEMMA NodeGoes ==
  ASSUME NEW n, NEW ag, NEW ent, NEW rg, NEW cm, NEW pt, NEW ar, NEW av,
         NodeOK(n, ag, FALSE, ent, rg, cm, pt, ar, av), ag # <<>>, ag[1].do # "mpi",
         NEW items, FreshOK(items), NEW cm2, NEW pt2, NEW ar2, NEW av2,
         CommsOK(n, cm2, pt2),
         Fields \subseteq DOMAIN cm2["A"], cm2["A"].nodeid = n, n \in 0 .. cm2["A"].num_nodes - 1,
         \A i \in 1 .. Len(items) : items[i].do \in {"count", "colors", "made"} =>
                                      Incomplete(cm2[ObjectOf(items[i].into)]),
         ar2 # None => ar # None \/ ag[1].do = "parse"
  PROVE  NodeOK(n, items \o Tail(ag), FALSE, ent, rg, cm2, pt2, ar2, av2)
<1> DEFINE new == items \o Tail(ag)
<1>1. AgendaOK(ag) /\ CallsOK(ent) /\ AllocOK(n, ag, cm, ar) /\ ArgsOK(ag, ar, av)
  BY DEF NodeOK
<1>2. AgendaOK(new) /\ \A i \in 1 .. Len(new) :
         \/ i \in 1 .. Len(items) /\ new[i] = items[i]
         \/ new[i].do \notin Late /\ \E j \in 2 .. Len(ag) : new[i] = ag[j]
  BY <1>1, AgendaReplaced DEF FreshOK
<1> HIDE DEF new
<1>3. Len(new) \in Nat /\ Len(ag) \in Nat /\ (new # <<>> => 1 \in 1 .. Len(new))
      /\ 1 \in 1 .. Len(ag)
  BY <1>1, <1>2 DEF AgendaOK, IsSequence
<1>4. ResultsOK(n, new, rg, cm2)
  <2>1. new # <<>> => new[1].do \notin Late
    BY <1>2, <1>3 DEF FreshOK, MayCome
  <2>2. ASSUME NEW i \in 1 .. Len(new), new[i].do \in {"count", "colors", "made"}
        PROVE  Incomplete(cm2[ObjectOf(new[i].into)])
    BY <1>2, <2>2 DEF Late
  <2> QED  BY <2>1, <2>2 DEF ResultsOK, Late
<1>5. AllocOK(n, new, cm2, ar2)
  BY <1>1 DEF AllocOK
<1>6. ArgsOK(new, ar2, av2)
  <2>1. ASSUME ar2 # None, NEW i \in 1 .. Len(new) PROVE new[i].do \notin Early
    <3>1. \A j \in 2 .. Len(ag) : ag[j].do \notin Early
      BY <1>1, <1>3, <2>1 DEF ArgsOK, AgendaOK
    <3> QED  BY <1>2, <3>1 DEF FreshOK
  <2>2. new # <<>> => new[1].do # "nmpi"
    <3> SUFFICES ASSUME new # <<>> PROVE new[1].do # "nmpi"
      OBVIOUS
    <3>1. CASE 1 \in 1 .. Len(items) /\ new[1] = items[1]
      BY <3>1 DEF FreshOK, Early
    <3>2. CASE \E j \in 2 .. Len(ag) : new[1] = ag[j]
      BY <1>1, <1>3, <3>2 DEF AgendaOK
    <3> QED  BY <1>2, <1>3, <3>1, <3>2
  <2> QED  BY <2>1, <2>2 DEF ArgsOK
<1> QED  BY <1>1, <1>2, <1>4, <1>5, <1>6 DEF NodeOK, new

\* g differs from f at n at most.
ChangedAt(n, f, g) == DOMAIN g = Node /\ \A m \in Node \ {n} : g[m] = f[m]

LEMMA OneNode ==
  ASSUME StartupInv, NEW n \in Node, TypesOK', inside' \in [Node -> BOOLEAN],
         ChangedAt(n, agenda, agenda'), ChangedAt(n, inside, inside'),
         ChangedAt(n, entered, entered'), ChangedAt(n, reg, reg'), ChangedAt(n, comm, comm'),
         ChangedAt(n, ptr, ptr'), ChangedAt(n, args, args'), ChangedAt(n, argv, argv'),
         Holds(n)'
  PROVE  StartupInv'
<1>1. ShapeOK'
  BY DEF ShapeOK, ChangedAt
<1>2. ASSUME NEW m \in Node PROVE Holds(m)'
  <2>1. CASE m = n
    BY <2>1
  <2>2. CASE m # n
    <3>1. /\ agenda'[m] = agenda[m] /\ inside'[m] = inside[m] /\ entered'[m] = entered[m]
          /\ reg'[m] = reg[m] /\ comm'[m] = comm[m] /\ ptr'[m] = ptr[m]
          /\ args'[m] = args[m] /\ argv'[m] = argv[m]
      BY <2>2 DEF ChangedAt
    <3>2. NodeOK(m, agenda[m], inside[m], entered[m], reg[m], comm[m], ptr[m], args[m], argv[m])
      BY DEF StartupInv, Holds
    <3>3. NodeOK(m, agenda'[m], inside'[m], entered'[m], reg'[m], comm'[m], ptr'[m], args'[m], argv'[m])
      BY <3>1, <3>2, Zenon
    <3> QED  BY <3>3 DEF Holds
  <2> QED  BY <2>1, <2>2
<1> QED  BY <1>1, <1>2 DEF StartupInv

LEMMA Goes_Inv ==
  ASSUME StartupInv, NEW n \in Node, NEW kind, IsAt(n, kind), kind # "mpi",
         NEW items, FreshOK(items), Instead(n, items), UNCHANGED <<inside, entered, reg>>, TypesOK',
         ChangedAt(n, comm, comm'), ChangedAt(n, ptr, ptr'),
         ChangedAt(n, args, args'), ChangedAt(n, argv, argv'),
         CommsOK(n, comm'[n], ptr'[n]),
         Fields \subseteq DOMAIN comm'[n]["A"], comm'[n]["A"].nodeid = n,
         n \in 0 .. comm'[n]["A"].num_nodes - 1,
         \A i \in 1 .. Len(items) : items[i].do \in {"count", "colors", "made"} =>
                                      Incomplete(comm'[n][ObjectOf(items[i].into)]),
         args'[n] # None => args[n] # None \/ kind = "parse"
  PROVE  StartupInv'
<1>1. Holds(n) /\ ShapeOK
  BY DEF StartupInv
<1>2. ~inside[n] /\ agenda[n] # <<>> /\ agenda[n][1].do = kind
  BY DEF IsAt, Todo
<1>3. inside[n] = FALSE /\ inside'[n] = FALSE /\ entered'[n] = entered[n] /\ reg'[n] = reg[n]
  BY <1>1, <1>2 DEF ShapeOK
<1>4. /\ ChangedAt(n, agenda, agenda') /\ ChangedAt(n, inside, inside')
      /\ ChangedAt(n, entered, entered') /\ ChangedAt(n, reg, reg')
      /\ agenda'[n] = items \o Tail(agenda[n]) /\ inside' \in [Node -> BOOLEAN]
  BY <1>1 DEF ShapeOK, ChangedAt, Instead
<1>5. NodeOK(n, agenda[n], FALSE, entered[n], reg[n], comm[n], ptr[n], args[n], argv[n])
  BY <1>1, <1>3, Zenon DEF Holds
<1>6. NodeOK(n, items \o Tail(agenda[n]), FALSE, entered[n], reg[n], comm'[n], ptr'[n],
             args'[n], argv'[n])
  <2> DEFINE ag == agenda[n]
             ent == entered[n]
             rg == reg[n]
             cm == comm[n]
             pt == ptr[n]
             ar == args[n]
             av == argv[n]
             cm2 == comm'[n]
             pt2 == ptr'[n]
             ar2 == args'[n]
             av2 == argv'[n]
  <2>1. /\ NodeOK(n, ag, FALSE, ent, rg, cm, pt, ar, av) /\ ag # <<>> /\ ag[1].do # "mpi"
        /\ CommsOK(n, cm2, pt2)
        /\ Fields \subseteq DOMAIN cm2["A"] /\ cm2["A"].nodeid = n /\ n \in 0 .. cm2["A"].num_nodes - 1
        /\ \A i \in 1 .. Len(items) : items[i].do \in {"count", "colors", "made"} =>
                                      Incomplete(cm2[ObjectOf(items[i].into)])
        /\ ar2 # None => ar # None \/ ag[1].do = "parse"
    BY <1>2, <1>5
  <2> HIDE DEF ag, ent, rg, cm, pt, ar, av, cm2, pt2, ar2, av2
  <2>2. NodeOK(n, items \o Tail(ag), FALSE, ent, rg, cm2, pt2, ar2, av2)
    BY <2>1, NodeGoes
  <2> QED  BY <2>2 DEF ag, ent, rg, cm, pt, ar, av, cm2, pt2, ar2, av2
<1>7. Holds(n)'
  BY <1>3, <1>4, <1>6, Zenon DEF Holds
<1> QED  BY <1>4, <1>7, OneNode

\* What a node is at.
LEMMA HeadOK ==
  ASSUME StartupInv, NEW n \in Node, NEW kind, IsAt(n, kind)
  PROVE  /\ ItemOK(Todo(n)) /\ Todo(n).do = kind /\ "do" \in DOMAIN Todo(n)
         /\ AgendaOK(agenda[n]) /\ agenda[n] # <<>> /\ Len(agenda[n]) \in Nat \ {0}
         /\ CommsOK(n, comm[n], ptr[n]) /\ AllocOK(n, agenda[n], comm[n], args[n])
         /\ ResultsOK(n, agenda[n], reg[n], comm[n]) /\ inside[n] = FALSE
         /\ Fields \subseteq DOMAIN comm[n]["A"] /\ comm[n]["A"].nodeid = n
         /\ n \in 0 .. comm[n]["A"].num_nodes - 1
<1>1. /\ AgendaOK(agenda[n]) /\ CommsOK(n, comm[n], ptr[n])
      /\ AllocOK(n, agenda[n], comm[n], args[n]) /\ ResultsOK(n, agenda[n], reg[n], comm[n])
  BY DEF StartupInv, Holds, NodeOK
<1>2. agenda[n] # <<>> /\ agenda[n][1].do = kind /\ ~inside[n]
  BY DEF IsAt, Todo
<1>3. Len(agenda[n]) \in Nat \ {0}
  BY <1>1, <1>2 DEF AgendaOK, IsSequence
<1>4. ItemOK(agenda[n][1])
  BY <1>1, <1>3 DEF AgendaOK
<1>5. inside[n] = FALSE
  BY <1>2 DEF StartupInv, ShapeOK
<1>6. Fields \subseteq DOMAIN comm[n]["A"] /\ comm[n]["A"].nodeid = n
      /\ n \in 0 .. comm[n]["A"].num_nodes - 1
  BY <1>1, <1>2 DEF AllocOK
<1> QED  BY <1>1, <1>2, <1>3, <1>4, <1>5, <1>6 DEF Todo, ItemOK

LEMMA Plain_Inv ==
  ASSUME StartupInv, NEW n \in Node, NEW kind, IsAt(n, kind), kind # "mpi",
         NEW items, FreshOK(items), Instead(n, items),
         UNCHANGED <<inside, entered, reg, comm, ptr, args, argv>>, TypesOK',
         \A i \in 1 .. Len(items) : items[i].do \in {"count", "colors", "made"} =>
                                      Incomplete(comm[n][ObjectOf(items[i].into)])
  PROVE  StartupInv'
<1>1. /\ CommsOK(n, comm[n], ptr[n])
      /\ Fields \subseteq DOMAIN comm[n]["A"] /\ comm[n]["A"].nodeid = n
      /\ n \in 0 .. comm[n]["A"].num_nodes - 1
  BY HeadOK
<1>2. /\ ChangedAt(n, comm, comm') /\ ChangedAt(n, ptr, ptr')
      /\ ChangedAt(n, args, args') /\ ChangedAt(n, argv, argv')
  BY DEF StartupInv, ShapeOK, ChangedAt
<1>3. comm' = comm /\ ptr' = ptr /\ args' = args
  OBVIOUS
<1>4. /\ CommsOK(n, comm'[n], ptr'[n])
      /\ Fields \subseteq DOMAIN comm'[n]["A"] /\ comm'[n]["A"].nodeid = n
      /\ n \in 0 .. comm'[n]["A"].num_nodes - 1
      /\ \A i \in 1 .. Len(items) : items[i].do \in {"count", "colors", "made"} =>
                                      Incomplete(comm'[n][ObjectOf(items[i].into)])
      /\ args'[n] # None => args[n] # None \/ kind = "parse"
  BY <1>1, <1>3, Zenon
<1>5. UNCHANGED <<inside, entered, reg>>
  OBVIOUS
<1> QED  BY <1>2, <1>4, <1>5, Goes_Inv

LEMMA Same_Inv ==
  ASSUME StartupInv, UNCHANGED <<agenda, inside, entered, reg, comm, ptr, args, argv>>, TypesOK'
  PROVE  StartupInv'
<1>1. ShapeOK'
  BY DEF StartupInv, ShapeOK
<1>2. ASSUME NEW n \in Node PROVE Holds(n)'
  <2>1. Holds(n)
    BY DEF StartupInv
  <2> QED  BY <2>1 DEF Holds
<1> QED  BY <1>1, <1>2 DEF StartupInv

-----------------------------------------------------------------------------
(* Items.                                                                  *)

LEMMA CallOps == \A x \in DOMAIN Calls : Calls[x].op # "split"
<1> DEFINE tables == {SumCalls, ExtendedCalls, ArrayCalls, FloatExtremes, DoubleExtremes, XorCall}
<1>1. \A t \in tables : \A x \in DOMAIN t : t[x].op # "split"
  BY DEF SumCalls, ExtendedCalls, ArrayCalls, FloatExtremes, DoubleExtremes, XorCall, R
<1>2. Calls = [c \in UNION {DOMAIN t : t \in tables} |-> (CHOOSE t \in tables : c \in DOMAIN t)[c]]
  BY DEF Calls
<1> HIDE DEF tables
<1>3. ASSUME NEW x \in DOMAIN Calls PROVE Calls[x].op # "split"
  <2>1. \E t \in tables : x \in DOMAIN t
    BY <1>2
  <2> DEFINE t == CHOOSE u \in tables : x \in DOMAIN u
  <2>2. t \in tables /\ x \in DOMAIN t
    BY <2>1
  <2>3. Calls[x] = t[x]
    BY <1>2
  <2> QED  BY <1>1, <2>2, <2>3
<1> QED  BY <1>3

\* One item.
LEMMA FreshOne ==
  ASSUME NEW a, ItemOK(a), a.do \notin Early \cup Late
  PROVE  FreshOK(<<a>>)
<1>1. <<a>> \in Seq({a}) /\ Len(<<a>>) = 1 /\ <<a>>[1] = a
  OBVIOUS
<1>2. IsSequence(<<a>>)
  BY <1>1, SequenceIs
<1> QED  BY <1>1, <1>2 DEF FreshOK, MayCome, Early, Late

LEMMA FreshNone == FreshOK(<<>>)
<1>1. <<>> \in Seq({}) /\ Len(<<>>) = 0
  OBVIOUS
<1>2. IsSequence(<<>>)
  BY <1>1, SequenceIs
<1> QED  BY <1>1, <1>2 DEF FreshOK, MayCome

\* A call of MPI and what comes behind it.
LEMMA FreshTwo ==
  ASSUME NEW a, NEW b, ItemOK(a), ItemOK(b), a.do \notin Early \cup Late, b.do \notin Early,
         b.do \in Late => Behind(b, a)
  PROVE  FreshOK(<<a, b>>)
<1>1. <<a, b>> \in Seq({a, b}) /\ Len(<<a, b>>) = 2 /\ <<a, b>>[1] = a /\ <<a, b>>[2] = b
  OBVIOUS
<1>2. IsSequence(<<a, b>>)
  BY <1>1, SequenceIs
<1>3. \A i \in 1 .. 2 : i = 1 \/ i = 2
  OBVIOUS
<1> QED  BY <1>1, <1>2, <1>3 DEF FreshOK, MayCome, Early, Late

LEMMA FreshThree ==
  ASSUME NEW a, NEW b, NEW c, ItemOK(a), ItemOK(b), ItemOK(c), a.do \notin Early \cup Late,
         b.do \notin Early \cup Late, c.do \notin Early \cup Late
  PROVE  FreshOK(<<a, b, c>>)
<1> DEFINE s == <<a, b, c>>
<1>1. s \in Seq({a, b, c}) /\ Len(s) = 3 /\ s[1] = a /\ s[2] = b /\ s[3] = c
  OBVIOUS
<1>2. IsSequence(s)
  BY <1>1, SequenceIs
<1>3. \A i \in 1 .. 3 : i = 1 \/ i = 2 \/ i = 3
  OBVIOUS
<1> HIDE DEF s
<1>4. FreshOK(s)
  BY <1>1, <1>2, <1>3 DEF FreshOK, MayCome, Early, Late
<1> QED  BY <1>4 DEF s

-----------------------------------------------------------------------------
(* The steps that leave the communicators and the arguments alone.          *)

LEMMA CallMpi ==
  ASSUME NEW o \in Names, NEW op, NEW type, NEW arg, op = "split" => arg.key \in Int
  PROVE  LET it == Mpi(o, op, type, arg)
         IN ItemOK(it) /\ it.do = "mpi" /\ it.op = op /\ it.do \notin Early \cup Late
  BY DEF Mpi, ItemOK, Early, Late, Splitting

LEMMA Reduce_Inv ==
  ASSUME StartupInv, NEW n \in Node, Reduce(n), UNCHANGED startVars
  PROVE  StartupInv'
<1> DEFINE it == Todo(n)
           r == Calls[it.call]
           a == Mpi(it.comm, r.op, r.mpi, AsMpi(Widened(it.arg, r), r))
           b == [it EXCEPT !.do = "back"]
<1>1. IsAt(n, "reduce") /\ Instead(n, <<a, b>>)
  BY DEF Reduce
<1>2. ItemOK(it) /\ it.do = "reduce"
  BY <1>1, HeadOK
<1>3. it.comm \in Names /\ r.op # "split"
  BY <1>2, CallOps DEF ItemOK
<1>4. ItemOK(a) /\ a.do = "mpi" /\ a.do \notin Early \cup Late
  <2> HIDE DEF it, r
  <2> QED  BY <1>3, CallMpi
<1>5. ItemOK(b) /\ b.do = "back"
  BY <1>2 DEF ItemOK, Splitting
<1>6. UNCHANGED <<inside, entered, reg, comm, ptr, args, argv>> /\ TypesOK'
  BY DEF Reduce, startVars, StartupInv, TypesOK
<1> HIDE DEF a, b
<1>7. FreshOK(<<a, b>>)
  BY <1>4, <1>5, FreshTwo DEF Early, Late
<1>8. \A i \in 1 .. Len(<<a, b>>) : <<a, b>>[i].do \notin {"count", "colors", "made"}
  BY <1>4, <1>5
<1> QED  BY <1>1, <1>6, <1>7, <1>8, Plain_Inv

LEMMA Exchange_Inv ==
  ASSUME StartupInv, NEW n \in Node, Exchange(n), UNCHANGED startVars
  PROVE  StartupInv'
<1> DEFINE it == Todo(n)
           a == Mpi(it.comm, it.call, "byte", it.arg)
           b == [it EXCEPT !.do = "copied"]
<1>1. IsAt(n, "exchange") /\ Instead(n, <<a, b>>)
  BY DEF Exchange
<1>2. ItemOK(it) /\ it.do = "exchange"
  BY <1>1, HeadOK
<1>3. it.comm \in Names /\ it.call # "split"
  BY <1>2 DEF ItemOK
<1>4. ItemOK(a) /\ a.do = "mpi" /\ a.do \notin Early \cup Late
  <2> HIDE DEF it
  <2> QED  BY <1>3, CallMpi
<1>5. ItemOK(b) /\ b.do = "copied"
  BY <1>2 DEF ItemOK, Splitting
<1>6. UNCHANGED <<inside, entered, reg, comm, ptr, args, argv>> /\ TypesOK'
  BY DEF Exchange, startVars, StartupInv, TypesOK
<1> HIDE DEF a, b
<1>7. FreshOK(<<a, b>>)
  BY <1>4, <1>5, FreshTwo DEF Early, Late
<1>8. \A i \in 1 .. Len(<<a, b>>) : <<a, b>>[i].do \notin {"count", "colors", "made"}
  BY <1>4, <1>5
<1> QED  BY <1>1, <1>6, <1>7, <1>8, Plain_Inv

LEMMA BinaryReduction_Inv ==
  ASSUME StartupInv, NEW n \in Node, BinaryReduction(n), UNCHANGED startVars
  PROVE  StartupInv'
<1> DEFINE it == Todo(n)
           a == Mpi(it.comm, "user", "byte", it.arg)
           b == [it EXCEPT !.do = "unhook"]
<1>1. IsAt(n, "binary_reduction")
  BY DEF BinaryReduction
<1>2. CASE Abort
  BY <1>2, Same_Inv DEF Abort, collVars, startVars, StartupInv, TypesOK
<1>3. CASE ~Abort
  <2>1. /\ Instead(n, <<a, b>>) /\ opInited' = [opInited EXCEPT ![n] = TRUE]
        /\ UNCHANGED <<inside, entered, reg, comm, ptr, aborted>>
    BY <1>3 DEF BinaryReduction
  <2>2. ItemOK(it) /\ it.do = "binary_reduction"
    BY <1>1, HeadOK
  <2>3. it.comm \in Names
    BY <2>2 DEF ItemOK
  <2>4. ItemOK(a) /\ a.do = "mpi" /\ a.do \notin Early \cup Late
    <3> HIDE DEF it
    <3> QED  BY <2>3, CallMpi
  <2>5. ItemOK(b) /\ b.do = "unhook"
    BY <2>2 DEF ItemOK, Splitting
  <2>6. UNCHANGED <<inside, entered, reg, comm, ptr, args, argv>> /\ TypesOK'
    BY <2>1 DEF startVars, StartupInv, TypesOK
  <2> HIDE DEF a, b
  <2>7. FreshOK(<<a, b>>)
    BY <2>4, <2>5, FreshTwo DEF Early, Late
  <2>8. \A i \in 1 .. Len(<<a, b>>) : <<a, b>>[i].do \notin {"count", "colors", "made"}
    BY <2>4, <2>5
  <2> QED  BY <1>1, <2>1, <2>6, <2>7, <2>8, Plain_Inv
<1> QED  BY <1>2, <1>3

\* The steps that only take an item off.
LEMMA Off_Inv ==
  ASSUME StartupInv, NEW n \in Node, NEW kind, IsAt(n, kind), kind # "mpi", Instead(n, <<>>),
         UNCHANGED <<inside, entered, reg, comm, ptr, args, argv>>, TypesOK'
  PROVE  StartupInv'
<1>1. \A i \in 1 .. Len(<<>>) : <<>>[i].do \in {"count", "colors", "made"} =>
                                  Incomplete(comm[n][ObjectOf(<<>>[i].into)])
  OBVIOUS
<1> QED  BY <1>1, FreshNone, Plain_Inv

LEMMA Result_Inv ==
  ASSUME StartupInv, NEW n \in Node, Back(n) \/ Copied(n) \/ Unhook(n), UNCHANGED startVars
  PROVE  StartupInv'
<1>1. UNCHANGED <<inside, entered, reg, comm, ptr, args, argv>> /\ TypesOK' /\ Instead(n, <<>>)
  BY DEF Back, Copied, Unhook, startVars, StartupInv, TypesOK
<1>2. \E kind \in {"back", "copied", "unhook"} : IsAt(n, kind)
  BY DEF Back, Copied, Unhook
<1> QED  BY <1>1, <1>2, Off_Inv

LEMMA Job_Inv ==
  ASSUME StartupInv, NEW n \in Node, Job(n)
  PROVE  StartupInv'
<1>1. IsAt(n, "job") /\ UNCHANGED <<scenario, argv, args, status>>
      /\ ictype' = [ictype EXCEPT ![n] = IF Declared(n, "alloc") THEN "mesh" ELSE @]
  BY DEF Job
<1>2. ictype' \in [Node -> {"switch", "mesh"}]
  BY <1>1 DEF StartupInv, TypesOK
<1>3. CASE Abort
  <2>1. TypesOK'
    BY <1>1, <1>2, <1>3 DEF Abort, collVars, StartupInv, TypesOK
  <2> QED  BY <1>1, <1>3, <2>1, Same_Inv DEF Abort, collVars
<1>4. CASE ~Abort
  <2> DEFINE a == SplitItem("alloc", GetColor(n), 0, "job")
  <2>1. Goes(n, <<a>>) /\ UNCHANGED <<comm, ptr>>
    BY <1>4 DEF Job
  <2>2. UNCHANGED <<inside, entered, reg, comm, ptr, args, argv>> /\ TypesOK' /\ Instead(n, <<a>>)
    BY <1>1, <1>2, <2>1 DEF Goes, StartupInv, TypesOK
  <2>3. ItemOK(a) /\ a.do = "split"
    BY DEF SplitItem, ItemOK, Splitting, Names
  <2> HIDE DEF a
  <2>4. FreshOK(<<a>>)
    BY <2>3, FreshOne DEF Early, Late
  <2>5. \A i \in 1 .. Len(<<a>>) : <<a>>[i].do \notin {"count", "colors", "made"}
    BY <2>3
  <2> QED  BY <1>1, <2>2, <2>4, <2>5, Plain_Inv
<1> QED  BY <1>3, <1>4

\* One call of QMP that is no splitting takes the place of another.
LEMMA Call_Inv ==
  ASSUME StartupInv, NEW n \in Node, NEW kind, IsAt(n, kind), kind # "mpi",
         NEW a, ItemOK(a), a.do \notin Early \cup Late, Instead(n, <<a>>),
         UNCHANGED <<inside, entered, reg, comm, ptr, args, argv>>, TypesOK'
  PROVE  StartupInv'
<1>1. FreshOK(<<a>>)
  BY FreshOne
<1>2. \A i \in 1 .. Len(<<a>>) : <<a>>[i].do \notin {"count", "colors", "made"}
  BY DEF Late
<1> QED  BY <1>1, <1>2, Plain_Inv

\* Two calls, the second of which needs no result of the first, do.
LEMMA TwoCalls_Inv ==
  ASSUME StartupInv, NEW n \in Node, NEW kind, IsAt(n, kind), kind # "mpi",
         NEW a, ItemOK(a), a.do \notin Early \cup Late,
         NEW b, ItemOK(b), b.do \notin Early \cup Late, Instead(n, <<a, b>>),
         UNCHANGED <<inside, entered, reg, comm, ptr, args, argv>>, TypesOK'
  PROVE  StartupInv'
<1>1. FreshOK(<<a, b>>)
  BY FreshTwo
<1>2. \A i \in 1 .. Len(<<a, b>>) : <<a, b>>[i].do \notin {"count", "colors", "made"}
  BY DEF Late
<1> QED  BY <1>1, <1>2, Plain_Inv

LEMMA DeclareOK ==
  ASSUME NEW o \in Names, NEW dims, NEW ndim, NEW map, NEW nmap
  PROVE  LET a == DeclareItem(o, dims, ndim, map, nmap)
         IN ItemOK(a) /\ a.do = "declare" /\ a.do \notin Early \cup Late
  BY DEF DeclareItem, ItemOK, Splitting, Early, Late

LEMMA Geometry_Inv ==
  ASSUME StartupInv, NEW n \in Node, Geometry(n)
  PROVE  StartupInv'
<1>1. IsAt(n, "geometry")
      /\ UNCHANGED <<inside, entered, reg, comm, ptr, args, argv>> /\ TypesOK'
  BY DEF Geometry, Goes, startVars, StartupInv, TypesOK
<1>2. Instead(n, <<>>) \/ \E dims, ndim, map, nmap :
                            Instead(n, <<DeclareItem("job", dims, ndim, map, nmap)>>)
  <2> DEFINE q == args[n]
             ad == Dimensions(n, "alloc")
             dims == [i \in 1 .. q.njobdim |-> ad[i] \div q.jobgeom[i]]
  <2>1. \/ Instead(n, <<>>)
        \/ Instead(n, <<DeclareItem("job", dims, q.njobdim, q.amap, q.amaplen)>>)
    BY DEF Geometry, Goes
  <2> HIDE DEF dims, q
  <2> QED  BY <2>1
<1>3. CASE Instead(n, <<>>)
  BY <1>1, <1>3, Off_Inv
<1>4. ASSUME NEW dims, NEW ndim, NEW map, NEW nmap,
             Instead(n, <<DeclareItem("job", dims, ndim, map, nmap)>>)
      PROVE  StartupInv'
  BY <1>1, <1>4, DeclareOK, Call_Inv DEF Names
<1> QED  BY <1>2, <1>3, <1>4

LEMMA Declare_Inv ==
  ASSUME StartupInv, NEW n \in Node, Declare(n)
  PROVE  StartupInv'
<1> DEFINE it == Todo(n)
           a == Barrier("def")
           b == [it EXCEPT !.do = "settopo"]
<1>1. IsAt(n, "declare") /\ Instead(n, <<a, b>>)
      /\ UNCHANGED <<inside, entered, reg, comm, ptr, args, argv>> /\ TypesOK'
  BY DEF Declare, Goes, startVars, StartupInv, TypesOK
<1>2. ItemOK(it) /\ it.do = "declare"
  BY <1>1, HeadOK
<1>3. ItemOK(a) /\ a.do \notin Early \cup Late
  BY CallMpi DEF Barrier, Names
<1>4. ItemOK(b) /\ b.do \notin Early \cup Late
  BY <1>2 DEF ItemOK, Splitting, Early, Late
<1> HIDE DEF a, b
<1> QED  BY <1>1, <1>3, <1>4, TwoCalls_Inv

LEMMA DeclareLogical_Inv ==
  ASSUME StartupInv, NEW n \in Node, DeclareLogical(n)
  PROVE  StartupInv'
<1> DEFINE it == Todo(n)
           a == DeclareItem("def", it.dims, it.ndim, args[n].lmap, args[n].lmaplen)
<1>1. IsAt(n, "declare_logical") /\ Instead(n, <<a>>)
      /\ UNCHANGED <<inside, entered, reg, comm, ptr, args, argv>> /\ TypesOK'
  BY DEF DeclareLogical, Goes, startVars, StartupInv, TypesOK
<1>2. ItemOK(a) /\ a.do \notin Early \cup Late
  BY DeclareOK DEF Names
<1> HIDE DEF a
<1> QED  BY <1>1, <1>2, Call_Inv

\* Items of no further meaning here.
LEMMA PlainItem ==
  ASSUME NEW a, "do" \in DOMAIN a, a.do \in {"declare_logical", "subgrid", "search", "neighbours"}
  PROVE  ItemOK(a) /\ a.do \notin Early \cup Late
  BY DEF ItemOK, Splitting, Early, Late

LEMMA LayoutGrid_Inv ==
  ASSUME StartupInv, NEW n \in Node, LayoutGrid(n)
  PROVE  StartupInv'
<1> DEFINE it == Todo(n)
           a == [do |-> "declare_logical", dims |-> Dimensions(n, "job"),
                 ndim |-> NumberOfDimensions(n, "job")]
           b == [it EXCEPT !.do = "search"]
<1>1. IsAt(n, "layout") /\ (Instead(n, <<b>>) \/ Instead(n, <<a, b>>))
      /\ UNCHANGED <<inside, entered, reg, comm, ptr, args, argv>> /\ TypesOK'
  BY DEF LayoutGrid, Goes, startVars, StartupInv, TypesOK
<1>2. "do" \in DOMAIN it
  BY <1>1, HeadOK
<1>3. ItemOK(b) /\ b.do \notin Early \cup Late
  <2>1. "do" \in DOMAIN b /\ b.do = "search"
    BY <1>2
  <2> QED  BY <2>1, PlainItem
<1>4. ItemOK(a) /\ a.do \notin Early \cup Late
  BY PlainItem
<1> HIDE DEF a, b
<1>5. CASE Instead(n, <<b>>)
  BY <1>1, <1>3, <1>5, Call_Inv
<1>6. CASE Instead(n, <<a, b>>)
  BY <1>1, <1>3, <1>4, <1>6, TwoCalls_Inv
<1> QED  BY <1>1, <1>5, <1>6

LEMMA Search_Inv ==
  ASSUME StartupInv, NEW n \in Node, Search(n)
  PROVE  StartupInv'
<1> DEFINE it == Todo(n)
           nsq == Layout(it.dims, Struct(n, "def").num_nodes)
           a == [do |-> "declare_logical", dims |-> nsq, ndim |-> Len(nsq)]
           b == [do |-> "subgrid", dims |-> it.dims, nsq |-> nsq]
<1>1. IsAt(n, "search") /\ (Instead(n, <<>>) \/ Instead(n, <<a, b>>))
      /\ UNCHANGED <<inside, entered, reg, comm, ptr, args, argv>>
  BY DEF Search, Goes
<1>2. TypesOK'
  <2>1. UNCHANGED <<scenario, opInited, aborted, ictype, ptr>>
        /\ (status' = status \/ status' = [status EXCEPT ![n] = "error"])
    BY DEF Search, Goes
  <2> QED  BY <2>1 DEF StartupInv, TypesOK
<1>3. ItemOK(a) /\ a.do \notin Early \cup Late
  <2> HIDE DEF nsq
  <2> QED  BY PlainItem
<1>4. ItemOK(b) /\ b.do \notin Early \cup Late
  <2> HIDE DEF nsq
  <2> QED  BY PlainItem
<1> HIDE DEF a, b
<1>5. CASE Instead(n, <<>>)
  BY <1>1, <1>2, <1>5, Off_Inv
<1>6. CASE Instead(n, <<a, b>>)
  BY <1>1, <1>2, <1>3, <1>4, <1>6, TwoCalls_Inv
<1> QED  BY <1>1, <1>5, <1>6

LEMMA UseDeclared_Inv ==
  ASSUME StartupInv, NEW n \in Node, UseDeclared(n)
  PROVE  StartupInv'
<1> DEFINE dims == Todo(n).dims
           ld  == Dimensions(n, "def")
           nsq == [i \in DOMAIN dims |-> IF i <= Len(ld) THEN ld[i] ELSE 1]
           a == [do |-> "subgrid", dims |-> dims, nsq |-> nsq]
<1>1. IsAt(n, "search") /\ (Instead(n, <<>>) \/ Instead(n, <<a>>))
      /\ UNCHANGED <<inside, entered, reg, comm, ptr, args, argv>>
  BY DEF UseDeclared, Goes
<1>2. TypesOK'
  <2>1. UNCHANGED <<scenario, opInited, aborted, ictype, ptr>>
        /\ \E v \in {"success", "error"} : status' = [status EXCEPT ![n] = v]
    BY DEF UseDeclared, Goes
  <2> QED  BY <2>1 DEF StartupInv, TypesOK
<1>3. ItemOK(a) /\ a.do \notin Early \cup Late
  <2> HIDE DEF nsq
  <2> QED  BY PlainItem
<1> HIDE DEF a
<1>4. CASE Instead(n, <<>>)
  BY <1>1, <1>2, <1>4, Off_Inv
<1>5. CASE Instead(n, <<a>>)
  BY <1>1, <1>2, <1>3, <1>5, Call_Inv
<1> QED  BY <1>1, <1>4, <1>5

LEMMA SetSubgrid_Inv ==
  ASSUME StartupInv, NEW n \in Node, SetSubgrid(n)
  PROVE  StartupInv'
<1>1. IsAt(n, "subgrid") /\ Instead(n, <<>>)
      /\ UNCHANGED <<inside, entered, reg, comm, ptr, args, argv>> /\ TypesOK'
  BY DEF SetSubgrid, Goes, StartupInv, TypesOK
<1> QED  BY <1>1, Off_Inv

LEMMA Count_Inv ==
  ASSUME StartupInv, NEW n \in Node, Count(n)
  PROVE  StartupInv'
<1> DEFINE it == Todo(n)
           cmax == 1 + reg[n].data[1]
           arg == [i \in 1 .. cmax |-> IF i - 1 = it.color THEN 1 ELSE 0]
           a == Mpi(it.comm, "sum", "double", arg)
           b == [it EXCEPT !.do = "colors"]
<1>1. IsAt(n, "count") /\ UNCHANGED startVars
  BY DEF Count
<1>2. CASE Abort
  BY <1>1, <1>2, Same_Inv DEF Abort, collVars, startVars, StartupInv, TypesOK
<1>3. CASE ~Abort
  <2>1. Instead(n, <<a, b>>)
        /\ UNCHANGED <<inside, entered, reg, comm, ptr, args, argv>> /\ TypesOK'
    BY <1>1, <1>3 DEF Count, Goes, startVars, StartupInv, TypesOK
  <2>2. ItemOK(it) /\ it.do = "count" /\ ResultsOK(n, agenda[n], reg[n], comm[n])
        /\ Len(agenda[n]) \in Nat \ {0}
    BY <1>1, HeadOK
  <2>3. it.comm \in Names
    BY <2>2 DEF ItemOK, Splitting
  <2>4. ItemOK(a) /\ a.do = "mpi" /\ a.do \notin Early \cup Late
    <3> HIDE DEF it, arg
    <3> QED  BY <2>3, CallMpi
  <2>5. ItemOK(b) /\ b.do = "colors" /\ b.into = it.into
    BY <2>2 DEF ItemOK, Splitting
  <2>6. Incomplete(comm[n][ObjectOf(it.into)])
    BY <2>2 DEF ResultsOK, Todo
  <2> HIDE DEF a, b
  <2>7. FreshOK(<<a, b>>)
    BY <2>4, <2>5, FreshTwo DEF Early, Late, Behind
  <2>8. \A i \in 1 .. Len(<<a, b>>) : <<a, b>>[i].do \in {"count", "colors", "made"} =>
                                        Incomplete(comm[n][ObjectOf(<<a, b>>[i].into)])
    <3>1. ASSUME NEW i \in 1 .. 2 PROVE i = 1 \/ i = 2
      OBVIOUS
    <3>2. Len(<<a, b>>) = 2 /\ <<a, b>>[1] = a /\ <<a, b>>[2] = b
      OBVIOUS
    <3>3. Incomplete(comm[n][ObjectOf(b.into)])
      BY <2>5, <2>6
    <3> QED  BY <2>4, <3>1, <3>2, <3>3
  <2> QED  BY <1>1, <2>1, <2>7, <2>8, Plain_Inv
<1> QED  BY <1>2, <1>3

-----------------------------------------------------------------------------
(* The steps that change a communicator.                                   *)

\* A step that puts the struct s in the place of the communicator o.
LEMMA Comm_Inv ==
  ASSUME StartupInv, NEW n \in Node, NEW kind, IsAt(n, kind), kind # "mpi",
         NEW items, FreshOK(items), Instead(n, items), UNCHANGED <<inside, entered, reg, args, argv>>,
         TypesOK', NEW o, NEW s, SetComm(n, o, s), o \in Objects => StructOK(n, o, s),
         o = "A" => Fields \subseteq DOMAIN s /\ s.nodeid = n /\ n \in 0 .. s.num_nodes - 1,
         ptr' = ptr \/ \E x \in {"job", "def"}, y \in Objects : ptr' = [ptr EXCEPT ![n][x] = y],
         \A i \in 1 .. Len(items) : items[i].do \in {"count", "colors", "made"} =>
                                      Incomplete(s) /\ ObjectOf(items[i].into) = o
  PROVE  StartupInv'
<1> DEFINE cm == comm[n]
           new == [cm EXCEPT ![o] = s]
<1>1. /\ CommsOK(n, cm, ptr[n])
      /\ Fields \subseteq DOMAIN cm["A"] /\ cm["A"].nodeid = n /\ n \in 0 .. cm["A"].num_nodes - 1
  BY HeadOK
<1>2. comm'[n] = new /\ ChangedAt(n, comm, comm')
  BY DEF SetComm, StartupInv, ShapeOK, ChangedAt
<1>3. /\ CommsOK(n, new, ptr[n])
      /\ \A p \in Objects \ {o} : new[p] = cm[p]
      /\ o \in Objects => new[o] = s
  <2>1. DOMAIN new = Objects /\ \A p \in Objects : new[p] = IF p = o THEN s ELSE cm[p]
    BY <1>1 DEF CommsOK
  <2> HIDE DEF cm, new
  <2>2. CommsOK(n, new, ptr[n])
    BY <1>1, <2>1 DEF CommsOK
  <2> QED  BY <2>1, <2>2
<1>4. /\ ChangedAt(n, ptr, ptr') /\ ChangedAt(n, args, args') /\ ChangedAt(n, argv, argv')
      /\ ptr'[n] \in [{"alloc", "job", "def"} -> Objects] /\ ptr'[n]["alloc"] = "A"
  <2>1. ptr[n] \in [{"alloc", "job", "def"} -> Objects] /\ ptr[n]["alloc"] = "A"
    BY <1>1 DEF CommsOK
  <2>2. ChangedAt(n, args, args') /\ ChangedAt(n, argv, argv')
    BY DEF StartupInv, ShapeOK, ChangedAt
  <2>3. CASE ptr' = ptr
    BY <2>1, <2>2, <2>3 DEF StartupInv, ShapeOK, ChangedAt
  <2>4. ASSUME NEW x \in {"job", "def"}, NEW y \in Objects, ptr' = [ptr EXCEPT ![n][x] = y]
        PROVE  /\ ChangedAt(n, ptr, ptr')
               /\ ptr'[n] \in [{"alloc", "job", "def"} -> Objects] /\ ptr'[n]["alloc"] = "A"
    BY <2>1, <2>4 DEF StartupInv, ShapeOK, ChangedAt
  <2> QED  BY <2>2, <2>3, <2>4
<1> HIDE DEF new
<1>5. CommsOK(n, comm'[n], ptr'[n])
  BY <1>2, <1>3, <1>4 DEF CommsOK
<1>6. /\ Fields \subseteq DOMAIN comm'[n]["A"] /\ comm'[n]["A"].nodeid = n
      /\ n \in 0 .. comm'[n]["A"].num_nodes - 1
  <2>1. CASE o = "A"
    BY <1>2, <1>3, <2>1 DEF Objects
  <2>2. CASE o # "A"
    <3>1. new["A"] = comm[n]["A"]
      BY <1>3, <2>2 DEF Objects
    <3> QED  BY <1>1, <1>2, <3>1
  <2> QED  BY <2>1, <2>2
<1>7. \A i \in 1 .. Len(items) : items[i].do \in {"count", "colors", "made"} =>
                                  Incomplete(comm'[n][ObjectOf(items[i].into)])
  <2>1. \A x : ObjectOf(x) \in Objects
    BY DEF ObjectOf, Objects
  <2> QED  BY <1>2, <1>3, <2>1
<1>8. args'[n] # None => args[n] # None \/ kind = "parse"
  OBVIOUS
<1>9. UNCHANGED <<inside, entered, reg>>
  OBVIOUS
<1> QED  BY <1>2, <1>4, <1>5, <1>6, <1>7, <1>8, <1>9, Goes_Inv

\* The struct of a communicator with another topology is as good.
LEMMA SameStruct ==
  ASSUME NEW n, NEW o, NEW s, s # None, StructOK(n, o, s), NEW t, NEW u, u = [s EXCEPT !.topo = t]
  PROVE  /\ StructOK(n, o, u) /\ u.nodeid = s.nodeid /\ u.num_nodes = s.num_nodes
         /\ Fields \subseteq DOMAIN u
<1>1. Fields \subseteq DOMAIN s
  BY DEF StructOK
<1>2. /\ DOMAIN u = DOMAIN s /\ u.mpicomm = s.mpicomm /\ u.nodeid = s.nodeid
      /\ u.num_nodes = s.num_nodes
  BY <1>1 DEF Fields
<1> QED  BY <1>1, <1>2 DEF StructOK

LEMMA Split_Inv ==
  ASSUME StartupInv, NEW n \in Node, Split(n)
  PROVE  StartupInv'
<1> DEFINE it == Todo(n)
           o == ObjectOf(it.into)
           s == [Blank EXCEPT !.color = it.color, !.key = it.key]
           p == Object(n, it.comm)
           a == Mpi(p, "max", "double", <<it.color>>)
           b == [it EXCEPT !.do = "count", !.comm = p]
<1>1. IsAt(n, "split") /\ SetComm(n, o, s) /\ Instead(n, <<a, b>>)
      /\ UNCHANGED <<inside, entered, reg, args, argv>>
      /\ UNCHANGED <<scenario, opInited, aborted, ictype, status>>
  BY DEF Split, Goes, startVars
<1>2. ItemOK(it) /\ it.do = "split" /\ CommsOK(n, comm[n], ptr[n])
  BY <1>1, HeadOK
<1>3. it.comm \in Names /\ {"do", "comm", "into", "key"} \subseteq DOMAIN it
      /\ it.into \in {"job", "def", "sub"} /\ it.key \in Int
  BY <1>2 DEF ItemOK, Splitting
<1>4. p \in Names
  BY <1>2, <1>3 DEF Object, CommsOK, Names
<1>5. ItemOK(a) /\ a.do = "mpi" /\ a.do \notin Early \cup Late
  <2> HIDE DEF p, it
  <2> QED  BY <1>4, CallMpi
<1>6. ItemOK(b) /\ b.do = "count" /\ b.into = it.into
  <2> HIDE DEF p, it
  <2>1. b.do = "count" /\ b.comm = p /\ b.into = it.into /\ b.key = it.key /\ DOMAIN b = DOMAIN it
    BY <1>3
  <2> QED  BY <1>3, <1>4, <2>1 DEF ItemOK, Splitting
<1>7. StructOK(n, o, s) /\ Incomplete(s) /\ o \in Objects /\ o # "A"
  BY DEF StructOK, Blank, Incomplete, Fields, ObjectOf, Objects
<1>8. ptr' = ptr \/ \E x \in {"job", "def"}, y \in Objects : ptr' = [ptr EXCEPT ![n][x] = y]
  <2>1. CASE it.into = "sub"
    BY <2>1 DEF Split
  <2>2. CASE it.into # "sub"
    <3>1. ptr' = [ptr EXCEPT ![n][it.into] = o] /\ it.into \in {"job", "def"}
      BY <1>3, <2>2 DEF Split
    <3> QED  BY <1>7, <3>1
  <2> QED  BY <2>1, <2>2
<1> HIDE DEF a, b, o, s
<1>11. TypesOK'
  <2>1. ptr \in [Node -> [{"alloc", "job", "def"} -> Objects]]
    BY DEF StartupInv, TypesOK
  <2>2. ptr' \in [Node -> [{"alloc", "job", "def"} -> Objects]]
    BY <1>8, <2>1
  <2> QED  BY <1>1, <2>2 DEF StartupInv, TypesOK
<1>9. FreshOK(<<a, b>>)
  BY <1>5, <1>6, FreshTwo DEF Early, Late, Behind
<1>10. \A i \in 1 .. Len(<<a, b>>) : <<a, b>>[i].do \in {"count", "colors", "made"} =>
                                      Incomplete(s) /\ ObjectOf(<<a, b>>[i].into) = o
  <2>1. ASSUME NEW i \in 1 .. 2 PROVE i = 1 \/ i = 2
    OBVIOUS
  <2>2. Len(<<a, b>>) = 2 /\ <<a, b>>[1] = a /\ <<a, b>>[2] = b
    OBVIOUS
  <2>3. ObjectOf(b.into) = o
    BY <1>6 DEF o
  <2> QED  BY <1>5, <1>7, <2>1, <2>2, <2>3
<1> QED  BY <1>1, <1>7, <1>8, <1>9, <1>10, <1>11, Comm_Inv

LEMMA Colors_Inv ==
  ASSUME StartupInv, NEW n \in Node, Colors(n)
  PROVE  StartupInv'
<1> DEFINE it == Todo(n)
           o == ObjectOf(it.into)
           c == comm[n][o]
           s == [c EXCEPT !.ncolors = Distinct(reg[n].data)]
           arg == [color |-> it.color, key |-> it.key]
           a == Mpi(it.comm, "split", None, arg)
           b == [it EXCEPT !.do = "made"]
<1>1. IsAt(n, "colors") /\ UNCHANGED startVars
  BY DEF Colors
<1>2. CASE Abort
  BY <1>1, <1>2, Same_Inv DEF Abort, collVars, startVars, StartupInv, TypesOK
<1>3. CASE ~Abort
  <2>1. /\ comm' = [comm EXCEPT ![n][o].ncolors = Distinct(reg[n].data)] /\ Instead(n, <<a, b>>)
        /\ UNCHANGED <<inside, entered, reg, args, argv>> /\ TypesOK' /\ ptr' = ptr
    BY <1>1, <1>3 DEF Colors, Goes, startVars, StartupInv, TypesOK
  <2>2. SetComm(n, o, s)
    BY <2>1 DEF SetComm
  <2>3. /\ ItemOK(it) /\ it.do = "colors" /\ ResultsOK(n, agenda[n], reg[n], comm[n])
        /\ Len(agenda[n]) \in Nat \ {0}
    BY <1>1, HeadOK
  <2>4. it.comm \in Names /\ it.key \in Int /\ it.into \in {"job", "def", "sub"}
    BY <2>3 DEF ItemOK, Splitting
  <2>5. ItemOK(a) /\ a.do = "mpi" /\ a.op = "split" /\ a.do \notin Early \cup Late
    <3>1. arg.key \in Int
      BY <2>4
    <3> HIDE DEF it, arg
    <3> QED  BY <2>4, <3>1, CallMpi
  <2>6. ItemOK(b) /\ b.do = "made" /\ b.into = it.into
    BY <2>3 DEF ItemOK, Splitting
  <2>7. Incomplete(c) /\ o \in Objects /\ o # "A"
    BY <2>3 DEF ResultsOK, Todo, ObjectOf, Objects
  <2>8. Incomplete(s) /\ StructOK(n, o, s)
    <3> HIDE DEF c, o
    <3> QED  BY <2>7 DEF Incomplete, StructOK, Fields
  <2> HIDE DEF a, b, o, s, c
  <2>9. FreshOK(<<a, b>>)
    BY <2>5, <2>6, FreshTwo DEF Early, Late, Behind
  <2>10. \A i \in 1 .. Len(<<a, b>>) : <<a, b>>[i].do \in {"count", "colors", "made"} =>
                                        Incomplete(s) /\ ObjectOf(<<a, b>>[i].into) = o
    <3>1. ASSUME NEW i \in 1 .. 2 PROVE i = 1 \/ i = 2
      OBVIOUS
    <3>2. Len(<<a, b>>) = 2 /\ <<a, b>>[1] = a /\ <<a, b>>[2] = b
      OBVIOUS
    <3>3. ObjectOf(b.into) = o
      BY <2>6 DEF o
    <3> QED  BY <2>5, <2>8, <3>1, <3>2, <3>3
  <2> QED  BY <1>1, <2>1, <2>2, <2>7, <2>8, <2>9, <2>10, Comm_Inv
<1> QED  BY <1>2, <1>3

\* A step that takes an item off and puts the struct s in the place of a communicator.
LEMMA CommOff_Inv ==
  ASSUME StartupInv, NEW n \in Node, NEW kind, IsAt(n, kind), kind # "mpi", Instead(n, <<>>),
         UNCHANGED <<inside, entered, reg, args, argv, ptr>>, TypesOK',
         NEW o, NEW s, SetComm(n, o, s), o \in Objects => StructOK(n, o, s),
         o = "A" => Fields \subseteq DOMAIN s /\ s.nodeid = n /\ n \in 0 .. s.num_nodes - 1
  PROVE  StartupInv'
<1>1. \A i \in 1 .. Len(<<>>) : <<>>[i].do \in {"count", "colors", "made"} =>
                                 Incomplete(s) /\ ObjectOf(<<>>[i].into) = o
  OBVIOUS
<1>2. UNCHANGED <<inside, entered, reg, args, argv>> /\ ptr' = ptr
  OBVIOUS
<1> QED  BY <1>1, <1>2, FreshNone, Comm_Inv

LEMMA Made_Inv ==
  ASSUME StartupInv, NEW n \in Node, Made(n)
  PROVE  StartupInv'
<1> DEFINE o == ObjectOf(Todo(n).into)
           new == reg[n].comm
           c == comm[n][o]
           s == Completed(n, c, new)
<1>1. IsAt(n, "made") /\ SetComm(n, o, s) /\ Instead(n, <<>>)
      /\ UNCHANGED <<inside, entered, reg, args, argv, ptr>> /\ TypesOK'
  BY DEF Made, Goes, startVars, StartupInv, TypesOK
<1>2. /\ ResultsOK(n, agenda[n], reg[n], comm[n]) /\ Todo(n).do = "made"
      /\ agenda[n] # <<>> /\ Len(agenda[n]) \in Nat \ {0}
  BY <1>1, HeadOK
<1>3. Good(n, new) /\ Incomplete(c)
  BY <1>2 DEF ResultsOK, Todo
<1>4. o # "A"
  BY DEF ObjectOf
<1> HIDE DEF c, new, o
<1>5. /\ DOMAIN s = DOMAIN c /\ s.mpicomm = new /\ s.num_nodes = Len(new.group)
      /\ s.nodeid = RankIn(n, new)
  BY <1>3 DEF Completed, Incomplete, Fields
<1>6. s.nodeid \in 0 .. s.num_nodes - 1
  BY <1>3, <1>5, RanksDiffer DEF Good
<1> HIDE DEF s
<1>7. StructOK(n, o, s)
  BY <1>3, <1>5, <1>6 DEF StructOK, Incomplete
<1> QED  BY <1>1, <1>4, <1>7, CommOff_Inv

LEMMA FreeComm_Inv ==
  ASSUME StartupInv, NEW n \in Node, FreeComm(n)
  PROVE  StartupInv'
<1>1. IsAt(n, "freecomm") /\ SetComm(n, "S", None) /\ Instead(n, <<>>)
      /\ UNCHANGED <<inside, entered, reg, args, argv, ptr>> /\ TypesOK'
  BY DEF FreeComm, Goes, startVars, StartupInv, TypesOK
<1>2. StructOK(n, "S", None)
  BY DEF StructOK
<1> QED  BY <1>1, <1>2, CommOff_Inv

LEMMA SetTopo_Inv ==
  ASSUME StartupInv, NEW n \in Node, SetTopo(n)
  PROVE  StartupInv'
<1> DEFINE it == Todo(n)
           o == Object(n, it.comm)
           c == comm[n][o]
           t == [dims |-> Leading(it.dims, it.ndim), map |-> Leading(it.map, it.nmap),
                 coord |-> None, neigh |-> None]
           s == [c EXCEPT !.topo = t]
           a == Barrier("def")
           b == [do |-> "neighbours", comm |-> it.comm]
<1>1. IsAt(n, "settopo") /\ c # None
  BY DEF SetTopo, Usable, Struct
<1>2. /\ CommsOK(n, comm[n], ptr[n]) /\ comm[n]["A"].nodeid = n
      /\ n \in 0 .. comm[n]["A"].num_nodes - 1
  BY <1>1, HeadOK
<1>3. \/ Abort /\ UNCHANGED startVars
      \/ /\ Goes(n, <<>>) /\ UNCHANGED <<comm, ptr, scenario, argv, args, ictype>>
         /\ \E v \in {"success", "invalid"} : status' = [status EXCEPT ![n] = v]
      \/ /\ SetComm(n, o, s) /\ Goes(n, <<a, b, a>>)
         /\ status' = [status EXCEPT ![n] = "success"]
         /\ UNCHANGED <<ptr, scenario, argv, args, ictype>>
  <2>1. CASE ~Accepted(n, it)
    BY <2>1 DEF SetTopo
  <2>2. CASE Accepted(n, it) /\ it.ndim <= 0
    <3>1. /\ Goes(n, <<>>) /\ UNCHANGED <<comm, ptr, scenario, argv, args, ictype>>
          /\ status' = [status EXCEPT ![n] = IF it.ndim = 0 THEN "success" ELSE "invalid"]
      BY <2>2 DEF SetTopo
    <3> QED  BY <3>1
  <2>3. CASE Accepted(n, it) /\ it.ndim > 0 /\ ~Fits(Leading(it.dims, it.ndim), c.num_nodes)
    <3>1. /\ Goes(n, <<>>) /\ UNCHANGED <<comm, ptr, scenario, argv, args, ictype>>
          /\ \E v \in {"success", "invalid"} : status' = [status EXCEPT ![n] = v]
      BY <2>3 DEF SetTopo
    <3> QED  BY <3>1
  <2>4. CASE /\ Accepted(n, it) /\ ~(it.ndim <= 0)
             /\ ~(it.ndim > 0 /\ ~Fits(Leading(it.dims, it.ndim), c.num_nodes))
    BY <2>4 DEF SetTopo
  <2> QED  BY <2>1, <2>2, <2>3, <2>4
<1>4. CASE Abort /\ UNCHANGED startVars
  BY <1>4, Same_Inv DEF Abort, collVars, startVars, StartupInv, TypesOK
<1>5. CASE /\ Goes(n, <<>>) /\ UNCHANGED <<comm, ptr, scenario, argv, args, ictype>>
           /\ \E v \in {"success", "invalid"} : status' = [status EXCEPT ![n] = v]
  <2>1. UNCHANGED <<inside, entered, reg, comm, ptr, args, argv>> /\ TypesOK' /\ Instead(n, <<>>)
    BY <1>5 DEF Goes, StartupInv, TypesOK
  <2> QED  BY <1>1, <2>1, Off_Inv
<1>6. CASE /\ SetComm(n, o, s) /\ Goes(n, <<a, b, a>>)
           /\ status' = [status EXCEPT ![n] = "success"]
           /\ UNCHANGED <<ptr, scenario, argv, args, ictype>>
  <2>1. /\ UNCHANGED <<inside, entered, reg, args, argv>> /\ ptr' = ptr /\ TypesOK'
        /\ Instead(n, <<a, b, a>>)
    BY <1>6 DEF Goes, StartupInv, TypesOK
  <2>2. ItemOK(a) /\ a.do \notin Early \cup Late
    BY CallMpi DEF Barrier, Names
  <2>3. ItemOK(b) /\ b.do \notin Early \cup Late
    BY PlainItem
  <2>4. o \in Objects => StructOK(n, o, s)
    <3> HIDE DEF o, t
    <3>1. o \in Objects => StructOK(n, o, c)
      BY <1>2 DEF CommsOK
    <3> HIDE DEF c
    <3> QED  BY <1>1, <3>1, SameStruct
  <2>5. o = "A" => Fields \subseteq DOMAIN s /\ s.nodeid = n /\ n \in 0 .. s.num_nodes - 1
    <3> HIDE DEF t
    <3> SUFFICES ASSUME o = "A"
                 PROVE  Fields \subseteq DOMAIN s /\ s.nodeid = n /\ n \in 0 .. s.num_nodes - 1
      OBVIOUS
    <3>1. c = comm[n]["A"]
      OBVIOUS
    <3>2. StructOK(n, "A", c)
      BY <1>2, <3>1 DEF CommsOK, Objects
    <3>3. c # None /\ s = [c EXCEPT !.topo = t]
      BY <1>1
    <3> HIDE DEF c, o, s
    <3>4. /\ Fields \subseteq DOMAIN s /\ s.nodeid = c.nodeid /\ s.num_nodes = c.num_nodes
      BY <3>2, <3>3, SameStruct
    <3> QED  BY <1>2, <3>1, <3>4
  <2> HIDE DEF a, b, o, s
  <2>6. FreshOK(<<a, b, a>>)
    BY <2>2, <2>3, FreshThree
  <2>7. \A i \in 1 .. Len(<<a, b, a>>) : <<a, b, a>>[i].do \in {"count", "colors", "made"} =>
                                          Incomplete(s) /\ ObjectOf(<<a, b, a>>[i].into) = o
    <3>1. ASSUME NEW i \in 1 .. 3 PROVE <<a, b, a>>[i] = a \/ <<a, b, a>>[i] = b
      OBVIOUS
    <3>2. Len(<<a, b, a>>) = 3
      OBVIOUS
    <3> QED  BY <2>2, <2>3, <3>1, <3>2 DEF Late
  <2> QED  BY <1>1, <1>6, <2>1, <2>4, <2>5, <2>6, <2>7, Comm_Inv
<1> QED  BY <1>3, <1>4, <1>5, <1>6

LEMMA Neighbours_Inv ==
  ASSUME StartupInv, NEW n \in Node, Neighbours(n)
  PROVE  StartupInv'
<1> DEFINE o == Object(n, Todo(n).comm)
           c == comm[n][o]
           t == c.topo
           x == Coordinates(t, c.nodeid)
           new == [t EXCEPT !.coord = x,
                     !.neigh = [d \in {-1, 1} |-> [i \in DOMAIN t.dims |-> Neighbour(t, x, i, d)]]]
           s == [c EXCEPT !.topo = new]
<1>1. IsAt(n, "neighbours") /\ c # None /\ SetComm(n, o, s) /\ Instead(n, <<>>)
      /\ UNCHANGED <<inside, entered, reg, args, argv, ptr>> /\ TypesOK'
  BY DEF Neighbours, Goes, startVars, StartupInv, TypesOK, Usable, Struct
<1>2. /\ CommsOK(n, comm[n], ptr[n]) /\ comm[n]["A"].nodeid = n
      /\ n \in 0 .. comm[n]["A"].num_nodes - 1
  BY <1>1, HeadOK
<1> HIDE DEF new
<1>3. o \in Objects => StructOK(n, o, s)
  <2> HIDE DEF o
  <2>1. o \in Objects => StructOK(n, o, c)
    BY <1>2 DEF CommsOK
  <2> HIDE DEF c
  <2> QED  BY <1>1, <2>1, SameStruct
<1>4. o = "A" => Fields \subseteq DOMAIN s /\ s.nodeid = n /\ n \in 0 .. s.num_nodes - 1
  <2> SUFFICES ASSUME o = "A"
               PROVE  Fields \subseteq DOMAIN s /\ s.nodeid = n /\ n \in 0 .. s.num_nodes - 1
    OBVIOUS
  <2>1. c = comm[n]["A"]
    OBVIOUS
  <2>2. StructOK(n, "A", c)
    BY <1>2, <2>1 DEF CommsOK, Objects
  <2>3. c # None /\ s = [c EXCEPT !.topo = new]
    BY <1>1
  <2> HIDE DEF c, o, s
  <2>4. /\ Fields \subseteq DOMAIN s /\ s.nodeid = c.nodeid /\ s.num_nodes = c.num_nodes
    BY <2>2, <2>3, SameStruct
  <2> QED  BY <1>2, <2>1, <2>4
<1> HIDE DEF o, s
<1> QED  BY <1>1, <1>3, <1>4, CommOff_Inv

LEMMA SetDefault_Inv ==
  ASSUME StartupInv, NEW n \in Node, SetDefault(n)
  PROVE  StartupInv'
<1>1. IsAt(n, "setdefault") /\ Instead(n, <<>>) /\ ptr' = [ptr EXCEPT ![n].def = Todo(n).to]
      /\ UNCHANGED <<inside, entered, reg, args, argv, comm>>
      /\ UNCHANGED <<scenario, opInited, aborted, ictype, status>>
  BY DEF SetDefault, Goes, startVars
<1>2. /\ ItemOK(Todo(n)) /\ Todo(n).do = "setdefault" /\ CommsOK(n, comm[n], ptr[n])
      /\ Fields \subseteq DOMAIN comm[n]["A"] /\ comm[n]["A"].nodeid = n
      /\ n \in 0 .. comm[n]["A"].num_nodes - 1
  BY <1>1, HeadOK
<1>3. Todo(n).to \in Objects
  BY <1>2 DEF ItemOK
<1>9. TypesOK'
  <2>1. ptr \in [Node -> [{"alloc", "job", "def"} -> Objects]]
    BY DEF StartupInv, TypesOK
  <2>2. ptr' \in [Node -> [{"alloc", "job", "def"} -> Objects]]
    BY <1>1, <1>3, <2>1
  <2> QED  BY <1>1, <2>2 DEF StartupInv, TypesOK
<1>4. /\ ChangedAt(n, comm, comm') /\ ChangedAt(n, ptr, ptr')
      /\ ChangedAt(n, args, args') /\ ChangedAt(n, argv, argv')
      /\ ptr'[n] \in [{"alloc", "job", "def"} -> Objects] /\ ptr'[n]["alloc"] = "A"
  BY <1>1, <1>2, <1>3 DEF StartupInv, ShapeOK, ChangedAt, CommsOK
<1>5. CommsOK(n, comm'[n], ptr'[n])
  BY <1>1, <1>2, <1>4 DEF CommsOK
<1>6. /\ Fields \subseteq DOMAIN comm'[n]["A"] /\ comm'[n]["A"].nodeid = n
      /\ n \in 0 .. comm'[n]["A"].num_nodes - 1
      /\ args'[n] # None => args[n] # None \/ "setdefault" = "parse"
  BY <1>1, <1>2
<1>7. \A i \in 1 .. Len(<<>>) : <<>>[i].do \in {"count", "colors", "made"} =>
                                 Incomplete(comm'[n][ObjectOf(<<>>[i].into)])
  OBVIOUS
<1>8. UNCHANGED <<inside, entered, reg>>
  BY <1>1
<1> QED  BY <1>1, <1>9, <1>4, <1>5, <1>6, <1>7, <1>8, FreshNone, Goes_Inv

-----------------------------------------------------------------------------
(* The steps that read the command line.                                   *)

LEMMA Parse_Inv ==
  ASSUME StartupInv, NEW n \in Node, Parse(n)
  PROVE  StartupInv'
<1>1. IsAt(n, "parse")
  BY DEF Parse
<1>2. \/ Abort /\ UNCHANGED startVars
      \/ \E x, y, dims, ndim, map, nmap :
           /\ argv' = [argv EXCEPT ![n] = x] /\ args' = [args EXCEPT ![n] = y]
           /\ Goes(n, <<DeclareItem("alloc", dims, ndim, map, nmap)>>)
           /\ UNCHANGED <<comm, ptr, scenario, ictype, status, subgrid>>
  <2>1. PICK g, a, l, j :
          IF a.len < 0 \/ l.len < 0
          THEN Abort /\ UNCHANGED startVars
          ELSE /\ argv' = [argv EXCEPT ![n] = j.rest]
               /\ args' = [args EXCEPT ![n] =
                    [geom |-> g.a, geomlen |-> g.len, amap |-> a.a, amaplen |-> a.len,
                     lmap |-> l.a, lmaplen |-> l.len, jobgeom |-> j.a, njobdim |-> j.len]]
               /\ Goes(n, <<DeclareItem("alloc", g.a, g.len, a.a, a.len)>>)
               /\ UNCHANGED <<comm, ptr, scenario, ictype, status, subgrid>>
    BY ZenonT(60) DEF Parse
  <2> QED  BY <2>1
<1>3. CASE Abort /\ UNCHANGED startVars
  BY <1>3, Same_Inv DEF Abort, collVars, startVars, StartupInv, TypesOK
<1>4. ASSUME NEW x, NEW y, NEW dims, NEW ndim, NEW map, NEW nmap,
             argv' = [argv EXCEPT ![n] = x], args' = [args EXCEPT ![n] = y],
             Goes(n, <<DeclareItem("alloc", dims, ndim, map, nmap)>>),
             UNCHANGED <<comm, ptr, scenario, ictype, status, subgrid>>
      PROVE  StartupInv'
  <2> DEFINE a == DeclareItem("alloc", dims, ndim, map, nmap)
  <2>1. Instead(n, <<a>>) /\ UNCHANGED <<inside, entered, reg>> /\ TypesOK'
        /\ comm' = comm /\ ptr' = ptr
    BY <1>4 DEF Goes, StartupInv, TypesOK
  <2>2. ItemOK(a) /\ a.do = "declare"
    BY DeclareOK DEF Names
  <2> HIDE DEF a
  <2>3. FreshOK(<<a>>)
    BY <2>2, FreshOne DEF Early, Late
  <2>4. /\ CommsOK(n, comm[n], ptr[n])
        /\ Fields \subseteq DOMAIN comm[n]["A"] /\ comm[n]["A"].nodeid = n
        /\ n \in 0 .. comm[n]["A"].num_nodes - 1
    BY <1>1, HeadOK
  <2>5. /\ ChangedAt(n, comm, comm') /\ ChangedAt(n, ptr, ptr')
        /\ ChangedAt(n, args, args') /\ ChangedAt(n, argv, argv')
    BY <1>4, <2>1 DEF StartupInv, ShapeOK, ChangedAt
  <2>6. /\ CommsOK(n, comm'[n], ptr'[n])
        /\ Fields \subseteq DOMAIN comm'[n]["A"] /\ comm'[n]["A"].nodeid = n
        /\ n \in 0 .. comm'[n]["A"].num_nodes - 1
    BY <2>1, <2>4, Zenon
  <2>7. \A i \in 1 .. Len(<<a>>) : <<a>>[i].do \in {"count", "colors", "made"} =>
                                    Incomplete(comm'[n][ObjectOf(<<a>>[i].into)])
    BY <2>2
  <2> QED  BY <1>1, <2>1, <2>3, <2>5, <2>6, <2>7, Goes_Inv
<1> QED  BY <1>2, <1>3, <1>4

\* -qmp-nmpi is there: the processes that are left over split off.
LEMMA NodeReduces ==
  ASSUME NEW n, NEW ag, NEW ent, NEW rg, NEW cm, NEW pt, NEW ar, NEW av, NEW av2,
         NodeOK(n, ag, FALSE, ent, rg, cm, pt, ar, av), ag # <<>>, ag[1].do = "nmpi",
         NEW a, ItemOK(a), a.do = "mpi", a.op = "split", NEW b, ItemOK(b), b.do = "reduced"
  PROVE  NodeOK(n, <<a, b>> \o Tail(ag), FALSE, ent, rg, cm, pt, ar, av2)
<1> DEFINE items == <<a, b>>
           new == items \o Tail(ag)
<1>1. /\ AgendaOK(ag) /\ CallsOK(ent) /\ AllocOK(n, ag, cm, ar) /\ ArgsOK(ag, ar, av)
      /\ CommsOK(n, cm, pt)
  BY DEF NodeOK
<1>2. items \in Seq({a, b}) /\ Len(items) = 2 /\ items[1] = a /\ items[2] = b
  OBVIOUS
<1> HIDE DEF items
<1>3. MayCome(items)
  <2>1. IsSequence(items)
    BY <1>2, SequenceIs
  <2>2. \A i \in 1 .. 2 : i = 1 \/ i = 2
    OBVIOUS
  <2> QED  BY <1>2, <2>1, <2>2 DEF MayCome, Behind, Late
<1>4. AgendaOK(new) /\ \A i \in 1 .. Len(new) :
         \/ i \in 1 .. Len(items) /\ new[i] = items[i]
         \/ new[i].do \notin Late /\ \E j \in 2 .. Len(ag) : new[i] = ag[j]
  BY <1>1, <1>3, AgendaReplaced
<1>5. Len(new) \in Nat \ {0} /\ new[1] = a /\ Len(ag) \in Nat \ {0}
  <2>1. IsSequence(ag) /\ IsSequence(items)
    BY <1>1, <1>3 DEF AgendaOK, MayCome
  <2>2. /\ Len(ag) \in Nat \ {0} /\ Len(new) = Len(items) + Len(ag) - 1
        /\ \A i \in 1 .. Len(items) : new[i] = items[i]
    BY <2>1, Replaced
  <2> HIDE DEF new
  <2> QED  BY <1>2, <2>2
<1> HIDE DEF new
<1>6. ar = None
  BY <1>1, <1>5 DEF ArgsOK, Early
<1>7. ResultsOK(n, new, rg, cm)
  <2>1. \A i \in 1 .. 2 : i = 1 \/ i = 2
    OBVIOUS
  <2>2. \A i \in 1 .. Len(new) : new[i].do \notin {"count", "colors", "made"}
    BY <1>2, <1>4, <2>1 DEF Late
  <2> QED  BY <1>5, <2>2 DEF ResultsOK
<1>8. AllocOK(n, new, cm, ar)
  BY <1>1 DEF AllocOK
<1>9. ArgsOK(new, ar, av2)
  BY <1>5, <1>6 DEF ArgsOK
<1> QED  BY <1>1, <1>4, <1>7, <1>8, <1>9 DEF NodeOK, new, items

LEMMA Nmpi_Inv ==
  ASSUME StartupInv, NEW n \in Node, Nmpi(n)
  PROVE  StartupInv'
<1> DEFINE g == GetIntArray(argv[n], "-qmp-nmpi")
<1>1. IsAt(n, "nmpi") /\ UNCHANGED <<comm, ptr, scenario, args, ictype, status, subgrid>>
      /\ argv' = [argv EXCEPT ![n] = g.rest]
      /\ Goes(n, IF g.a = NULL THEN <<>> ELSE ReduceItems(Struct(n, "alloc").nodeid, g.a[1]))
  BY DEF Nmpi
<1>2. /\ CommsOK(n, comm[n], ptr[n]) /\ inside[n] = FALSE
      /\ Fields \subseteq DOMAIN comm[n]["A"] /\ comm[n]["A"].nodeid = n
      /\ n \in 0 .. comm[n]["A"].num_nodes - 1
      /\ agenda[n] # <<>> /\ agenda[n][1].do = "nmpi"
  BY <1>1, HeadOK DEF Todo
<1>3. UNCHANGED <<inside, entered, reg>> /\ TypesOK'
  BY <1>1 DEF Goes, StartupInv, TypesOK
<1>4. /\ ChangedAt(n, comm, comm') /\ ChangedAt(n, ptr, ptr')
      /\ ChangedAt(n, args, args') /\ ChangedAt(n, argv, argv')
      /\ ChangedAt(n, inside, inside') /\ ChangedAt(n, entered, entered') /\ ChangedAt(n, reg, reg')
      /\ inside' \in [Node -> BOOLEAN]
  BY <1>1, <1>3 DEF StartupInv, ShapeOK, ChangedAt
<1>5. CASE g.a = NULL
  <2>1. Instead(n, <<>>)
    BY <1>1, <1>5 DEF Goes
  <2>2. /\ CommsOK(n, comm'[n], ptr'[n])
        /\ Fields \subseteq DOMAIN comm'[n]["A"] /\ comm'[n]["A"].nodeid = n
        /\ n \in 0 .. comm'[n]["A"].num_nodes - 1
        /\ args'[n] # None => args[n] # None \/ "nmpi" = "parse"
    BY <1>1, <1>2, Zenon
  <2>3. \A i \in 1 .. Len(<<>>) : <<>>[i].do \in {"count", "colors", "made"} =>
                                   Incomplete(comm'[n][ObjectOf(<<>>[i].into)])
    OBVIOUS
  <2> QED  BY <1>1, <1>3, <1>4, <2>1, <2>2, <2>3, FreshNone, Goes_Inv
<1>6. CASE g.a # NULL
  <2> DEFINE nodeid == Struct(n, "alloc").nodeid
             k == g.a[1]
             arg == [color |-> IF nodeid < k THEN 0 ELSE 1, key |-> nodeid]
             a == Mpi("alloc", "split", None, arg)
             b == [do |-> "reduced", nmpi |-> k]
  <2>1. Instead(n, <<a, b>>)
    BY <1>1, <1>6 DEF Goes, ReduceItems
  <2>2. NodeOK(n, agenda[n], FALSE, entered[n], reg[n], comm[n], ptr[n], args[n], argv[n])
    BY <1>2, Zenon DEF StartupInv, Holds
  <2>3. k \in Int
    <3>1. IsSequence(argv[n])
      BY <1>2, <2>2 DEF NodeOK, ArgsOK
    <3> QED  BY <1>6, <3>1, GivesNumbers
  <2>4. nodeid \in Int
    <3>1. Object(n, "alloc") = "A"
      BY <1>2 DEF Object, CommsOK
    <3> QED  BY <1>2, <3>1 DEF Struct
  <2>5. ItemOK(a) /\ a.do = "mpi" /\ a.op = "split"
    <3>1. arg.key \in Int /\ "alloc" \in Names
      BY <2>4 DEF Names
    <3> HIDE DEF arg
    <3> QED  BY <3>1, CallMpi
  <2>6. ItemOK(b) /\ b.do = "reduced"
    <3> HIDE DEF k
    <3> QED  BY <2>3 DEF ItemOK, Splitting
  <2> HIDE DEF a, b, k, g
  <2>7. agenda'[n] = <<a, b>> \o Tail(agenda[n]) /\ ChangedAt(n, agenda, agenda')
    BY <2>1 DEF Instead, StartupInv, ShapeOK, ChangedAt
  <2>8. NodeOK(n, <<a, b>> \o Tail(agenda[n]), FALSE, entered[n], reg[n], comm[n], ptr[n], args[n], argv'[n])
    BY <1>2, <2>2, <2>5, <2>6, NodeReduces
  <2>9. /\ inside'[n] = FALSE /\ entered'[n] = entered[n] /\ reg'[n] = reg[n] /\ comm'[n] = comm[n]
        /\ ptr'[n] = ptr[n] /\ args'[n] = args[n]
    BY <1>1, <1>2, <1>3
  <2>10. Holds(n)'
    BY <2>7, <2>8, <2>9, Zenon DEF Holds
  <2> QED  BY <1>3, <1>4, <2>7, <2>10, OneNode
<1> QED  BY <1>5, <1>6

\* The processes that are left over have nothing more to do.
LEMMA Reduced_Inv ==
  ASSUME StartupInv, NEW n \in Node, Reduced(n)
  PROVE  StartupInv'
<1> DEFINE c == Struct(n, "alloc")
           k == Todo(n).nmpi
           s == [c EXCEPT !.mpicomm = reg[n].comm, !.num_nodes = k]
<1>1. IsAt(n, "reduced") /\ SetComm(n, "A", s)
      /\ UNCHANGED <<inside, entered, reg, args, argv, ptr>>
      /\ IF c.nodeid < k THEN Instead(n, <<>>) ELSE agenda' = [agenda EXCEPT ![n] = <<>>]
  BY DEF Reduced, startVars
<1>2. TypesOK'
  BY DEF Reduced, startVars, StartupInv, TypesOK
<1>3. /\ CommsOK(n, comm[n], ptr[n]) /\ inside[n] = FALSE /\ ItemOK(Todo(n))
      /\ ResultsOK(n, agenda[n], reg[n], comm[n])
      /\ Fields \subseteq DOMAIN comm[n]["A"] /\ comm[n]["A"].nodeid = n
      /\ n \in 0 .. comm[n]["A"].num_nodes - 1
      /\ agenda[n] # <<>> /\ Todo(n).do = "reduced" /\ Len(agenda[n]) \in Nat \ {0}
  BY <1>1, HeadOK
<1>4. c = comm[n]["A"]
  BY <1>3 DEF Struct, Object, CommsOK
<1>5. Good(n, reg[n].comm) /\ k \in Int
  BY <1>3 DEF ResultsOK, Todo, ItemOK
<1> HIDE DEF c, k
<1>6. /\ Fields \subseteq DOMAIN s /\ s.nodeid = n /\ s.num_nodes = k /\ s.mpicomm = reg[n].comm
  BY <1>3, <1>4 DEF Fields
<1> HIDE DEF s
<1>7. StructOK(n, "A", s)
  BY <1>5, <1>6 DEF StructOK
<1>8. CASE c.nodeid < k
  <2>1. n \in 0 .. s.num_nodes - 1
    BY <1>3, <1>4, <1>5, <1>6, <1>8
  <2> QED  BY <1>1, <1>2, <1>6, <1>7, <1>8, <2>1, CommOff_Inv
<1>9. CASE ~(c.nodeid < k)
  <2>1. NodeOK(n, agenda[n], FALSE, entered[n], reg[n], comm[n], ptr[n], args[n], argv[n])
    BY <1>3, Zenon DEF StartupInv, Holds
  <2>2. args[n] = None
    BY <1>3, <2>1 DEF NodeOK, ArgsOK, Todo, Early
  <2>3. agenda'[n] = <<>> /\ ChangedAt(n, agenda, agenda')
    BY <1>1, <1>9 DEF StartupInv, ShapeOK, ChangedAt
  <2>4. /\ ChangedAt(n, ptr, ptr') /\ ChangedAt(n, args, args') /\ ChangedAt(n, argv, argv')
        /\ ChangedAt(n, inside, inside') /\ ChangedAt(n, entered, entered') /\ ChangedAt(n, reg, reg')
        /\ inside' \in [Node -> BOOLEAN] /\ ChangedAt(n, comm, comm')
        /\ comm'[n] = [comm[n] EXCEPT !["A"] = s]
    BY <1>1 DEF StartupInv, ShapeOK, ChangedAt, SetComm
  <2> DEFINE new == comm'[n]
  <2>5. DOMAIN new = Objects /\ \A o \in Objects : new[o] = IF o = "A" THEN s ELSE comm[n][o]
    BY <1>3, <2>4 DEF CommsOK
  <2> HIDE DEF new
  <2>6. CommsOK(n, new, ptr[n])
    BY <1>3, <1>7, <2>5 DEF CommsOK
  <2>7. AgendaOK(<<>>)
    BY FreshNone DEF AgendaOK, FreshOK, MayCome
  <2>8. ResultsOK(n, <<>>, reg[n], new)
    BY DEF ResultsOK
  <2>9. AllocOK(n, <<>>, new, args[n])
    BY <1>6, <2>2, <2>5 DEF AllocOK, Objects
  <2>10. ArgsOK(<<>>, args[n], argv[n])
    BY <2>2 DEF ArgsOK
  <2>11. CallsOK(entered[n])
    BY <2>1 DEF NodeOK
  <2>12. NodeOK(n, <<>>, FALSE, entered[n], reg[n], new, ptr[n], args[n], argv[n])
    BY <2>6, <2>7, <2>8, <2>9, <2>10, <2>11 DEF NodeOK
  <2>13. /\ inside'[n] = FALSE /\ entered'[n] = entered[n] /\ reg'[n] = reg[n]
         /\ ptr'[n] = ptr[n] /\ args'[n] = args[n] /\ argv'[n] = argv[n]
    BY <1>1, <1>3
  <2>14. Holds(n)'
    BY <2>3, <2>12, <2>13, Zenon DEF Holds, new
  <2> QED  BY <1>2, <2>3, <2>4, <2>14, OneNode
<1> QED  BY <1>8, <1>9

-----------------------------------------------------------------------------
(* The calls of MPI.                                                       *)

LEMMA Appended ==
  ASSUME NEW s, IsSequence(s), NEW e
  PROVE  /\ IsSequence(Append(s, e)) /\ Len(s) \in Nat /\ Len(Append(s, e)) = Len(s) + 1
         /\ \A i \in 1 .. Len(s) : Append(s, e)[i] = s[i]
         /\ Append(s, e)[Len(s) + 1] = e
<1> DEFINE S == {s[i] : i \in DOMAIN s} \cup {e}
<1>1. s \in Seq(S) /\ e \in S
  BY DEF IsSequence
<1> HIDE DEF S
<1>2. Append(s, e) \in Seq(S)
  BY <1>1
<1>3. IsSequence(Append(s, e))
  BY <1>2, SequenceIs
<1> QED  BY <1>1, <1>3

\* The communicator of the call that node n makes is one of its communicators.
LEMMA OnOwn ==
  ASSUME StartupInv, NEW n \in Node, agenda[n] # <<>>, Todo(n).do = "mpi", Usable(n, Todo(n).comm)
  PROVE  Good(n, Struct(n, Todo(n).comm).mpicomm)
<1>1. AgendaOK(agenda[n]) /\ CommsOK(n, comm[n], ptr[n])
  BY DEF StartupInv, Holds, NodeOK
<1>2. ItemOK(Todo(n))
  <2>1. 1 \in 1 .. Len(agenda[n])
    BY <1>1 DEF AgendaOK, IsSequence
  <2> QED  BY <1>1, <2>1 DEF AgendaOK, Todo
<1>3. Todo(n).comm \in Names
  BY <1>2 DEF ItemOK
<1>4. Object(n, Todo(n).comm) \in Objects
  BY <1>1, <1>3 DEF Object, CommsOK, Names
<1> QED  BY <1>1, <1>4 DEF CommsOK, StructOK, Usable, Struct

\* A node that makes a call is inside it.
LEMMA Inside ==
  ASSUME NEW ag, NEW ent, NEW cm, NEW pt, NEW o, NEW c, NEW calls, ag # <<>>, ag[1].do = "mpi",
         o = IF ag[1].comm \in DOMAIN pt THEN pt[ag[1].comm] ELSE ag[1].comm,
         cm[o] # None, c = cm[o].mpicomm, c # None, c \in DOMAIN ent, calls = ent[c],
         Len(calls) >= 1, calls[Len(calls)].op = ag[1].op
  PROVE  InsideOK(ag, ent, cm, pt)
BY DEF InsideOK

LEMMA Enter_Inv ==
  ASSUME StartupInv, NEW n \in Node, Enter(n), UNCHANGED startVars
  PROVE  StartupInv'
<1> DEFINE it == Todo(n)
           c == Struct(n, it.comm).mpicomm
           call == [op |-> it.op, type |-> it.type, arg |-> it.arg]
           ent == entered[n]
           new == [d \in DOMAIN ent \cup {c} |-> IF d = c THEN Append(OnComm(n, c), call) ELSE ent[d]]
<1>1. IsAt(n, "mpi") /\ Usable(n, it.comm) /\ entered' = [entered EXCEPT ![n] = new]
      /\ inside' = [inside EXCEPT ![n] = TRUE]
      /\ UNCHANGED <<agenda, reg, comm, ptr, args, argv>> /\ TypesOK'
  BY DEF Enter, startVars, StartupInv, TypesOK
<1>2. ItemOK(it) /\ it.do = "mpi" /\ agenda[n] # <<>> /\ inside[n] = FALSE
  BY <1>1, HeadOK
<1>3. NodeOK(n, agenda[n], FALSE, ent, reg[n], comm[n], ptr[n], args[n], argv[n])
  BY <1>2, Zenon DEF StartupInv, Holds
<1>4. CallsOK(ent)
  BY <1>3 DEF NodeOK
<1> DEFINE old == OnComm(n, c)
<1>5. IsSequence(old) /\ \A k \in 1 .. Len(old) : old[k].op = "split" => old[k].arg.key \in Int
  <2>1. CASE c \in DOMAIN ent
    BY <1>4, <2>1 DEF OnComm, CallsOK
  <2>2. CASE c \notin DOMAIN ent
    <3>1. old = <<>>
      BY <2>2 DEF OnComm
    <3> QED  BY <3>1, FreshNone DEF FreshOK, MayCome
  <2> QED  BY <2>1, <2>2
<1>6. call.op = "split" => call.arg.key \in Int
  BY <1>2 DEF ItemOK
<1> HIDE DEF old, call
<1> DEFINE u == Append(old, call)
<1>7. /\ IsSequence(u) /\ Len(old) \in Nat /\ Len(u) = Len(old) + 1
      /\ \A i \in 1 .. Len(old) : u[i] = old[i]
      /\ u[Len(old) + 1] = call
  BY <1>5, Appended
<1>8. DOMAIN new = DOMAIN ent \cup {c} /\ \A d \in DOMAIN new : new[d] = IF d = c THEN u ELSE ent[d]
  BY DEF old
<1> HIDE DEF new, u, c, ent
<1>9. CallsOK(new)
  <2> SUFFICES ASSUME NEW d \in DOMAIN new
               PROVE  /\ IsSequence(new[d])
                      /\ \A k \in 1 .. Len(new[d]) :
                           new[d][k].op = "split" => new[d][k].arg.key \in Int
    BY DEF CallsOK
  <2>1. CASE d = c
    <3>1. \A k \in 1 .. Len(u) : k \in 1 .. Len(old) \/ k = Len(old) + 1
      BY <1>7
    <3>2. \A k \in 1 .. Len(u) : u[k].op = "split" => u[k].arg.key \in Int
      BY <1>5, <1>6, <1>7, <3>1
    <3> QED  BY <1>7, <1>8, <2>1, <3>2
  <2>2. CASE d # c
    BY <1>4, <1>8, <2>2 DEF CallsOK
  <2> QED  BY <2>1, <2>2
<1>10. InsideOK(agenda[n], new, comm[n], ptr[n])
  <2> DEFINE o == Object(n, it.comm)
  <2>1. comm[n][o] # None /\ comm[n][o].mpicomm # None /\ c = comm[n][o].mpicomm
    BY <1>1 DEF Usable, Struct, c
  <2>2. c \in DOMAIN new /\ new[c] = u /\ Len(u) >= 1 /\ u[Len(u)] = call
    BY <1>7, <1>8
  <2>3. call.op = it.op
    BY DEF call
  <2>4. it = agenda[n][1]
    BY DEF Todo
  <2>5. o = IF it.comm \in DOMAIN ptr[n] THEN ptr[n][it.comm] ELSE it.comm
    BY DEF Object
  <2> DEFINE ag == agenda[n]
             cm == comm[n]
             pt == ptr[n]
  <2>6. /\ ag # <<>> /\ ag[1].do = "mpi" /\ cm[o] # None /\ c = cm[o].mpicomm /\ c # None
        /\ o = IF ag[1].comm \in DOMAIN pt THEN pt[ag[1].comm] ELSE ag[1].comm
        /\ c \in DOMAIN new /\ u = new[c] /\ Len(u) >= 1 /\ u[Len(u)].op = ag[1].op
    BY <1>2, <2>1, <2>2, <2>3, <2>4, <2>5
  <2> HIDE DEF o, it, ag, cm, pt
  <2>7. InsideOK(ag, new, cm, pt)
    BY <2>6, Inside
  <2> QED  BY <2>7 DEF ag, cm, pt
<1>11. NodeOK(n, agenda[n], TRUE, new, reg[n], comm[n], ptr[n], args[n], argv[n])
  BY <1>3, <1>9, <1>10 DEF NodeOK
<1>12. /\ agenda'[n] = agenda[n] /\ reg'[n] = reg[n] /\ comm'[n] = comm[n] /\ ptr'[n] = ptr[n]
       /\ args'[n] = args[n] /\ argv'[n] = argv[n] /\ inside'[n] = TRUE /\ entered'[n] = new
  BY <1>1 DEF StartupInv, ShapeOK
<1>13. Holds(n)'
  BY <1>11, <1>12, Zenon DEF Holds
<1>14. /\ ChangedAt(n, ptr, ptr') /\ ChangedAt(n, args, args') /\ ChangedAt(n, argv, argv')
       /\ ChangedAt(n, inside, inside') /\ ChangedAt(n, entered, entered') /\ ChangedAt(n, reg, reg')
       /\ inside' \in [Node -> BOOLEAN] /\ ChangedAt(n, comm, comm') /\ ChangedAt(n, agenda, agenda')
  BY <1>1 DEF StartupInv, ShapeOK, ChangedAt
<1> QED  BY <1>1, <1>13, <1>14, OneNode

\* The call that a node leaves is gone from its agenda.
LEMMA AgendaLeft ==
  ASSUME NEW ag, AgendaOK(ag), ag # <<>>, ag[1].do = "mpi"
  PROVE  LET new == <<>> \o Tail(ag)
         IN /\ AgendaOK(new) /\ Len(ag) \in Nat \ {0} /\ Len(new) = Len(ag) - 1
            /\ \A i \in 1 .. Len(new) : i + 1 \in 1 .. Len(ag) /\ new[i] = ag[i + 1]
            /\ new # <<>> => /\ 1 \in 1 .. Len(new) /\ new[1].do # "nmpi"
                             /\ new[1].do \in {"made", "reduced"} => ag[1].op = "split"
<1> DEFINE new == <<>> \o Tail(ag)
           M == Len(ag)
<1>1. /\ IsSequence(new) /\ M \in Nat \ {0} /\ Len(new) = M - 1
      /\ \A i \in 1 .. M - 1 : new[i] = ag[i + 1]
  <2> DEFINE e == <<>>
             r == e \o Tail(ag)
  <2>1. IsSequence(e) /\ Len(e) = 0 /\ IsSequence(ag)
    BY FreshNone DEF FreshOK, MayCome, AgendaOK
  <2>2. new = r
    OBVIOUS
  <2> HIDE DEF e, r, new
  <2>3. /\ IsSequence(r) /\ M \in Nat \ {0} /\ Len(r) = Len(e) + M - 1
        /\ \A i \in Len(e) + 1 .. Len(e) + M - 1 : r[i] = ag[i - Len(e) + 1]
    <3>1. IsSequence(e)
      BY <2>1
    <3>2. IsSequence(ag)
      BY <2>1
    <3> QED  BY <3>1, <3>2, Replaced, ZenonT(60) DEF r
  <2> HIDE DEF M
  <2>4. \A i \in 1 .. M - 1 : i \in Len(e) + 1 .. Len(e) + M - 1 /\ i - Len(e) + 1 = i + 1
    BY <2>1, <2>3
  <2>5. Len(r) = M - 1 /\ \A i \in 1 .. M - 1 : r[i] = ag[i + 1]
    <3>1. Len(r) = M - 1
      BY <2>1, <2>3
    <3> QED  BY <2>3, <2>4, <3>1
  <2> QED  BY <2>2, <2>3, <2>5
<1>2. /\ \A j \in 1 .. M : ItemOK(ag[j]) /\ (ag[j].do = "nmpi" => j = 1)
      /\ \A j \in 1 .. M : ag[j].do \in Late => j = 1 \/ (j = 2 /\ Behind(ag[2], ag[1]))
      /\ \A i, j \in 1 .. M : i < j /\ ag[i].do = "parse" => ag[j].do \notin Early
  BY DEF AgendaOK
<1> HIDE DEF new, M
<1>3. \A i \in 1 .. Len(new) : i + 1 \in 1 .. M /\ i + 1 # 1 /\ new[i] = ag[i + 1]
  BY <1>1
<1>4. \A i \in 1 .. Len(new) : ItemOK(new[i]) /\ new[i].do # "nmpi"
  BY <1>2, <1>3
<1>5. \A i \in 1 .. Len(new) : new[i].do \in Late => i = 1
  <2> SUFFICES ASSUME NEW i \in 1 .. Len(new), new[i].do \in Late PROVE i = 1
    OBVIOUS
  <2>1. i + 1 = 2
    BY <1>2, <1>3
  <2> QED  BY <1>1, <2>1
<1>6. ASSUME NEW i \in 1 .. Len(new), NEW j \in 1 .. Len(new), i < j, new[i].do = "parse"
      PROVE  new[j].do \notin Early
  <2>1. i + 1 \in 1 .. M /\ j + 1 \in 1 .. M /\ i + 1 < j + 1 /\ new[i] = ag[i + 1] /\ new[j] = ag[j + 1]
    BY <1>1, <1>3, <1>6
  <2> QED  BY <1>2, <1>6, <2>1
<1>7. AgendaOK(new)
  BY <1>1, <1>4, <1>5, <1>6 DEF AgendaOK
<1>8. new # <<>> => 1 \in 1 .. Len(new)
  BY <1>1 DEF IsSequence
<1>9. ASSUME new # <<>>, new[1].do \in {"made", "reduced"} PROVE ag[1].op = "split"
  <2>1. 2 \in 1 .. M /\ new[1] = ag[2]
    BY <1>3, <1>8, <1>9
  <2>2. Behind(ag[2], ag[1])
    BY <1>2, <1>9, <2>1 DEF Late
  <2> QED  BY <1>9, <2>1, <2>2 DEF Behind
<1> QED  BY <1>1, <1>3, <1>4, <1>7, <1>8, <1>9 DEF new, M

\* Every MPI_Comm_split has a key.
LEMMA KeyKnown ==
  ASSUME StartupInv, NEW m \in Node, NEW c, NEW k \in Nat \ {0}, HasCome(m, c, k),
         CallOf(m, c, k).op = "split"
  PROVE  CallOf(m, c, k).arg.key \in Int
<1>1. NodeOK(m, agenda[m], inside[m], entered[m], reg[m], comm[m], ptr[m], args[m], argv[m])
  BY DEF StartupInv, Holds
<1> DEFINE ent == entered[m]
<1>2. CallsOK(ent)
  BY <1>1 DEF NodeOK
<1>3. CASE c \in DOMAIN ent
  <2> DEFINE s == ent[c]
  <2>1. OnComm(m, c) = s
    BY <1>3 DEF OnComm
  <2>2. IsSequence(s) /\ \A i \in 1 .. Len(s) : s[i].op = "split" => s[i].arg.key \in Int
    BY <1>2, <1>3 DEF CallsOK
  <2>3. Len(s) >= k /\ s[k].op = "split"
    BY <2>1 DEF HasCome, Position, CallOf
  <2> HIDE DEF s
  <2>4. k \in 1 .. Len(s)
    BY <2>2, <2>3 DEF IsSequence
  <2>5. s[k].arg.key \in Int
    BY <2>2, <2>3, <2>4
  <2> QED  BY <2>1, <2>5 DEF CallOf
<1>4. CASE c \notin DOMAIN ent
  <2>1. Len(OnComm(m, c)) = 0
    BY <1>4 DEF OnComm
  <2> QED  BY <2>1 DEF HasCome, Position
<1> QED  BY <1>3, <1>4

\* What a split gives a member when all have come to it.
LEMMA ShareGood ==
  ASSUME StartupInv, NEW n \in Node, NEW c, Good(n, c), NEW k \in Nat \ {0}, NEW v,
         \A m \in Members(c) : HasCome(m, c, k) /\ CallOf(m, c, k).op = "split"
  PROVE  Good(n, Share(n, c, k, v).comm)
<1> DEFINE arg == Args(c, k)
           name == Append(c.name, <<k, CallOf(n, c, k).arg.color>>)
           new == [name |-> name, group |-> SplitGroup(c, arg, arg[n].color)]
<1>1. Members(c) \subseteq Node /\ n \in Members(c)
  BY DEF Good
<1>2. \A m \in Members(c) : arg[m] = CallOf(m, c, k).arg
  BY DEF Args
<1>3. \A m \in Members(c) : arg[m].key \in Int
  BY <1>1, <1>2, KeyKnown
<1>4. Good(n, new)
  <2> HIDE DEF arg, name
  <2> QED  BY <1>3, SplitGood
<1>5. CallOf(n, c, k).op = "split" /\ arg[n] = CallOf(n, c, k).arg
  BY <1>1, <1>2
<1> HIDE DEF arg
<1>6. Share(n, c, k, v).comm = new
  BY <1>5 DEF Share, arg
<1> QED  BY <1>4, <1>6

\* What a node keeps that leaves a call.
LEMMA NodeLeft ==
  ASSUME NEW n, NEW ag, NEW ent, NEW rg, NEW cm, NEW pt, NEW ar, NEW av,
         NodeOK(n, ag, TRUE, ent, rg, cm, pt, ar, av),
         NEW rg2, ag[1].op = "split" => Good(n, rg2.comm)
  PROVE  NodeOK(n, <<>> \o Tail(ag), FALSE, ent, rg2, cm, pt, ar, av)
<1> DEFINE new == <<>> \o Tail(ag)
<1>1. /\ AgendaOK(ag) /\ CallsOK(ent) /\ AllocOK(n, ag, cm, ar) /\ ArgsOK(ag, ar, av)
      /\ CommsOK(n, cm, pt) /\ ResultsOK(n, ag, rg, cm) /\ ag # <<>> /\ ag[1].do = "mpi"
  BY DEF NodeOK, InsideOK
<1>2. /\ AgendaOK(new) /\ Len(ag) \in Nat \ {0} /\ Len(new) = Len(ag) - 1
      /\ \A i \in 1 .. Len(new) : i + 1 \in 1 .. Len(ag) /\ new[i] = ag[i + 1]
      /\ new # <<>> => /\ 1 \in 1 .. Len(new) /\ new[1].do # "nmpi"
                       /\ new[1].do \in {"made", "reduced"} => ag[1].op = "split"
  BY <1>1, AgendaLeft, Zenon
<1> HIDE DEF new
<1>3. ResultsOK(n, new, rg2, cm)
  <2>1. new # <<>> /\ new[1].do \in {"made", "reduced"} => Good(n, rg2.comm)
    BY <1>2
  <2>2. ASSUME NEW i \in 1 .. Len(new), new[i].do \in {"count", "colors", "made"}
        PROVE  Incomplete(cm[ObjectOf(new[i].into)])
    <3>1. i + 1 \in 1 .. Len(ag) /\ new[i] = ag[i + 1]
      BY <1>2
    <3> QED  BY <1>1, <2>2, <3>1 DEF ResultsOK
  <2> QED  BY <2>1, <2>2 DEF ResultsOK
<1>4. AllocOK(n, new, cm, ar)
  BY <1>1 DEF AllocOK
<1>5. ArgsOK(new, ar, av)
  BY <1>1, <1>2 DEF ArgsOK
<1> QED  BY <1>1, <1>2, <1>3, <1>4, <1>5 DEF NodeOK, new

LEMMA Leave_Inv ==
  ASSUME StartupInv, NEW n \in Node, Leave(n), UNCHANGED startVars
  PROVE  StartupInv'
<1> DEFINE ag == agenda[n]
           ent == entered[n]
           cm == comm[n]
           pt == ptr[n]
           o == Object(n, Todo(n).comm)
           c == Struct(n, Todo(n).comm).mpicomm
           k == Position(n, c)
           op == CallOf(n, c, k).op
<1>1. /\ inside[n] /\ agenda' = [agenda EXCEPT ![n] = <<>> \o Tail(@)]
      /\ inside' = [inside EXCEPT ![n] = FALSE]
      /\ UNCHANGED <<entered, comm, ptr, args, argv>> /\ TypesOK'
      /\ \A m \in Needed(n, c, op) : HasCome(m, c, k) /\ CallOf(m, c, k).op = op
  BY DEF Leave, Instead, startVars, StartupInv, TypesOK
<1>2. PICK v : reg' = [reg EXCEPT ![n] = Share(n, c, k, v)]
  BY Zenon DEF Leave
<1>3. NodeOK(n, ag, TRUE, ent, reg[n], cm, pt, args[n], argv[n]) /\ ShapeOK
  <2>1. inside[n] = TRUE
    BY <1>1 DEF StartupInv, ShapeOK
  <2> QED  BY <2>1, Zenon DEF StartupInv, Holds
<1>4. /\ AgendaOK(ag) /\ CommsOK(n, cm, pt) /\ CallsOK(ent)
      /\ ag # <<>> /\ ag[1].do = "mpi" /\ cm[o] # None /\ c # None /\ c = cm[o].mpicomm
      /\ c \in DOMAIN ent /\ Len(ent[c]) >= 1 /\ ent[c][Len(ent[c])].op = ag[1].op
  <2>1. Todo(n).comm = ag[1].comm /\ c = cm[o].mpicomm
        /\ o = IF ag[1].comm \in DOMAIN pt THEN pt[ag[1].comm] ELSE ag[1].comm
    BY DEF Todo, Struct, Object
  <2> HIDE DEF ag, ent, cm, pt, c, o
  <2>2. InsideOK(ag, ent, cm, pt)
    BY <1>3 DEF NodeOK
  <2>3. AgendaOK(ag) /\ CommsOK(n, cm, pt) /\ CallsOK(ent)
    BY <1>3 DEF NodeOK
  <2> QED  BY <2>1, <2>2, <2>3 DEF InsideOK
<1>5. Good(n, c)
  <2>1. Todo(n).do = "mpi" /\ Usable(n, Todo(n).comm) /\ agenda[n] # <<>>
    BY <1>4 DEF Usable, Struct, Todo
  <2> QED  BY <2>1, OnOwn
<1>6. k \in Nat \ {0} /\ op = ag[1].op
  <2>1. OnComm(n, c) = ent[c]
    BY <1>4 DEF OnComm
  <2>2. k = Len(ent[c]) /\ op = ent[c][k].op
    BY <2>1 DEF Position, CallOf
  <2>3. IsSequence(ent[c])
    BY <1>4 DEF CallsOK
  <2> DEFINE e == ent[c]
  <2> HIDE DEF ent, c, k, op, ag
  <2>4. Len(e) \in Nat
    <3> HIDE DEF e
    <3> QED  BY <2>3 DEF IsSequence, e
  <2>5. Len(e) >= 1 /\ e[Len(e)].op = ag[1].op
    BY <1>4
  <2> HIDE DEF e
  <2> QED  BY <2>2, <2>4, <2>5 DEF e
<1>7. ag[1].op = "split" => Good(n, Share(n, c, k, v).comm)
  <2> SUFFICES ASSUME ag[1].op = "split" PROVE Good(n, Share(n, c, k, v).comm)
    OBVIOUS
  <2> HIDE DEF ag, c, k, op
  <2>1. op = "split"
    BY <1>6
  <2>2. Needed(n, c, op) = Members(c)
    BY <2>1 DEF Needed
  <2>3. \A m \in Members(c) : HasCome(m, c, k) /\ CallOf(m, c, k).op = "split"
    BY <1>1, <2>1, <2>2
  <2> QED  BY <1>5, <1>6, <2>3, ShareGood
<1>8. NodeOK(n, <<>> \o Tail(ag), FALSE, ent, Share(n, c, k, v), cm, pt, args[n], argv[n])
  <2> HIDE DEF ag, ent, cm, pt, c, k
  <2> DEFINE share == Share(n, c, k, v)
             rg == reg[n]
             ar == args[n]
             av == argv[n]
  <2>1. ag[1].op = "split" => Good(n, share.comm)
    BY <1>7
  <2>2. NodeOK(n, ag, TRUE, ent, rg, cm, pt, ar, av)
    BY <1>3
  <2> HIDE DEF share, rg, ar, av
  <2>3. NodeOK(n, <<>> \o Tail(ag), FALSE, ent, share, cm, pt, ar, av)
    BY <2>1, <2>2, NodeLeft
  <2> QED  BY <2>3 DEF share, ar, av
<1>9. /\ agenda'[n] = <<>> \o Tail(ag) /\ inside'[n] = FALSE /\ reg'[n] = Share(n, c, k, v)
      /\ entered'[n] = ent /\ comm'[n] = cm /\ ptr'[n] = pt /\ args'[n] = args[n] /\ argv'[n] = argv[n]
  <2> HIDE DEF c, k
  <2> QED  BY <1>1, <1>2, <1>3 DEF ShapeOK
<1>10. /\ ChangedAt(n, ptr, ptr') /\ ChangedAt(n, args, args') /\ ChangedAt(n, argv, argv')
       /\ ChangedAt(n, inside, inside') /\ ChangedAt(n, entered, entered') /\ ChangedAt(n, reg, reg')
       /\ inside' \in [Node -> BOOLEAN] /\ ChangedAt(n, comm, comm') /\ ChangedAt(n, agenda, agenda')
  <2> HIDE DEF c, k
  <2> QED  BY <1>1, <1>2, <1>3 DEF ShapeOK, ChangedAt
<1> HIDE DEF ag, ent, cm, pt, c, k, op, o
<1>11. Holds(n)'
  BY <1>8, <1>9, Zenon DEF Holds
<1> QED  BY <1>1, <1>10, <1>11, OneNode

-----------------------------------------------------------------------------
(* The start.                                                              *)

LEMMA ProgramItems ==
  ASSUME NEW it, ProgramCall(it)
  PROVE  ItemOK(it) /\ it.do \notin Early \cup Late
  BY DEF ProgramCall, ItemOK, Splitting, Early, Late

LEMMA InitItemsOK ==
  /\ IsSequence(InitItems) /\ Len(InitItems) = 6
  /\ \A i \in 1 .. 6 : /\ ItemOK(InitItems[i])
                       /\ InitItems[i].do \notin Late
                       /\ InitItems[i].do = "nmpi" => i = 1
                       /\ InitItems[i].do = "parse" => i = 2
<1> DEFINE a == [do |-> "nmpi"]
           b == [do |-> "parse"]
           c == [do |-> "job"]
           d == [do |-> "geometry"]
           e == SplitItem("job", 0, 0, "def")
           f == Barrier("def")
           s == <<a, b, c, d, e, f>>
<1>1. ItemOK(a) /\ ItemOK(b) /\ ItemOK(c) /\ ItemOK(d)
      /\ a.do = "nmpi" /\ b.do = "parse" /\ c.do = "job" /\ d.do = "geometry"
  BY DEF ItemOK, Splitting
<1>2. ItemOK(e) /\ e.do = "split"
  BY DEF SplitItem, ItemOK, Splitting, Names
<1>3. ItemOK(f) /\ f.do = "mpi"
  BY DEF Barrier, Mpi, ItemOK, Splitting, Names
<1>4. InitItems = s
  BY DEF InitItems
<1> HIDE DEF a, b, c, d, e, f
<1>5. s \in Seq({a, b, c, d, e, f}) /\ Len(s) = 6
      /\ s[1] = a /\ s[2] = b /\ s[3] = c /\ s[4] = d /\ s[5] = e /\ s[6] = f
  OBVIOUS
<1>6. \A i \in 1 .. 6 : i \in {1, 2, 3, 4, 5, 6}
  OBVIOUS
<1>7. IsSequence(s)
  BY <1>5, SequenceIs
<1> HIDE DEF s
<1>8. \A i \in 1 .. 6 : /\ ItemOK(s[i]) /\ s[i].do \notin Late
                        /\ s[i].do = "nmpi" => i = 1
                        /\ s[i].do = "parse" => i = 2
  BY <1>1, <1>2, <1>3, <1>5, <1>6 DEF Late
<1> QED  BY <1>4, <1>5, <1>7, <1>8

\* One sequence after another.
LEMMA Joined ==
  ASSUME NEW s, IsSequence(s), NEW t, IsSequence(t)
  PROVE  /\ IsSequence(s \o t) /\ Len(s) \in Nat /\ Len(t) \in Nat
         /\ Len(s \o t) = Len(s) + Len(t)
         /\ \A i \in 1 .. Len(s) + Len(t) :
              (s \o t)[i] = IF i <= Len(s) THEN s[i] ELSE t[i - Len(s)]
<1> DEFINE S == {s[i] : i \in DOMAIN s} \cup {t[i] : i \in DOMAIN t}
           u == s \o t
<1>1. s \in Seq(S) /\ t \in Seq(S)
  BY DEF IsSequence
<1> HIDE DEF S
<1>2. Len(s) \in Nat /\ Len(t) \in Nat
  BY <1>1
<1>3. u \in Seq(S) /\ Len(u) = Len(s) + Len(t)
      /\ \A i \in 1 .. Len(s) + Len(t) : u[i] = IF i <= Len(s) THEN s[i] ELSE t[i - Len(s)]
  BY <1>1, ConcatProperties
<1>4. IsSequence(u)
  BY <1>3, SequenceIs
<1> QED  BY <1>2, <1>3, <1>4

\* The agenda of a node: the start and the program.
LEMMA FirstAgenda ==
  ASSUME NEW prog, IsSequence(prog), \A i \in DOMAIN prog : ProgramCall(prog[i])
  PROVE  LET ag == InitItems \o prog
         IN /\ AgendaOK(ag)
            /\ ag # <<>> /\ ag[1].do \notin {"made", "reduced"}
            /\ \A i \in 1 .. Len(ag) : ag[i].do \notin {"count", "colors", "made"}
<1> DEFINE ag == InitItems \o prog
           M == Len(prog)
<1>1. IsSequence(ag) /\ M \in Nat /\ Len(ag) = 6 + M
      /\ \A i \in 1 .. 6 + M : ag[i] = IF i <= 6 THEN InitItems[i] ELSE prog[i - 6]
  <2> DEFINE s == InitItems
             L == Len(s)
  <2>1. IsSequence(s) /\ L = 6
    BY InitItemsOK
  <2> HIDE DEF s
  <2>2. IsSequence(s \o prog) /\ M \in Nat /\ Len(s \o prog) = L + M
        /\ \A i \in 1 .. L + M : (s \o prog)[i] = IF i <= L THEN s[i] ELSE prog[i - L]
    BY <2>1, Joined, Zenon
  <2>3. /\ IsSequence(s \o prog) /\ M \in Nat /\ Len(s \o prog) = 6 + M
        /\ \A i \in 1 .. 6 + M : (s \o prog)[i] = IF i <= 6 THEN s[i] ELSE prog[i - 6]
    BY <2>1, <2>2, Zenon
  <2> QED  BY <2>3 DEF s
<1>2. DOMAIN prog = 1 .. M
  BY DEF IsSequence
<1>3. \A j \in 1 .. M : ItemOK(prog[j]) /\ prog[j].do \notin Early \cup Late
  <2> HIDE DEF M
  <2> QED  BY <1>2, ProgramItems DEF Splitting, Early, Late
<1> HIDE DEF ag, M
<1>4. ASSUME NEW i \in 1 .. Len(ag)
      PROVE  \/ i \in 1 .. 6 /\ ag[i] = InitItems[i]
             \/ i > 6 /\ i - 6 \in 1 .. M /\ ag[i] = prog[i - 6]
  BY <1>1
<1>5. ASSUME NEW i \in 1 .. Len(ag)
      PROVE  /\ ItemOK(ag[i]) /\ ag[i].do \notin Late
             /\ ag[i].do = "nmpi" => i = 1
             /\ ag[i].do = "parse" => i = 2
             /\ i > 6 => ag[i].do \notin Early
  <2>1. CASE i \in 1 .. 6 /\ ag[i] = InitItems[i]
    BY <2>1, InitItemsOK
  <2>2. CASE i > 6 /\ i - 6 \in 1 .. M /\ ag[i] = prog[i - 6]
    BY <1>3, <2>2 DEF Early
  <2> QED  BY <1>4, <2>1, <2>2
<1>6. ASSUME NEW i \in 1 .. Len(ag), NEW j \in 1 .. Len(ag), i < j, ag[i].do = "parse"
      PROVE  ag[j].do \notin Early
  <2>1. i = 2 /\ j > 2
    BY <1>5, <1>6
  <2>2. ag[j].do \notin Late /\ ag[j].do # "nmpi" /\ ag[j].do # "parse"
    BY <1>5, <2>1
  <2> QED  BY <2>2 DEF Late, Early
<1>7. AgendaOK(ag)
  BY <1>1, <1>5, <1>6 DEF AgendaOK
<1>8. ag # <<>> /\ 1 \in 1 .. Len(ag)
  BY <1>1
<1>9. ag[1].do \notin {"made", "reduced"}
      /\ \A i \in 1 .. Len(ag) : ag[i].do \notin {"count", "colors", "made"}
  BY <1>5, <1>8 DEF Late
<1> QED  BY <1>7, <1>8, <1>9 DEF ag

LEMMA Nodes == Cardinality(Node) \in Nat /\ Node = 0 .. Cardinality(Node) - 1
  BY StartupAssumption, FS_CardinalityType

LEMMA WorldGood == \A n \in Node : Good(n, World)
<1> DEFINE N == Cardinality(Node)
           g == [i \in 1 .. N |-> i - 1]
<1>1. N \in Nat /\ Node = 0 .. N - 1
  BY Nodes
<1>2. World.group = g
  BY DEF World
<1> HIDE DEF N
<1>3. g \in Seq(Int) /\ DOMAIN g = 1 .. N
  BY <1>1
<1>4. IsSequence(g)
  <2> HIDE DEF g
  <2> QED  BY <1>3, SequenceIs
<1>5. {g[i] : i \in 1 .. N} = 0 .. N - 1
  <2>1. ASSUME NEW j \in 0 .. N - 1 PROVE \E i \in 1 .. N : g[i] = j
    <3>1. j + 1 \in 1 .. N /\ g[j + 1] = j
      BY <1>1
    <3> QED  BY <3>1
  <2>2. \A i \in 1 .. N : g[i] \in 0 .. N - 1
    BY <1>1
  <2> HIDE DEF g
  <2> QED  BY <2>1, <2>2
<1>6. Members(World) = Node
  BY <1>1, <1>2, <1>3, <1>5 DEF Members
<1> QED  BY <1>2, <1>4, <1>6 DEF Good

\* What holds of a node that starts with agenda ag and arguments av.
LEMMA NodeStarts ==
  ASSUME NEW n \in Node, NEW prog, IsSequence(prog), \A i \in DOMAIN prog : ProgramCall(prog[i]),
         NEW av, IsSequence(av), NEW rg, NEW cm, NEW pt, DOMAIN cm = Objects,
         \A o \in Objects \ {"A"} : cm[o] = None,
         Fields \subseteq DOMAIN cm["A"], cm["A"].mpicomm = World, cm["A"].nodeid = n,
         cm["A"].num_nodes = Cardinality(Node),
         pt \in [{"alloc", "job", "def"} -> Objects], pt["alloc"] = "A"
  PROVE  NodeOK(n, InitItems \o prog, FALSE, <<>>, rg, cm, pt, None, av)
<1> DEFINE ag == InitItems \o prog
<1>1. /\ AgendaOK(ag) /\ ag # <<>> /\ ag[1].do \notin {"made", "reduced"}
      /\ \A i \in 1 .. Len(ag) : ag[i].do \notin {"count", "colors", "made"}
  BY FirstAgenda, Zenon
<1> HIDE DEF ag
<1>2. ResultsOK(n, ag, rg, cm)
  BY <1>1 DEF ResultsOK
<1>3. CallsOK(<<>>)
  BY DEF CallsOK
<1>4. CommsOK(n, cm, pt)
  <2>1. StructOK(n, "A", cm["A"])
    BY WorldGood DEF StructOK
  <2>2. ASSUME NEW o \in Objects PROVE StructOK(n, o, cm[o])
    <3>1. CASE o = "A"
      BY <2>1, <3>1
    <3>2. CASE o # "A"
      BY <3>2 DEF StructOK
    <3> QED  BY <3>1, <3>2
  <2> QED  BY <2>2 DEF CommsOK
<1>5. AllocOK(n, ag, cm, None)
  BY Nodes DEF AllocOK
<1>6. ArgsOK(ag, None, av)
  BY DEF ArgsOK
<1> QED  BY <1>1, <1>2, <1>3, <1>4, <1>5, <1>6 DEF NodeOK, ag

LEMMA InitHolds == Init => StartupInv
<1> SUFFICES ASSUME Init PROVE StartupInv
  OBVIOUS
<1>1. PICK s \in Scenarios : NewScenario(s)
  BY DEF Init
<1>2. TypesOK
  <2>1. /\ scenario = s /\ opInited = [n \in Node |-> FALSE] /\ aborted = FALSE
        /\ ictype = [n \in Node |-> "switch"] /\ status = [n \in Node |-> "success"]
        /\ ptr = [n \in Node |-> [alloc |-> "A", job |-> "A", def |-> "A"]]
    BY <1>1 DEF Init, NewScenario
  <2>2. [alloc |-> "A", job |-> "A", def |-> "A"] \in [{"alloc", "job", "def"} -> Objects]
    BY DEF Objects
  <2>3. ptr \in [Node -> [{"alloc", "job", "def"} -> Objects]]
    BY <2>1, <2>2, Zenon
  <2> QED  BY <2>1, <2>3 DEF TypesOK
<1>3. ShapeOK
  BY <1>1 DEF Init, NewScenario, ShapeOK
<1>4. ASSUME NEW n \in Node PROVE Holds(n)
  <2> DEFINE prog == s.prog[n]
             qmp == <<"qmp">>
             av == qmp \o s.args
             rg == reg[n]
             cm == comm[n]
             pt == ptr[n]
  <2>1. IsSequence(prog) /\ \A i \in DOMAIN prog : ProgramCall(prog[i])
    BY StartupAssumption
  <2>2. IsSequence(av)
    <3>1. qmp \in Seq({"qmp"})
      OBVIOUS
    <3>2. IsSequence(qmp)
      <4> HIDE DEF qmp
      <4> QED  BY <3>1, SequenceIs
    <3>3. IsSequence(s.args)
      BY StartupAssumption
    <3> HIDE DEF qmp
    <3> QED  BY <3>2, <3>3, Joined
  <2>3. /\ DOMAIN cm = Objects /\ \A o \in Objects \ {"A"} : cm[o] = None
        /\ Fields \subseteq DOMAIN cm["A"] /\ cm["A"].mpicomm = World /\ cm["A"].nodeid = n
        /\ cm["A"].num_nodes = Cardinality(Node)
    <3>1. cm = [o \in Objects |-> IF o = "A" THEN Allocated(n) ELSE None]
      BY DEF Init
    <3>2. "A" \in Objects
      BY DEF Objects
    <3> DEFINE first == Allocated(n)
    <3>3. /\ Fields \subseteq DOMAIN first /\ first.mpicomm = World /\ first.nodeid = n
          /\ first.num_nodes = Cardinality(Node)
      BY DEF Allocated, Blank, Fields
    <3> HIDE DEF cm, first
    <3>4. cm = [o \in Objects |-> IF o = "A" THEN first ELSE None]
      BY <3>1 DEF first
    <3> QED  BY <3>2, <3>3, <3>4
  <2>4. pt \in [{"alloc", "job", "def"} -> Objects] /\ pt["alloc"] = "A"
    BY DEF Init, Objects
  <2>5. /\ agenda[n] = InitItems \o prog /\ inside[n] = FALSE /\ entered[n] = <<>>
        /\ args[n] = None /\ argv[n] = av
    BY <1>1 DEF Init, NewScenario
  <2> HIDE DEF prog, av, rg, cm, pt
  <2>6. NodeOK(n, InitItems \o prog, FALSE, <<>>, rg, cm, pt, None, av)
    BY <2>1, <2>2, <2>3, <2>4, NodeStarts
  <2> QED  BY <2>5, <2>6, Zenon DEF Holds, rg, cm, pt
<1> QED  BY <1>2, <1>3, <1>4 DEF StartupInv

-----------------------------------------------------------------------------
(* The theorem.                                                            *)

LEMMA StepHolds ==
  ASSUME StartupInv, [Next]_vars
  PROVE  StartupInv'
<1>1. CASE UNCHANGED vars
  <2>1. TypesOK' /\ UNCHANGED <<agenda, inside, entered, reg, comm, ptr, args, argv>>
    BY <1>1 DEF vars, collVars, startVars, StartupInv, TypesOK
  <2> QED  BY <2>1, Same_Inv
<1>2. ASSUME NEW n \in Node, Step(n) PROVE StartupInv'
  <2>1. CASE CollStep(n) /\ UNCHANGED startVars
    BY <2>1, Reduce_Inv, Result_Inv, Exchange_Inv, BinaryReduction_Inv, Enter_Inv, Leave_Inv
       DEF CollStep
  <2>2. CASE Nmpi(n) \/ Reduced(n) \/ Parse(n) \/ Job(n) \/ Geometry(n)
    BY <2>2, Nmpi_Inv, Reduced_Inv, Parse_Inv, Job_Inv, Geometry_Inv
  <2>3. CASE Split(n) \/ Count(n) \/ Colors(n) \/ Made(n) \/ FreeComm(n) \/ SetDefault(n)
    BY <2>3, Split_Inv, Count_Inv, Colors_Inv, Made_Inv, FreeComm_Inv, SetDefault_Inv
  <2>4. CASE Declare(n) \/ DeclareLogical(n) \/ SetTopo(n) \/ Neighbours(n)
    BY <2>4, Declare_Inv, DeclareLogical_Inv, SetTopo_Inv, Neighbours_Inv
  <2>5. CASE LayoutGrid(n) \/ Search(n) \/ UseDeclared(n) \/ SetSubgrid(n)
    BY <2>5, LayoutGrid_Inv, Search_Inv, UseDeclared_Inv, SetSubgrid_Inv
  <2> QED  BY <1>2, <2>1, <2>2, <2>3, <2>4, <2>5 DEF Step
<1> QED  BY <1>1, <1>2 DEF Next

LEMMA InvTypes == StartupInv => TypeOK
<1> SUFFICES ASSUME StartupInv PROVE TypeOK
  OBVIOUS
<1>1. ASSUME NEW n \in Node
      PROVE  \A o \in Objects : Complete(n, o) /\ Parsed(n) =>
                                  comm[n][o].nodeid \in 0 .. comm[n][o].num_nodes - 1
  <2> DEFINE cm == comm[n]
             pt == ptr[n]
             ar == args[n]
             ag == agenda[n]
  <2>1. CommsOK(n, cm, pt) /\ AllocOK(n, ag, cm, ar)
    BY DEF StartupInv, Holds, NodeOK
  <2>2. ASSUME NEW o \in Objects, cm[o] # None, cm[o].mpicomm # None, ar # None
        PROVE  cm[o].nodeid \in 0 .. cm[o].num_nodes - 1
    <3> HIDE DEF cm, pt, ar, ag
    <3>1. CASE o = "A"
      BY <2>1, <2>2, <3>1 DEF AllocOK
    <3>2. CASE o # "A"
      <4>1. StructOK(n, o, cm[o])
        BY <2>1 DEF CommsOK
      <4> QED  BY <2>2, <3>2, <4>1 DEF StructOK
    <3> QED  BY <3>1, <3>2
  <2> QED  BY <2>2 DEF Complete, Parsed
<1>2. TypesOK /\ inside \in [Node -> BOOLEAN]
  BY DEF StartupInv, ShapeOK
<1> QED  BY <1>1, <1>2 DEF TypeOK, TypesOK

\* The nodes of every job have what the code takes for granted: predefined communicators
\* that point to communicators, and in each communicator that a node has got a rank below
\* its number of nodes, also after -qmp-nmpi and after every split
\* (QMP_init.c:179-267, QMP_split.c:48-83).
THEOREM StartupTypeCorrect == Spec => []TypeOK
<1>1. Init => StartupInv
  BY InitHolds
<1>2. StartupInv /\ [Next]_vars => StartupInv'
  BY StepHolds
<1>3. StartupInv => TypeOK
  BY InvTypes
<1> QED  BY <1>1, <1>2, <1>3, PTL DEF Spec

LEMMA SameSequence ==
  ASSUME NEW s, IsSequence(s), NEW t, IsSequence(t), Len(s) = Len(t),
         \A i \in 1 .. Len(s) : s[i] = t[i]
  PROVE  s = t
<1>1. s = [i \in 1 .. Len(s) |-> s[i]] /\ t = [i \in 1 .. Len(t) |-> t[i]]
  BY DEF IsSequence
<1> QED  BY <1>1

LEMMA TailIs ==
  ASSUME NEW s, IsSequence(s), s # <<>>
  PROVE  /\ IsSequence(Tail(s)) /\ Len(s) \in Nat \ {0} /\ Len(Tail(s)) = Len(s) - 1
         /\ \A i \in 1 .. Len(s) - 1 : Tail(s)[i] = s[i + 1]
<1> DEFINE S == {s[i] : i \in DOMAIN s}
           t == Tail(s)
<1>1. s \in Seq(S)
  BY DEF IsSequence
<1> HIDE DEF S
<1>2. t \in Seq(S) /\ Len(t) = Len(s) - 1 /\ Len(s) \in Nat \ {0}
      /\ \A i \in 1 .. Len(s) - 1 : t[i] = s[i + 1]
  BY <1>1
<1> HIDE DEF t
<1>3. IsSequence(t)
  BY <1>2, SequenceIs
<1> QED  BY <1>2, <1>3 DEF t

LEMMA OneItem == ASSUME NEW a PROVE IsSequence(<<a>>) /\ Len(<<a>>) = 1 /\ <<a>>[1] = a
<1>1. <<a>> \in Seq({a}) /\ Len(<<a>>) = 1 /\ <<a>>[1] = a
  OBVIOUS
<1> QED  BY <1>1, SequenceIs

LEMMA NoItems == IsSequence(<<>>) /\ Len(<<>>) = 0
  BY FreshNone DEF FreshOK, MayCome

\* An item before the rest of an agenda.
LEMMA ThenIs ==
  ASSUME NEW it, NEW rest, IsSequence(rest)
  PROVE  /\ IsSequence(Then(it, rest)) /\ Then(it, rest) # <<>> /\ Then(it, rest)[1] = it
         /\ Tail(Then(it, rest)) = rest
         /\ Len(rest) \in Nat /\ Len(Then(it, rest)) = Len(rest) + 1
         /\ \A i \in 1 .. Len(rest) : Then(it, rest)[i + 1] = rest[i]
<1> DEFINE s == Then(it, rest)
           h == <<it>>
           L == Len(rest)
<1>1. IsSequence(h) /\ Len(h) = 1 /\ h[1] = it
  BY OneItem
<1>2. s = h \o rest
  BY DEF Then
<1> HIDE DEF s, h
<1>3. /\ IsSequence(s) /\ L \in Nat /\ Len(s) = Len(h) + L
      /\ \A i \in 1 .. Len(h) + L : s[i] = IF i <= Len(h) THEN h[i] ELSE rest[i - Len(h)]
  BY <1>1, <1>2, Joined
<1>4. Len(s) = L + 1 /\ s[1] = it /\ \A i \in 1 .. L : s[i + 1] = rest[i]
  <2>1. 1 \in 1 .. 1 + L /\ \A i \in 1 .. L : i + 1 \in 1 .. 1 + L /\ ~(i + 1 <= 1) /\ (i + 1) - 1 = i
    BY <1>3
  <2> HIDE DEF L
  <2>2. \A i \in 1 .. 1 + L : s[i] = IF i <= 1 THEN h[i] ELSE rest[i - 1]
    BY <1>1, <1>3
  <2>3. s[1] = it
    BY <1>1, <2>1, <2>2
  <2>4. \A i \in 1 .. L : s[i + 1] = rest[i]
    BY <2>1, <2>2
  <2> QED  BY <1>1, <1>3, <2>3, <2>4
<1>5. s # <<>>
  BY <1>3, <1>4, NoItems
<1>6. Tail(s) = rest
  <2> DEFINE t == Tail(s)
  <2>1. IsSequence(t) /\ Len(t) = L /\ \A i \in 1 .. L : t[i] = rest[i]
    BY <1>3, <1>4, <1>5, TailIs
  <2> HIDE DEF t
  <2>2. t = rest
    BY <2>1, SameSequence
  <2> QED  BY <2>2 DEF t
<1> QED  BY <1>3, <1>4, <1>5, <1>6 DEF s

\* What replaces the head of an agenda.
LEMMA Instead0 == ASSUME NEW rest, IsSequence(rest) PROVE <<>> \o rest = rest
<1> DEFINE e == <<>>
           s == e \o rest
<1>1. IsSequence(e) /\ Len(e) = 0
  BY NoItems
<1> HIDE DEF e
<1>2. /\ IsSequence(s) /\ Len(rest) \in Nat /\ Len(s) = Len(e) + Len(rest)
      /\ \A i \in 1 .. Len(e) + Len(rest) : s[i] = IF i <= Len(e) THEN e[i] ELSE rest[i - Len(e)]
  BY <1>1, Joined
<1> HIDE DEF s
<1>3. Len(s) = Len(rest) /\ \A i \in 1 .. Len(s) : s[i] = rest[i]
  BY <1>1, <1>2
<1>4. s = rest
  BY <1>2, <1>3, SameSequence
<1> QED  BY <1>4 DEF s, e

LEMMA Instead1 == ASSUME NEW a, NEW rest PROVE <<a>> \o rest = Then(a, rest)
  BY DEF Then

LEMMA Instead2 ==
  ASSUME NEW a, NEW b, NEW rest, IsSequence(rest)
  PROVE  <<a, b>> \o rest = Then(a, Then(b, rest))
<1> DEFINE p == <<a, b>>
           s == p \o rest
           L == Len(rest)
           r == Then(b, rest)
           t == Then(a, r)
<1>1. p \in Seq({a, b}) /\ Len(p) = 2 /\ p[1] = a /\ p[2] = b
  OBVIOUS
<1>2. IsSequence(p)
  BY <1>1, SequenceIs
<1> HIDE DEF p
<1>3. /\ IsSequence(s) /\ L \in Nat /\ Len(s) = 2 + L
      /\ \A i \in 1 .. 2 + L : s[i] = IF i <= 2 THEN p[i] ELSE rest[i - 2]
  <2> DEFINE K == Len(p)
  <2>1. /\ IsSequence(s) /\ L \in Nat /\ Len(s) = K + L
        /\ \A i \in 1 .. K + L : s[i] = IF i <= K THEN p[i] ELSE rest[i - K]
    BY <1>2, Joined, Zenon
  <2>2. K = 2
    BY <1>1
  <2> HIDE DEF K, s, L
  <2> QED  BY <2>1, <2>2
<1>4. /\ IsSequence(r) /\ Len(r) = L + 1 /\ r[1] = b /\ \A i \in 1 .. L : r[i + 1] = rest[i]
  <2> HIDE DEF s, t, L
  <2> QED  BY ThenIs DEF L
<1> HIDE DEF r, L
<1>5. /\ IsSequence(t) /\ Len(t) = L + 2 /\ t[1] = a /\ \A i \in 1 .. L + 1 : t[i + 1] = r[i]
  <2> HIDE DEF s
  <2>1. Len(t) = Len(r) + 1 /\ IsSequence(t) /\ t[1] = a /\ \A i \in 1 .. Len(r) : t[i + 1] = r[i]
    BY <1>4, ThenIs
  <2> HIDE DEF t
  <2> QED  BY <1>3, <1>4, <2>1
<1> HIDE DEF s, t
<1>6. ASSUME NEW i \in 1 .. Len(s) PROVE s[i] = t[i]
  <2>1. CASE i = 1
    BY <1>1, <1>3, <1>5, <2>1
  <2>2. CASE i = 2
    <3>1. t[1 + 1] = r[1]
      BY <1>3, <1>5
    <3> QED  BY <1>1, <1>3, <1>4, <2>2, <3>1
  <2>3. CASE i > 2
    <3>1. i - 1 \in 1 .. L + 1 /\ i - 2 \in 1 .. L /\ (i - 1) + 1 = i /\ (i - 2) + 1 = i - 1
          /\ i \in 1 .. 2 + L /\ ~(i <= 2)
      BY <1>3, <2>3
    <3>2. t[i] = r[i - 1] /\ r[i - 1] = rest[i - 2] /\ s[i] = rest[i - 2]
      BY <1>3, <1>4, <1>5, <3>1
    <3> QED  BY <3>2
  <2> QED  BY <1>3, <2>1, <2>2, <2>3
<1>7. s = t
  BY <1>3, <1>5, <1>6, SameSequence
<1> QED  BY <1>7 DEF s, t, p, r

-----------------------------------------------------------------------------
\* After more items that declare a topology the rest of the agenda still comes.
LEMMA LeadsOn ==
  ASSUME NEW ag, IsSequence(ag), NEW rest, Leads(ag, rest), ag # rest
  PROVE  /\ ag # <<>> /\ Mild(ag[1])
         /\ \A items : IsSequence(items) /\ (\A i \in 1 .. Len(items) : Mild(items[i])) =>
                         Leads(items \o Tail(ag), rest)
<1>1. PICK i \in 0 .. Len(ag) : /\ SubSeq(ag, i + 1, Len(ag)) = rest
                                /\ \A j \in 1 .. i : Mild(ag[j])
  BY DEF Leads
<1>2. Len(ag) \in Nat /\ i \in Nat
  BY DEF IsSequence
<1> DEFINE N == Len(ag)
           S == {ag[j] : j \in DOMAIN ag}
<1>3. ag \in Seq(S)
  BY DEF IsSequence
<1> HIDE DEF S
<1>4. i # 0
  <2> SUFFICES ASSUME i = 0 PROVE ag = rest
    OBVIOUS
  <2>1. rest = SubSeq(ag, 1, N)
    BY <1>1
  <2>2. SubSeq(ag, 1, N) = ag
    BY <1>3
  <2> QED  BY <2>1, <2>2
<1>5. 1 \in 1 .. i /\ N \in Nat \ {0} /\ i \in 1 .. N
  BY <1>2, <1>4
<1>6. ag # <<>> /\ Mild(ag[1])
  BY <1>1, <1>5, NoItems
<1>7. ASSUME NEW items, IsSequence(items), \A j \in 1 .. Len(items) : Mild(items[j])
      PROVE  Leads(items \o Tail(ag), rest)
  <2> DEFINE new == items \o Tail(ag)
             L == Len(items)
             k == L + i - 1
  <2>1. /\ IsSequence(new) /\ L \in Nat /\ Len(new) = L + N - 1
        /\ \A j \in 1 .. L : new[j] = items[j]
        /\ \A j \in L + 1 .. L + N - 1 : new[j] = ag[j - L + 1]
    BY <1>6, <1>7, Replaced
  <2> HIDE DEF new, L
  <2>2. k \in 0 .. Len(new)
    BY <1>5, <2>1
  <2>3. ASSUME NEW j \in 1 .. k PROVE Mild(new[j])
    <3>1. CASE j <= L
      <4>1. j \in 1 .. L
        BY <2>1, <3>1
      <4> QED  BY <1>7, <2>1, <4>1 DEF L
    <3>2. CASE ~(j <= L)
      <4>1. j \in L + 1 .. L + N - 1 /\ j - L + 1 \in 1 .. i
        BY <1>5, <2>1, <3>2
      <4> QED  BY <1>1, <2>1, <4>1
    <3> QED  BY <3>1, <3>2
  <2>4. SubSeq(new, k + 1, Len(new)) = rest
    <3>1. SubSeq(ag, i + 1, N) = [j \in 1 .. N - i |-> ag[i + j]]
      <4>1. SubSeq(ag, i + 1, N) = [j \in 1 .. (1 + N - (i + 1)) |-> ag[i + 1 + j - 1]]
        BY <1>2, <1>5
      <4>2. (1 + N - (i + 1)) = N - i /\ \A j \in 1 .. N - i : i + 1 + j - 1 = i + j
        BY <1>2, <1>5
      <4> QED  BY <4>1, <4>2
    <3>2. SubSeq(new, k + 1, Len(new)) = [j \in 1 .. N - i |-> new[k + j]]
      <4>1. Len(new) - (k + 1) + 1 = N - i /\ k \in Int /\ Len(new) \in Int
        BY <1>5, <2>1
      <4>2. SubSeq(new, k + 1, Len(new)) = [j \in 1 .. (1 + Len(new) - (k + 1)) |-> new[k + 1 + j - 1]]
        BY <4>1, SMTT(60)
      <4>3. (1 + Len(new) - (k + 1)) = N - i /\ \A j \in 1 .. N - i : k + 1 + j - 1 = k + j
        BY <1>5, <2>1, <4>1
      <4> QED  BY <4>2, <4>3
    <3>3. ASSUME NEW j \in 1 .. N - i PROVE new[k + j] = ag[i + j]
      <4>1. k + j \in L + 1 .. L + N - 1 /\ (k + j) - L + 1 = i + j
        BY <1>5, <2>1
      <4> QED  BY <2>1, <4>1
    <3> QED  BY <1>1, <3>1, <3>2, <3>3
  <2>5. Leads(new, rest)
    <3> HIDE DEF k
    <3> QED  BY <2>2, <2>3, <2>4 DEF Leads
  <2> QED  BY <2>5 DEF new
<1> QED  BY <1>6, <1>7

LEMMA LeadsItself == ASSUME NEW rest, IsSequence(rest) PROVE Leads(rest, rest)
<1> DEFINE S == {rest[j] : j \in DOMAIN rest}
<1>1. rest \in Seq(S)
  BY DEF IsSequence
<1> HIDE DEF S
<1>2. SubSeq(rest, 0 + 1, Len(rest)) = rest /\ 0 \in 0 .. Len(rest)
  BY <1>1
<1> QED  BY <1>2 DEF Leads

LEMMA LeadsOne ==
  ASSUME NEW it, Mild(it), NEW rest, IsSequence(rest) PROVE Leads(Then(it, rest), rest)
<1> DEFINE ag == Then(it, rest)
<1>1. IsSequence(ag) /\ ag[1] = it /\ Len(rest) \in Nat /\ Len(ag) = Len(rest) + 1
      /\ \A i \in 1 .. Len(rest) : ag[i + 1] = rest[i]
  BY ThenIs
<1> HIDE DEF ag
<1>2. SubSeq(ag, 1 + 1, Len(ag)) = [j \in 1 .. Len(rest) |-> ag[j + 1]]
  BY <1>1
<1>3. rest = [j \in 1 .. Len(rest) |-> rest[j]]
  BY DEF IsSequence
<1>4. SubSeq(ag, 1 + 1, Len(ag)) = rest
  BY <1>1, <1>2, <1>3
<1>5. 1 \in 0 .. Len(ag) /\ \A j \in 1 .. 1 : Mild(ag[j])
  BY <1>1
<1> QED  BY <1>4, <1>5 DEF Leads, ag

-----------------------------------------------------------------------------
(* Calls and answers are only ever added.                                  *)

Finite(ent) == \A d \in DOMAIN ent : Len(ent[d]) \in Nat
\* new is ent with one more call on c.
Extended(ent, new, c, call) ==
  /\ DOMAIN new = DOMAIN ent \cup {c} /\ \A d \in DOMAIN ent \ {c} : new[d] = ent[d]
  /\ Len(new[c]) \in Nat \ {0} /\ new[c][Len(new[c])] = call
  /\ Turns(ent, c) = 1 .. Len(new[c]) - 1 /\ \A k \in Turns(ent, c) : new[c][k] = ent[c][k]
  /\ c \in DOMAIN ent => Len(new[c]) - 1 = Len(ent[c])

\* What has been called stays.
Longer(ent, new) ==
  \A c \in DOMAIN ent : /\ Len(ent[c]) \in Nat
                        /\ c \in DOMAIN new /\ Turns(ent, c) \subseteq Turns(new, c)
                        /\ \A k \in Turns(ent, c) : new[c][k] = ent[c][k]
Grows(E, F) == \A m \in Node : Longer(E[m], F[m])
Keeps(W, V) == \A p \in DOMAIN W : p \in DOMAIN V /\ V[p] = W[p]

LEMMA ExtendedLonger ==
  ASSUME NEW ent, Finite(ent), NEW new, NEW c, NEW call,
         Extended(ent, new, c, call)
  PROVE  /\ Longer(ent, new) /\ Turns(new, c) = 1 .. Len(new[c])
         /\ \A d : d # c => Turns(new, d) = Turns(ent, d) /\ \A k \in Turns(ent, d) : new[d][k] = ent[d][k]
<1>1. \A d : d # c => Turns(new, d) = Turns(ent, d) /\ \A k \in Turns(ent, d) : new[d][k] = ent[d][k]
  BY DEF Extended, Turns
<1>2. Turns(new, c) = 1 .. Len(new[c])
  BY DEF Extended, Turns
<1>3. Turns(ent, c) \subseteq Turns(new, c) /\ \A k \in Turns(ent, c) : new[c][k] = ent[c][k]
  <2>1. Len(new[c]) \in Nat /\ Turns(ent, c) = 1 .. Len(new[c]) - 1
        /\ \A k \in Turns(ent, c) : new[c][k] = ent[c][k]
    BY DEF Extended
  <2> QED  BY <1>2, <2>1
<1>4. ASSUME NEW d \in DOMAIN ent
      PROVE  /\ Len(ent[d]) \in Nat
             /\ d \in DOMAIN new /\ Turns(ent, d) \subseteq Turns(new, d)
             /\ \A k \in Turns(ent, d) : new[d][k] = ent[d][k]
  <2>1. d \in DOMAIN new /\ Len(ent[d]) \in Nat
    BY DEF Extended, Finite
  <2>2. CASE d = c
    BY <1>3, <2>1, <2>2
  <2>3. CASE d # c
    BY <1>1, <2>1, <2>3
  <2> QED  BY <2>2, <2>3
<1> QED  BY <1>1, <1>2, <1>4 DEF Longer

\* No split comes about by a call that is none, or on another communicator.
LEMMA NoSplitOn ==
  ASSUME NEW ent, Finite(ent), NEW new, NEW c, NEW call,
         Extended(ent, new, c, call), NEW d, NoSplit(ent, d),
         d # c \/ call.op # "split"
  PROVE  NoSplit(new, d)
<1>1. /\ \A e : e # c => Turns(new, e) = Turns(ent, e) /\ \A k \in Turns(ent, e) : new[e][k] = ent[e][k]
      /\ Turns(new, c) = 1 .. Len(new[c])
  BY ExtendedLonger
<1>2. CASE d # c
  BY <1>1, <1>2 DEF NoSplit
<1>3. CASE d = c /\ call.op # "split"
  <2> DEFINE L == Len(new[c])
  <2>1. L \in Nat \ {0} /\ new[c][L] = call /\ Turns(ent, c) = 1 .. L - 1
        /\ \A k \in Turns(ent, c) : new[c][k] = ent[c][k]
    BY DEF Extended
  <2> HIDE DEF L
  <2>2. \A k \in 1 .. L : k = L \/ k \in 1 .. L - 1
    BY <2>1
  <2>3. Turns(new, c) = 1 .. L
    BY <1>1 DEF L
  <2> QED  BY <1>3, <2>1, <2>2, <2>3 DEF NoSplit
<1> QED  BY <1>2, <1>3

LEMMA FirstNow ==
  ASSUME NEW ent, Finite(ent), NEW new, NEW c, NEW call,
         Extended(ent, new, c, call), NoSplit(ent, c),
         call.op = "split"
  PROVE  IsFirst(new, c, Len(new[c])) /\ Len(new[c]) \in Turns(new, c)
<1> DEFINE L == Len(new[c])
<1>1. L \in Nat \ {0} /\ new[c][L] = call /\ Turns(ent, c) = 1 .. L - 1
      /\ \A k \in Turns(ent, c) : new[c][k] = ent[c][k]
  BY DEF Extended
<1>2. Turns(new, c) = 1 .. L
  BY ExtendedLonger
<1> HIDE DEF L
<1>3. L \in 1 .. L
  BY <1>1
<1>4. \A k \in 1 .. L - 1 : new[c][k].op # "split"
  BY <1>1 DEF NoSplit
<1> QED  BY <1>1, <1>2, <1>3, <1>4 DEF IsFirst, SplitAt, L

LEMMA FirstStays ==
  ASSUME NEW ent, NEW new, Longer(ent, new), NEW c, NEW k, IsFirst(ent, c, k)
  PROVE  k \in Turns(ent, c) /\ k \in Turns(new, c) /\ IsFirst(new, c, k) /\ new[c][k] = ent[c][k]
<1>1. k \in Turns(ent, c) /\ ent[c][k].op = "split" /\ c \in DOMAIN ent
  BY DEF IsFirst, SplitAt, Turns
<1>2. k \in Turns(new, c) /\ \A j \in Turns(ent, c) : new[c][j] = ent[c][j]
  BY <1>1 DEF Longer
<1>3. ASSUME NEW j \in 1 .. k - 1 PROVE j \in Turns(ent, c)
  <2>1. k \in 1 .. Len(ent[c])
    BY <1>1 DEF Turns
  <2> DEFINE L == Len(ent[c])
  <2>2. j \in 1 .. L
    <3>1. k \in 1 .. L /\ L \in Nat
      BY <1>1, <2>1 DEF Longer
    <3> HIDE DEF L
    <3> QED  BY <3>1
  <2> QED  BY <1>1, <2>2 DEF Turns
<1>4. \A j \in 1 .. k - 1 : ~SplitAt(new, c, j)
  BY <1>2, <1>3 DEF IsFirst, SplitAt
<1> QED  BY <1>1, <1>2, <1>4 DEF IsFirst, SplitAt

LEMMA MadeStays ==
  ASSUME NEW E, NEW F, Grows(E, F), NEW c, NEW k, NEW color, NEW x, IsMade(E, c, k, color, x)
  PROVE  IsMade(F, c, k, color, x)
<1>1. ASSUME NEW m \in Members(c) PROVE m \in Node /\ SplitAt(F[m], c, k) /\ F[m][c][k] = E[m][c][k]
  <2>1. m \in Node /\ SplitAt(E[m], c, k)
    BY DEF IsMade
  <2>2. c \in DOMAIN E[m] /\ Longer(E[m], F[m])
    BY <2>1 DEF SplitAt, Turns, Grows
  <2> QED  BY <2>1, <2>2 DEF Longer, SplitAt
<1>2. ArgsOf(F, c, k) = ArgsOf(E, c, k)
  BY <1>1 DEF ArgsOf
<1> QED  BY <1>1, <1>2 DEF IsMade

LEMMA CountedStays ==
  ASSUME NEW W, NEW V, Keeps(W, V), NEW c, NEW k, NEW x, Counted(W, c, k, x)
  PROVE  Counted(V, c, k, x)
  BY DEF Counted, Keeps

\* What is settled stays settled.
LEMMA AllocStays ==
  ASSUME NEW E, NEW F, Grows(E, F), NEW ent, NEW new, Longer(ent, new), NEW s, NEW a,
         AllocRight(s, ent, E, a)
  PROVE  AllocRight(s, new, F, a)
<1>1. CASE Reduces(s)
  <2>1. PICK k \in Turns(ent, World) : FirstIn(ent, World, k, 0) /\ IsMade(E, World, k, 0, a.mpicomm)
    BY <1>1 DEF AllocRight
  <2>2. k \in Turns(new, World) /\ FirstIn(new, World, k, 0) /\ IsMade(F, World, k, 0, a.mpicomm)
    BY <2>1, FirstStays, MadeStays DEF FirstIn
  <2> QED  BY <1>1, <2>2 DEF AllocRight
<1>2. CASE ~Reduces(s)
  BY <1>2 DEF AllocRight
<1> QED  BY <1>1, <1>2

LEMMA SplitOffStays ==
  ASSUME NEW E, NEW F, Grows(E, F), NEW ent, NEW new, Longer(ent, new), NEW W, NEW V, Keeps(W, V),
         NEW n, NEW c, NEW x, SplitOff(n, ent, E, W, c, x)
  PROVE  SplitOff(n, new, F, V, c, x)
<1>1. PICK k \in Turns(ent, c) : /\ FirstSplit(ent, c, k, x.color)
                                /\ IsMade(E, c, k, x.color, x.mpicomm) /\ Counted(W, c, k - 1, x)
  BY DEF SplitOff
<1>2. k \in Turns(new, c) /\ FirstSplit(new, c, k, x.color)
  BY <1>1, FirstStays DEF FirstSplit
<1>3. IsMade(F, c, k, x.color, x.mpicomm) /\ Counted(V, c, k - 1, x)
  BY <1>1, MadeStays, CountedStays
<1> QED  BY <1>2, <1>3 DEF SplitOff

LEMMA DividingStays ==
  ASSUME NEW E, NEW F, Grows(E, F), NEW W, NEW V, Keeps(W, V),
         NEW ent, NEW ag, NEW ins, NEW rg, NEW x, NEW q, NEW c, NEW from, NEW color, NEW into, NEW o, NEW rest,
         Dividing(ent, E, W, ag, ins, rg, x, q, c, from, color, into, o, rest)
  PROVE  Dividing(ent, F, V, ag, ins, rg, x, q, c, from, color, into, o, rest)
<1>1. CASE AtColors(ent, W, ag, rg, x, q, c, color, into, o, rest)
  <2>1. AtColors(ent, V, ag, rg, x, q, c, color, into, o, rest)
    BY <1>1 DEF AtColors, Keeps
  <2> QED  BY <2>1 DEF Dividing
<1>2. CASE AtSplit(ent, W, ag, ins, x, q, c, color, into, o, rest)
  <2>1. \A k : Counted(W, c, k, x) => Counted(V, c, k, x)
    BY CountedStays
  <2>2. AtSplit(ent, V, ag, ins, x, q, c, color, into, o, rest)
    BY <1>2, <2>1 DEF AtSplit
  <2> QED  BY <2>2 DEF Dividing
<1>3. CASE AtMade(ent, E, W, ag, rg, x, q, c, color, into, o, rest)
  <2>1. \A k : /\ Counted(W, c, k, x) => Counted(V, c, k, x)
               /\ IsMade(E, c, k, color, rg.comm) => IsMade(F, c, k, color, rg.comm)
    BY CountedStays, MadeStays
  <2>2. AtMade(ent, F, V, ag, rg, x, q, c, color, into, o, rest)
    BY <1>3, <2>1 DEF AtMade
  <2> QED  BY <2>2 DEF Dividing
<1> QED  BY <1>1, <1>2, <1>3 DEF Dividing

\* A node stays where it is when others step.
LEMMA StageStays ==
  ASSUME NEW E, NEW F, Grows(E, F), NEW W, NEW V, Keeps(W, V),
         NEW n, NEW s, NEW ent, Longer(ent, ent), NEW ag, NEW ins, NEW rg, NEW cm, NEW pt, NEW ar, NEW av,
         StageOf(n, s, ent, E, W, ag, ins, rg, cm, pt, ar, av)
  PROVE  StageOf(n, s, ent, F, V, ag, ins, rg, cm, pt, ar, av)
<1>2. \A a : AllocRight(s, ent, E, a) => AllocRight(s, ent, F, a)
  BY AllocStays
<1>3. \A c, x : SplitOff(n, ent, E, W, c, x) => SplitOff(n, ent, F, V, c, x)
  BY SplitOffStays
<1>4. CASE LeftOver(s, ent, ag, cm, ar) \/ Starting(n, s, ent, ag, cm, pt, av)
  BY <1>4 DEF StageOf
<1>5. CASE Reducing(n, s, ent, E, ag, ins, rg, cm, pt)
  <2>1. \A k, color : IsMade(E, World, k, color, rg.comm) => IsMade(F, World, k, color, rg.comm)
    BY MadeStays
  <2>2. \A color : AtReduced(n, s, ent, E, ag, rg, color) => AtReduced(n, s, ent, F, ag, rg, color)
    BY <2>1 DEF AtReduced
  <2>3. Reducing(n, s, ent, F, ag, ins, rg, cm, pt)
    BY <1>5, <2>2 DEF Reducing
  <2> QED  BY <2>3 DEF StageOf
<1>6. CASE Reading(n, s, ent, E, ag, cm, pt)
  <2>1. Reading(n, s, ent, F, ag, cm, pt)
    BY <1>2, <1>6 DEF Reading
  <2> QED  BY <2>1 DEF StageOf
<1>7. CASE DividingJob(n, s, ent, E, W, ag, ins, rg, cm, pt)
  <2>1. DividingJob(n, s, ent, F, V, ag, ins, rg, cm, pt)
    BY <1>2, <1>7, DividingStays DEF DividingJob
  <2> QED  BY <2>1 DEF StageOf
<1>8. CASE Placing(n, s, ent, E, W, ag, cm, pt)
  <2>1. Placing(n, s, ent, F, V, ag, cm, pt)
    BY <1>2, <1>3, <1>8 DEF Placing
  <2> QED  BY <2>1 DEF StageOf
<1>9. CASE DividingDef(n, s, ent, E, W, ag, ins, rg, cm, pt)
  <2>1. DividingDef(n, s, ent, F, V, ag, ins, rg, cm, pt)
    BY <1>2, <1>3, <1>9, DividingStays DEF DividingDef
  <2> QED  BY <2>1 DEF StageOf
<1>10. CASE Running(n, s, ent, E, W, ag, cm)
  <2>1. Running(n, s, ent, F, V, ag, cm)
    BY <1>2, <1>3, <1>10 DEF Running
  <2> QED  BY <2>1 DEF StageOf
<1> QED  BY <1>4, <1>5, <1>6, <1>7, <1>8, <1>9, <1>10 DEF StageOf

-----------------------------------------------------------------------------
(* What each step does.                                                    *)

At(n, kind) == ~inside[n] /\ agenda[n] # <<>> /\ Todo(n).do = kind

\* A step is that of the item that the node is at.
LEMMA Kinds ==
  ASSUME NEW n, Step(n)
  PROVE  \/ inside[n] /\ Leave(n) /\ UNCHANGED startVars
         \/ At(n, "mpi") /\ Enter(n) /\ UNCHANGED startVars
         \/ At(n, "reduce") /\ Reduce(n) /\ UNCHANGED startVars
         \/ At(n, "back") /\ Back(n) /\ UNCHANGED startVars
         \/ At(n, "exchange") /\ Exchange(n) /\ UNCHANGED startVars
         \/ At(n, "copied") /\ Copied(n) /\ UNCHANGED startVars
         \/ At(n, "binary_reduction") /\ BinaryReduction(n) /\ UNCHANGED startVars
         \/ At(n, "unhook") /\ Unhook(n) /\ UNCHANGED startVars
         \/ At(n, "nmpi") /\ Nmpi(n)
         \/ At(n, "reduced") /\ Reduced(n)
         \/ At(n, "parse") /\ Parse(n)
         \/ At(n, "job") /\ Job(n)
         \/ At(n, "geometry") /\ Geometry(n)
         \/ At(n, "split") /\ Split(n)
         \/ At(n, "count") /\ Count(n)
         \/ At(n, "colors") /\ Colors(n)
         \/ At(n, "made") /\ Made(n)
         \/ At(n, "freecomm") /\ FreeComm(n)
         \/ At(n, "setdefault") /\ SetDefault(n)
         \/ At(n, "declare") /\ Declare(n)
         \/ At(n, "declare_logical") /\ DeclareLogical(n)
         \/ At(n, "settopo") /\ SetTopo(n)
         \/ At(n, "neighbours") /\ Neighbours(n)
         \/ At(n, "layout") /\ LayoutGrid(n)
         \/ At(n, "search") /\ Search(n)
         \/ At(n, "search") /\ UseDeclared(n)
         \/ At(n, "subgrid") /\ SetSubgrid(n)
<1>1. \A kind : IsAt(n, kind) => At(n, kind)
  BY DEF IsAt, At
<1>2. Leave(n) => inside[n]
  BY DEF Leave
<1>3. /\ Enter(n) => At(n, "mpi")
      /\ Reduce(n) => At(n, "reduce")
      /\ Back(n) => At(n, "back")
      /\ Exchange(n) => At(n, "exchange")
      /\ Copied(n) => At(n, "copied")
      /\ BinaryReduction(n) => At(n, "binary_reduction")
      /\ Unhook(n) => At(n, "unhook")
  BY <1>1 DEF Enter, Reduce, Back, Exchange, Copied, BinaryReduction, Unhook
<1>4. /\ Nmpi(n) => At(n, "nmpi")
      /\ Reduced(n) => At(n, "reduced")
      /\ Parse(n) => At(n, "parse")
      /\ Job(n) => At(n, "job")
      /\ Geometry(n) => At(n, "geometry")
  BY <1>1 DEF Nmpi, Reduced, Parse, Job, Geometry
<1>5. /\ Split(n) => At(n, "split")
      /\ Count(n) => At(n, "count")
      /\ Colors(n) => At(n, "colors")
      /\ Made(n) => At(n, "made")
      /\ FreeComm(n) => At(n, "freecomm")
      /\ SetDefault(n) => At(n, "setdefault")
  BY <1>1 DEF Split, Count, Colors, Made, FreeComm, SetDefault
<1>6. /\ Declare(n) => At(n, "declare")
      /\ DeclareLogical(n) => At(n, "declare_logical")
      /\ SetTopo(n) => At(n, "settopo")
      /\ Neighbours(n) => At(n, "neighbours")
      /\ LayoutGrid(n) => At(n, "layout")
      /\ Search(n) => At(n, "search")
      /\ UseDeclared(n) => At(n, "search")
      /\ SetSubgrid(n) => At(n, "subgrid")
  BY <1>1 DEF Declare, DeclareLogical, SetTopo, Neighbours, LayoutGrid, Search, UseDeclared, SetSubgrid
<1> QED  BY <1>2, <1>3, <1>4, <1>5, <1>6, Zenon DEF Step, CollStep

\* The other nodes have what they had.
Local(n) ==
  /\ scenario' = scenario
  /\ \A m \in Node \ {n} :
       /\ agenda'[m] = agenda[m] /\ inside'[m] = inside[m] /\ reg'[m] = reg[m] /\ comm'[m] = comm[m]
       /\ ptr'[m] = ptr[m] /\ args'[m] = args[m] /\ argv'[m] = argv[m]
       /\ entered'[m] = entered[m]
Quiet == UNCHANGED <<entered, answers>>

LEMMA Locals ==
  ASSUME StartupInv, NEW n \in Node, Step(n)
  PROVE  Local(n) /\ (Quiet \/ Enter(n) \/ Leave(n))
<1>1. ShapeOK
  BY DEF StartupInv
<1>2. CASE CollStep(n) /\ UNCHANGED startVars
  <2>1. Reduce(n) \/ Exchange(n) => Local(n) /\ Quiet
    BY <1>1, <1>2 DEF Reduce, Exchange, Local, Quiet, Instead, ShapeOK, startVars
  <2>2. Back(n) \/ Copied(n) \/ Unhook(n) => Local(n) /\ Quiet
    BY <1>1, <1>2 DEF Back, Copied, Unhook, Local, Quiet, Instead, ShapeOK, startVars
  <2>3. BinaryReduction(n) => Local(n) /\ Quiet
    BY <1>1, <1>2 DEF BinaryReduction, Local, Quiet, Instead, ShapeOK, startVars, Abort, collVars
  <2>4. Enter(n) => Local(n)
    BY <1>1, <1>2 DEF Enter, Local, ShapeOK, startVars
  <2>5. Leave(n) => Local(n)
    <3> SUFFICES ASSUME Leave(n) PROVE Local(n)
      OBVIOUS
    <3>1. PICK r : reg' = [reg EXCEPT ![n] = r]
      BY Zenon DEF Leave
    <3>2. Instead(n, <<>>) /\ inside' = [inside EXCEPT ![n] = FALSE]
          /\ UNCHANGED <<entered, comm, ptr>>
      BY DEF Leave
    <3> QED  BY <1>1, <1>2, <3>1, <3>2 DEF Local, Instead, ShapeOK, startVars
  <2> QED  BY <1>2, <2>1, <2>2, <2>3, <2>4, <2>5 DEF CollStep
<1>3. Nmpi(n) => Local(n) /\ Quiet
  BY <1>1 DEF Nmpi, Goes, Instead, Local, Quiet, ShapeOK
<1>4. Reduced(n) => Local(n) /\ Quiet
  BY <1>1 DEF Reduced, SetComm, Instead, Local, Quiet, ShapeOK, startVars
<1>5. Parse(n) => Local(n) /\ Quiet
  BY <1>1 DEF Parse, Goes, Instead, Abort, Local, Quiet, ShapeOK, startVars, collVars
<1>6. Job(n) => Local(n) /\ Quiet
  BY <1>1 DEF Job, Goes, Instead, Abort, Local, Quiet, ShapeOK, collVars
<1>7. Geometry(n) \/ Declare(n) \/ DeclareLogical(n) \/ LayoutGrid(n) => Local(n) /\ Quiet
  BY <1>1 DEF Geometry, Declare, DeclareLogical, LayoutGrid, Goes, Instead, Local, Quiet, ShapeOK, startVars
<1>8. Split(n) => Local(n) /\ Quiet
  BY <1>1 DEF Split, SetComm, Goes, Instead, Local, Quiet, ShapeOK, startVars
<1>9. Count(n) => Local(n) /\ Quiet
  BY <1>1 DEF Count, Goes, Instead, Abort, Local, Quiet, ShapeOK, startVars, collVars
<1>10. Colors(n) => Local(n) /\ Quiet
  BY <1>1 DEF Colors, Goes, Instead, Abort, Local, Quiet, ShapeOK, startVars, collVars
<1>11. Made(n) \/ FreeComm(n) \/ SetDefault(n) => Local(n) /\ Quiet
  BY <1>1 DEF Made, FreeComm, SetDefault, SetComm, Goes, Instead, Local, Quiet, ShapeOK, startVars
<1>12. SetTopo(n) => Local(n) /\ Quiet
  BY <1>1 DEF SetTopo, SetComm, Goes, Instead, Abort, Local, Quiet, ShapeOK, startVars, collVars
<1>13. Neighbours(n) => Local(n) /\ Quiet
  BY <1>1 DEF Neighbours, SetComm, Goes, Instead, Local, Quiet, ShapeOK, startVars
<1>14. Search(n) \/ UseDeclared(n) \/ SetSubgrid(n) => Local(n) /\ Quiet
  BY <1>1 DEF Search, UseDeclared, SetSubgrid, Goes, Instead, Local, Quiet, ShapeOK
<1> QED
  BY <1>2, <1>3, <1>4, <1>5, <1>6, <1>7, <1>8, <1>9, <1>10, <1>11, <1>12, <1>13, <1>14
     DEF Step, CollStep

LEMMA FiniteCalls ==
  ASSUME StartupInv, NEW n \in Node
  PROVE  Finite(entered[n]) /\ Longer(entered[n], entered[n])
<1>1. CallsOK(entered[n])
  BY DEF StartupInv, Holds, NodeOK
<1>2. \A d \in DOMAIN entered[n] : Len(entered[n][d]) \in Nat
  BY <1>1 DEF CallsOK, IsSequence
<1> QED  BY <1>2 DEF Finite, Longer

\* A node enters a call of MPI.
LEMMA Entered ==
  ASSUME StartupInv, NEW n \in Node, Enter(n), UNCHANGED startVars
  PROVE  /\ Extended(entered[n], entered'[n], Struct(n, Todo(n).comm).mpicomm,
                     [op |-> Todo(n).op, type |-> Todo(n).type, arg |-> Todo(n).arg])
         /\ agenda'[n] = agenda[n] /\ inside[n] = FALSE /\ inside'[n] = TRUE
         /\ agenda[n] # <<>> /\ Todo(n).do = "mpi"
         /\ UNCHANGED <<answers, reg, comm, ptr, args, argv>>
<1> DEFINE it == Todo(n)
           c == Struct(n, it.comm).mpicomm
           call == [op |-> it.op, type |-> it.type, arg |-> it.arg]
           ent == entered[n]
           old == OnComm(n, c)
           u == Append(old, call)
           new == [d \in DOMAIN ent \cup {c} |-> IF d = c THEN u ELSE ent[d]]
<1>1. IsAt(n, "mpi") /\ entered' = [entered EXCEPT ![n] = new]
      /\ inside' = [inside EXCEPT ![n] = TRUE]
      /\ UNCHANGED <<agenda, answers, reg, comm, ptr, args, argv>>
  BY DEF Enter, startVars
<1>2. CallsOK(ent) /\ ShapeOK
  BY DEF StartupInv, Holds, NodeOK
<1>3. entered'[n] = new /\ inside'[n] = TRUE /\ inside[n] = FALSE
  <2> HIDE DEF new
  <2> QED  BY <1>1, <1>2 DEF ShapeOK, IsAt
<1> HIDE DEF call
<1>4. IsSequence(old) /\ Turns(ent, c) = 1 .. Len(old) /\ (c \in DOMAIN ent => old = ent[c])
  <2>1. CASE c \in DOMAIN ent
    BY <1>2, <2>1 DEF OnComm, CallsOK, Turns
  <2>2. CASE c \notin DOMAIN ent
    <3>1. old = <<>> /\ Turns(ent, c) = {}
      BY <2>2 DEF OnComm, Turns
    <3>2. 1 .. 0 = {}
      OBVIOUS
    <3> QED  BY <2>2, <3>1, <3>2, NoItems
  <2> QED  BY <2>1, <2>2
<1> HIDE DEF old
<1>5. /\ IsSequence(u) /\ Len(old) \in Nat /\ Len(u) = Len(old) + 1
      /\ \A i \in 1 .. Len(old) : u[i] = old[i]
      /\ u[Len(old) + 1] = call
  BY <1>4, Appended
<1> HIDE DEF u
<1>6. /\ DOMAIN new = DOMAIN ent \cup {c} /\ \A d \in DOMAIN ent \ {c} : new[d] = ent[d]
      /\ new[c] = u
  OBVIOUS
<1> HIDE DEF new, c, ent
<1>7. Turns(ent, c) = 1 .. Len(u) - 1 /\ Len(u) \in Nat \ {0} /\ u[Len(u)] = call
      /\ (c \in DOMAIN ent => Len(u) - 1 = Len(ent[c]))
  <2>1. Len(u) - 1 = Len(old)
    BY <1>5
  <2> QED  BY <1>4, <1>5, <2>1
<1>8. \A k \in Turns(ent, c) : u[k] = ent[c][k]
  <2>1. Turns(ent, c) # {} => c \in DOMAIN ent
    BY DEF Turns
  <2> QED  BY <1>4, <1>5, <2>1
<1>9. Extended(ent, new, c, call)
  BY <1>6, <1>7, <1>8 DEF Extended
<1> QED  BY <1>1, <1>3, <1>9 DEF IsAt, ent, c, call

\* A node leaves it.
LEMMA Left ==
  ASSUME StartupInv, NEW n \in Node, Leave(n), UNCHANGED startVars,
         NEW c, c = Struct(n, Todo(n).comm).mpicomm
  PROVE  /\ agenda[n] # <<>> /\ Todo(n).do = "mpi" /\ inside[n] = TRUE
         /\ c \in DOMAIN entered[n] /\ Len(entered[n][c]) \in Nat \ {0}
         /\ Len(entered[n][c]) \in Turns(entered[n], c)
         /\ entered[n][c][Len(entered[n][c])].op = Todo(n).op
         /\ agenda'[n] = Tail(agenda[n]) /\ inside'[n] = FALSE
         /\ UNCHANGED <<entered, comm, ptr, args, argv>> /\ Keeps(answers, answers')
         /\ Todo(n).op # "alltoall" =>
              /\ <<c, Len(entered[n][c])>> \in DOMAIN answers'
              /\ reg'[n].data = answers'[<<c, Len(entered[n][c])>>]
         /\ Todo(n).op = "split" =>
              IsMade(entered, c, Len(entered[n][c]),
                     entered[n][c][Len(entered[n][c])].arg.color, reg'[n].comm)
<1> DEFINE ag == agenda[n]
           ent == entered[n]
           k == Position(n, c)
           op == CallOf(n, c, k).op
<1>1. /\ inside[n] /\ agenda' = [agenda EXCEPT ![n] = <<>> \o Tail(@)]
      /\ inside' = [inside EXCEPT ![n] = FALSE]
      /\ UNCHANGED <<entered, comm, ptr, args, argv>>
      /\ \A m \in Needed(n, c, op) : HasCome(m, c, k) /\ CallOf(m, c, k).op = op
  BY DEF Leave, Instead, startVars
<1>2. PICK v : /\ <<c, k>> \in DOMAIN answers => v = answers[<<c, k>>]
               /\ answers' = [p \in DOMAIN answers \cup {<<c, k>>} |-> IF p = <<c, k>> THEN v ELSE answers[p]]
               /\ reg' = [reg EXCEPT ![n] = Share(n, c, k, v)]
  <2>1. \E v \in IF <<c, k>> \in DOMAIN answers THEN {answers[<<c, k>>]} ELSE Outcomes(c, k) :
             /\ answers' = [p \in DOMAIN answers \cup {<<c, k>>} |-> IF p = <<c, k>> THEN v ELSE answers[p]]
             /\ reg' = [reg EXCEPT ![n] = Share(n, c, k, v)]
    BY Zenon DEF Leave
  <2> DEFINE p == <<c, k>>
             F(v) == /\ answers' = [x \in DOMAIN answers \cup {p} |-> IF x = p THEN v ELSE answers[x]]
                     /\ reg' = [reg EXCEPT ![n] = Share(n, c, k, v)]
             Out == Outcomes(c, k)
  <2>2. \E v \in IF p \in DOMAIN answers THEN {answers[p]} ELSE Out : F(v)
    BY <2>1
  <2> HIDE DEF p, F, Out
  <2>3. \E v : (p \in DOMAIN answers => v = answers[p]) /\ F(v)
    <3>1. CASE p \in DOMAIN answers
      BY <2>2, <3>1
    <3>2. CASE p \notin DOMAIN answers
      BY <2>2, <3>2
    <3> QED  BY <3>1, <3>2
  <2> QED  BY <2>3 DEF p, F
<1>3. NodeOK(n, ag, inside[n], ent, reg[n], comm[n], ptr[n], args[n], argv[n]) /\ ShapeOK
  BY DEF StartupInv, Holds
<1>4. /\ AgendaOK(ag) /\ CallsOK(ent)
      /\ ag # <<>> /\ ag[1].do = "mpi"
      /\ c \in DOMAIN ent /\ Len(ent[c]) >= 1 /\ ent[c][Len(ent[c])].op = ag[1].op
  <2> DEFINE cm == comm[n]
             pt == ptr[n]
             o == Object(n, Todo(n).comm)
  <2>1. Todo(n).comm = ag[1].comm /\ c = cm[o].mpicomm
        /\ o = IF ag[1].comm \in DOMAIN pt THEN pt[ag[1].comm] ELSE ag[1].comm
    BY DEF Todo, Struct, Object
  <2> HIDE DEF ag, ent, cm, pt, o
  <2>2. InsideOK(ag, ent, cm, pt)
    BY <1>1, <1>3 DEF NodeOK, cm, pt
  <2>3. AgendaOK(ag) /\ CallsOK(ent)
    BY <1>3 DEF NodeOK
  <2> QED  BY <2>1, <2>2, <2>3 DEF InsideOK
<1>5. OnComm(n, c) = ent[c] /\ IsSequence(ent[c])
  BY <1>4 DEF OnComm, CallsOK
<1>6. /\ k = Len(ent[c]) /\ k \in Nat \ {0} /\ k \in Turns(ent, c) /\ CallOf(n, c, k) = ent[c][k]
      /\ op = ag[1].op
  <2>1. k = Len(ent[c]) /\ CallOf(n, c, k) = ent[c][k]
    BY <1>5 DEF Position, CallOf
  <2> HIDE DEF k, ent
  <2>2. Len(ent[c]) \in Nat
    BY <1>5 DEF IsSequence
  <2>3. k \in Nat \ {0} /\ k \in 1 .. k
    BY <1>4, <2>1, <2>2
  <2> QED  BY <1>4, <2>1, <2>3 DEF Turns
<1> DEFINE share == Share(n, c, k, v)
<1>7. agenda'[n] = Tail(ag) /\ inside'[n] = FALSE /\ reg'[n] = share /\ inside[n] = TRUE
  <2>1. agenda'[n] = <<>> \o Tail(ag)
    BY <1>1, <1>3 DEF ShapeOK
  <2>2. IsSequence(Tail(ag))
    BY <1>4, TailIs DEF AgendaOK
  <2>3. <<>> \o Tail(ag) = Tail(ag)
    BY <2>2, Instead0
  <2> HIDE DEF share
  <2>4. reg'[n] = share
    BY <1>2, <1>3 DEF ShapeOK, share
  <2> QED  BY <1>1, <1>3, <2>1, <2>3, <2>4 DEF ShapeOK
<1>8. Keeps(answers, answers') /\ <<c, k>> \in DOMAIN answers' /\ answers'[<<c, k>>] = v
  <2> DEFINE p == <<c, k>>
  <2>1. answers' = [x \in DOMAIN answers \cup {p} |-> IF x = p THEN v ELSE answers[x]] /\ (p \in DOMAIN answers => v = answers[p])
    BY <1>2
  <2> HIDE DEF p
  <2>2. DOMAIN answers' = {p} \cup DOMAIN answers
        /\ \A x \in DOMAIN answers' : answers'[x] = IF x = p THEN v ELSE answers[x]
    BY <2>1
  <2>3. Keeps(answers, answers') /\ p \in DOMAIN answers' /\ answers'[p] = v
    BY <2>1, <2>2 DEF Keeps
  <2> QED  BY <2>3 DEF p
<1>9. op # "alltoall" => share.data = v
  BY DEF Share
<1>10. ASSUME ag[1].op = "split" PROVE IsMade(entered, c, k, ent[c][k].arg.color, share.comm)
  <2> DEFINE color == ent[c][k].arg.color
  <2>1. Good(n, c)
    <3>1. Usable(n, Todo(n).comm)
      <4>1. InsideOK(ag, ent, comm[n], ptr[n])
        BY <1>1, <1>3 DEF NodeOK
      <4> QED  BY <4>1 DEF InsideOK, Usable, Struct, Object, Todo
    <3> QED  BY <1>4, <3>1, OnOwn DEF Todo
  <2>2. Needed(n, c, op) = Members(c) /\ op = "split"
    BY <1>6, <1>10 DEF Needed
  <2>3. \A m \in Members(c) : HasCome(m, c, k) /\ CallOf(m, c, k).op = "split"
    BY <1>1, <2>2
  <2> HIDE DEF k, ag, ent, op, share
  <2>4. ASSUME NEW m \in Members(c)
        PROVE  m \in Node /\ SplitAt(entered[m], c, k) /\ CallOf(m, c, k) = entered[m][c][k]
    <3>1. m \in Node
      BY <2>1 DEF Good
    <3> DEFINE e == entered[m]
    <3>2. CallsOK(e)
      BY <3>1 DEF StartupInv, Holds, NodeOK
    <3>3. c \in DOMAIN e
      <4> SUFFICES ASSUME c \notin DOMAIN e PROVE FALSE
        OBVIOUS
      <4>1. Position(m, c) = 0
        BY NoItems DEF Position, OnComm
      <4>2. Position(m, c) >= k
        BY <2>3 DEF HasCome
      <4> QED  BY <1>6, <4>1, <4>2
    <3>4. OnComm(m, c) = e[c]
      BY <3>3 DEF OnComm
    <3>5. Len(e[c]) \in Nat /\ Len(e[c]) >= k
      <4>1. Len(e[c]) >= k
        BY <2>3, <3>4 DEF HasCome, Position
      <4> QED  BY <3>2, <3>3, <4>1 DEF CallsOK, IsSequence
    <3> DEFINE L == Len(e[c])
    <3>6. k \in 1 .. L
      <4> HIDE DEF L
      <4> QED  BY <1>6, <3>5 DEF L
    <3>7. CallOf(m, c, k) = e[c][k]
      BY <3>4 DEF CallOf
    <3> QED  BY <2>3, <3>1, <3>3, <3>6, <3>7 DEF SplitAt, Turns
  <2>5. Args(c, k) = ArgsOf(entered, c, k)
    BY <2>4 DEF Args, ArgsOf
  <2>6. share.comm = [name |-> Append(c.name, <<k, color>>), group |-> SplitGroup(c, Args(c, k), color)]
    <3> DEFINE e == CallOf(n, c, k)
    <3>1. share.comm = IF e.op = "split"
                       THEN [name |-> Append(c.name, <<k, e.arg.color>>),
                             group |-> SplitGroup(c, Args(c, k), e.arg.color)]
                       ELSE None
      BY DEF Share, share
    <3>2. e = ent[c][k] /\ e.op = "split"
      BY <1>6, <1>10 DEF op
    <3> HIDE DEF e
    <3> QED  BY <3>1, <3>2 DEF color
  <2> QED  BY <2>4, <2>5, <2>6 DEF IsMade
<1> QED
  BY <1>1, <1>4, <1>6, <1>7, <1>8, <1>9, <1>10 DEF Todo

\* Every step keeps what was called and answered.
LEMMA StepGrows ==
  ASSUME StartupInv, NEW n \in Node, Step(n)
  PROVE  Grows(entered, entered') /\ Keeps(answers, answers')
<1>1. Local(n) /\ (Quiet \/ Enter(n) \/ Leave(n))
  BY Locals
<1>2. \A m \in Node : Longer(entered[m], entered[m])
  BY FiniteCalls
<1>3. CASE Quiet
  BY <1>2, <1>3 DEF Quiet, Grows, Keeps
<1>4. CASE Enter(n)
  <2>1. UNCHANGED startVars
    BY <1>4, Kinds DEF Enter, IsAt, At
  <2>2. Extended(entered[n], entered'[n], Struct(n, Todo(n).comm).mpicomm,
                 [op |-> Todo(n).op, type |-> Todo(n).type, arg |-> Todo(n).arg])
        /\ answers' = answers
    BY <1>4, <2>1, Entered
  <2>3. Longer(entered[n], entered'[n])
    BY <2>2, FiniteCalls, ExtendedLonger
  <2>4. \A m \in Node \ {n} : entered'[m] = entered[m]
    BY <1>1 DEF Local
  <2>5. \A m \in Node : Longer(entered[m], entered'[m])
    BY <1>2, <2>3, <2>4
  <2> QED  BY <2>2, <2>5 DEF Grows, Keeps
<1>5. CASE Leave(n)
  <2>1. UNCHANGED startVars
    BY <1>5, Kinds DEF Leave, At
  <2>2. UNCHANGED entered /\ Keeps(answers, answers')
    BY <1>5, <2>1, Left
  <2> QED  BY <1>2, <2>2 DEF Grows
<1> QED  BY <1>1, <1>3, <1>4, <1>5

\* The other nodes stay where they are.
LEMMA OthersStay ==
  ASSUME StartupInv, NEW n \in Node, Step(n), NEW m \in Node, m # n, Stage(m)
  PROVE  Stage(m)'
<1>1. /\ scenario' = scenario /\ entered'[m] = entered[m]
      /\ agenda'[m] = agenda[m] /\ inside'[m] = inside[m] /\ reg'[m] = reg[m] /\ comm'[m] = comm[m]
      /\ ptr'[m] = ptr[m] /\ args'[m] = args[m] /\ argv'[m] = argv[m]
  BY Locals DEF Local
<1>2. Grows(entered, entered') /\ Keeps(answers, answers') /\ Longer(entered[m], entered[m])
  BY StepGrows, FiniteCalls
<1> DEFINE W == answers
           V == answers'
           E == entered
           F == entered'
           s == scenario
           ent == entered[m]
           ag == agenda[m]
           ins == inside[m]
           rg == reg[m]
           cm == comm[m]
           pt == ptr[m]
           ar == args[m]
           av == argv[m]
<1>3. StageOf(m, s, ent, E, W, ag, ins, rg, cm, pt, ar, av)
  BY DEF Stage
<1>4. Grows(E, F) /\ Keeps(W, V) /\ Longer(ent, ent)
  BY <1>2
<1> HIDE DEF W, V, E, F, s, ent, ag, ins, rg, cm, pt, ar, av
<1>5. StageOf(m, s, ent, F, V, ag, ins, rg, cm, pt, ar, av)
  BY <1>3, <1>4, StageStays
<1>6. StageOf(m, scenario, entered[m], entered', answers', agenda[m], inside[m], reg[m], comm[m],
              ptr[m], args[m], argv[m])
  BY <1>5 DEF W, V, E, F, s, ent, ag, ins, rg, cm, pt, ar, av
<1>7. StageOf(m, scenario', entered'[m], entered', answers', agenda'[m], inside'[m], reg'[m], comm'[m],
              ptr'[m], args'[m], argv'[m])
  BY <1>1, <1>6, Zenon
<1> QED  BY <1>7 DEF Stage

-----------------------------------------------------------------------------
(* A communicator is split off.                                            *)

\* What a node does is said by what it is at.
LEMMA Acts ==
  ASSUME StartupInv, NEW n \in Node, Step(n)
  PROVE  /\ agenda[n] # <<>> /\ Todo(n) = agenda[n][1]
         /\ Todo(n).do = "mpi" => (Enter(n) \/ Leave(n)) /\ UNCHANGED startVars
         /\ Todo(n).do # "mpi" => inside[n] = FALSE
         /\ Todo(n).do = "nmpi" => Nmpi(n)
         /\ Todo(n).do = "reduced" => Reduced(n)
         /\ Todo(n).do = "parse" => Parse(n)
         /\ Todo(n).do = "job" => Job(n)
         /\ Todo(n).do = "geometry" => Geometry(n)
         /\ Todo(n).do = "split" => Split(n)
         /\ Todo(n).do = "count" => Count(n)
         /\ Todo(n).do = "colors" => Colors(n)
         /\ Todo(n).do = "made" => Made(n)
         /\ Todo(n).do = "declare" => Declare(n)
         /\ Todo(n).do = "settopo" => SetTopo(n)
         /\ Todo(n).do = "neighbours" => Neighbours(n)
<1>1. Leave(n) /\ UNCHANGED startVars => agenda[n] # <<>> /\ Todo(n).do = "mpi"
  BY Left
<1>2. inside[n] \in BOOLEAN
  BY DEF StartupInv, ShapeOK
<1> QED  BY <1>1, <1>2, Kinds DEF At, Todo

LEMMA GoesTo ==
  ASSUME StartupInv, NEW n \in Node, NEW items, Goes(n, items)
  PROVE  /\ agenda'[n] = items \o Tail(agenda[n])
         /\ UNCHANGED <<inside, entered, answers, reg>>
  BY DEF Goes, Instead, StartupInv, ShapeOK

LEMMA SetTo ==
  ASSUME StartupInv, NEW n \in Node, NEW o \in Objects, NEW x, SetComm(n, o, x)
  PROVE  comm'[n][o] = x /\ \A q \in Objects \ {o} : comm'[n][q] = comm[n][q]
<1>1. DOMAIN comm = Node /\ DOMAIN comm[n] = Objects
  BY DEF StartupInv, ShapeOK, Holds, NodeOK, CommsOK
<1> QED  BY <1>1 DEF SetComm

LEMMA OwnObject ==
  ASSUME StartupInv, NEW n \in Node
  PROVE  /\ \A o \in Objects : Object(n, o) = o
         /\ \A p \in {"alloc", "job", "def"} : Object(n, p) = ptr[n][p]
         /\ ptr[n]["alloc"] = "A"
<1>1. DOMAIN ptr[n] = {"alloc", "job", "def"} /\ ptr[n]["alloc"] = "A"
  BY DEF StartupInv, Holds, NodeOK, CommsOK
<1> QED  BY <1>1 DEF Object, Objects

LEMMA PartIs ==
  ASSUME NEW do, NEW o, NEW color, NEW into, NEW it, it = Part(do, o, color, into)
  PROVE  it.do = do /\ it.comm = o /\ it.color = color /\ it.key = 0 /\ it.into = into
  BY DEF Part

\* The part of the split that follows.
After(it, d) == [it EXCEPT !.do = d]
AfterOn(it, d, p) == [it EXCEPT !.do = d, !.comm = p]

LEMMA PartNext ==
  ASSUME NEW do, NEW o, NEW color, NEW into, NEW it, it = Part(do, o, color, into), NEW d, NEW p
  PROVE  AfterOn(it, d, p) = Part(d, p, color, into) /\ After(it, d) = Part(d, o, color, into)
<1>1. After(it, d) = Part(d, o, color, into)
  BY DEF Part, After
<1>2. AfterOn(it, d, p) = Part(d, p, color, into)
  <2> DEFINE new == AfterOn(it, d, p)
             F == {"do", "comm", "color", "key", "into"}
  <2>1. /\ DOMAIN it = F /\ it.color = color /\ it.key = 0 /\ it.into = into
        /\ it = [f \in F |-> it[f]]
    BY DEF Part
  <2>2. /\ DOMAIN new = F /\ new.do = d /\ new.comm = p
        /\ new.color = color /\ new.key = 0 /\ new.into = into
    BY <2>1 DEF AfterOn
  <2>3. new = [f \in F |-> new[f]]
    BY <2>1, <2>2 DEF AfterOn
  <2> HIDE DEF new
  <2>4. new = Part(d, p, color, into)
    BY <2>2, <2>3 DEF Part
  <2> QED  BY <2>4 DEF new
<1> QED  BY <1>1, <1>2

LEMMA MpiIs ==
  ASSUME NEW o, NEW op, NEW type, NEW arg, NEW it, it = Mpi(o, op, type, arg)
  PROVE  CallTo(it, o, op) /\ it.arg = arg /\ it.do = "mpi" /\ it.comm = o /\ it.op = op
  BY DEF Mpi, CallTo

\* The steps of a split that are no calls of MPI.
Splits(n, c, from, color, into, o, rest) ==
  /\ from \in {"alloc", "job"} /\ o \in {"A", "J"} /\ into \in {"job", "def"}
  /\ o # ObjectOf(into) /\ IsSequence(rest) /\ ptr[n][from] = o /\ c = comm[n][o].mpicomm

LEMMA IntoObject ==
  ASSUME NEW into \in {"job", "def"}
  PROVE  ObjectOf(into) \in Objects /\ into # "sub"
  BY DEF ObjectOf, Objects

LEMMA Asked_Step ==
  ASSUME StartupInv, NEW n \in Node, Step(n), NEW c, NEW from, NEW color, NEW into, NEW o, NEW rest,
         Splits(n, c, from, color, into, o, rest),
         Asked(entered[n], agenda[n], comm[n][ObjectOf(into)], c, from, color, into, rest)
  PROVE  /\ UNCHANGED <<entered, answers, inside, reg>> /\ agenda'[n] # <<>>
         /\ \A q \in Objects \ {ObjectOf(into)} : comm'[n][q] = comm[n][q]
         /\ \A p \in {"alloc", "job", "def"} \ {into} : ptr'[n][p] = ptr[n][p]
         /\ AtMax(entered[n], agenda'[n], comm'[n][ObjectOf(into)], ptr'[n][into],
                  c, color, into, o, rest)
<1> DEFINE it == Todo(n)
           q == ObjectOf(into)
           a == Mpi(Object(n, it.comm), "max", "double", <<it.color>>)
           b == [it EXCEPT !.do = "count", !.comm = Object(n, it.comm)]
           new == [Blank EXCEPT !.color = it.color, !.key = it.key]
<1>1. /\ agenda[n] = Then(Part("split", from, color, into), rest) /\ IsSequence(rest)
      /\ into \in {"job", "def"} /\ ptr[n][from] = o /\ from \in {"alloc", "job", "def"}
      /\ NoSplit(entered[n], c)
  BY DEF Asked, Splits
<1>2. it = Part("split", from, color, into) /\ Tail(agenda[n]) = rest
  BY <1>1, ThenIs DEF Todo
<1>3. it.do = "split" /\ it.comm = from /\ it.color = color /\ it.into = into
  BY <1>2, PartIs
<1>4. Split(n)
  BY <1>3, Acts
<1>5. Object(n, it.comm) = o
  BY <1>1, <1>3, OwnObject
<1>6. /\ SetComm(n, q, new) /\ Goes(n, <<a, b>>)
      /\ ptr' = [ptr EXCEPT ![n][into] = q]
  BY <1>1, <1>3, <1>4 DEF Split
<1>7. a = Mpi(o, "max", "double", <<it.color>>) /\ b = Part("count", o, color, into)
  <2>1. AfterOn(it, "count", o) = Part("count", o, color, into)
    BY <1>2, PartNext
  <2>2. b = AfterOn(it, "count", o)
    BY <1>5 DEF AfterOn
  <2> HIDE DEF b
  <2> QED  BY <1>5, <2>1, <2>2
<1>8. CallTo(a, o, "max")
  BY <1>7, MpiIs
<1> HIDE DEF a, b, new
<1>9. /\ agenda'[n] = Then(a, Then(b, rest)) /\ UNCHANGED <<inside, entered, answers, reg>>
  <2>1. agenda'[n] = <<a, b>> \o rest /\ UNCHANGED <<inside, entered, answers, reg>>
    BY <1>2, <1>6, GoesTo
  <2> QED  BY <1>1, <2>1, Instead2
<1>10. agenda'[n] # <<>> /\ agenda'[n][1] = a
  <2>1. IsSequence(Then(b, rest))
    BY <1>1, ThenIs
  <2> QED  BY <1>9, <2>1, ThenIs
<1>11. comm'[n][q] = new /\ \A p \in Objects \ {q} : comm'[n][p] = comm[n][p]
  <2>1. q \in Objects
    BY <1>1, IntoObject
  <2> HIDE DEF q
  <2> QED  BY <1>6, <2>1, SetTo
<1>12. ptr'[n][into] = q /\ \A p \in {"alloc", "job", "def"} \ {into} : ptr'[n][p] = ptr[n][p]
  <2>1. DOMAIN ptr = Node /\ DOMAIN ptr[n] = {"alloc", "job", "def"}
    BY DEF StartupInv, ShapeOK, Holds, NodeOK, CommsOK
  <2> HIDE DEF q
  <2> QED  BY <1>1, <1>6, <2>1
<1>13. Parts \subseteq DOMAIN new /\ new.mpicomm = None /\ new.color = color
  BY <1>3 DEF Parts, new, Blank
<1>14. Begun(comm'[n][q], ptr'[n][into], color, into)
  BY <1>11, <1>12, <1>13 DEF Begun
<1>15. AtMax(entered[n], agenda'[n], comm'[n][q], ptr'[n][into], c, color, into, o, rest)
  BY <1>1, <1>7, <1>8, <1>9, <1>10, <1>14 DEF AtMax
<1> QED  BY <1>9, <1>10, <1>11, <1>12, <1>15

\* Nothing that a stage is about has changed.
Still(n) ==
  /\ UNCHANGED <<entered, answers, comm, ptr, args, argv>>
  /\ agenda'[n] = agenda[n] /\ inside'[n] = inside[n] /\ reg'[n] = reg[n]

LEMMA AbortStill ==
  ASSUME NEW n, Abort, UNCHANGED <<args, argv>>
  PROVE  Still(n)
  BY DEF Abort, Still, collVars

LEMMA AtCount_Step ==
  ASSUME StartupInv, NEW n \in Node, Step(n), NEW c, NEW from, NEW color, NEW into, NEW o, NEW rest,
         Splits(n, c, from, color, into, o, rest),
         AtCount(entered[n], agenda[n], comm[n][ObjectOf(into)], ptr[n][into], c, color, into, o, rest)
  PROVE  /\ UNCHANGED <<entered, answers, comm, ptr>>
         /\ \/ Still(n)
            \/ /\ agenda'[n] # <<>>
               /\ AtSum(entered[n], agenda'[n], comm[n][ObjectOf(into)], ptr[n][into],
                        c, color, into, o, rest)
<1> DEFINE it == Todo(n)
           cmax == 1 + reg[n].data[1]
           ones == [i \in 1 .. cmax |-> IF i - 1 = it.color THEN 1 ELSE 0]
           a == Mpi(it.comm, "sum", "double", ones)
           b == [it EXCEPT !.do = "colors"]
<1>1. agenda[n] = Then(Part("count", o, color, into), rest) /\ IsSequence(rest)
  BY DEF AtCount, Splits
<1>2. it = Part("count", o, color, into) /\ Tail(agenda[n]) = rest
  BY <1>1, ThenIs DEF Todo
<1>3. it.do = "count" /\ it.comm = o
  BY <1>2, PartIs
<1>4. Count(n)
  BY <1>3, Acts
<1> HIDE DEF ones
<1>5. CASE Abort
  <2>1. UNCHANGED <<args, argv>>
    BY <1>4 DEF Count, startVars
  <2>2. Still(n)
    BY <1>5, <2>1, AbortStill
  <2> QED  BY <2>2 DEF Still
<1>6. CASE Goes(n, <<a, b>>) /\ UNCHANGED <<comm, ptr>>
  <2>1. b = Part("colors", o, color, into)
    <3>1. After(it, "colors") = Part("colors", o, color, into)
      BY <1>2, PartNext
    <3> QED  BY <3>1 DEF After
  <2>2. CallTo(a, o, "sum")
    BY <1>3, MpiIs
  <2> HIDE DEF a, b
  <2>3. agenda'[n] = Then(a, Then(b, rest)) /\ UNCHANGED <<entered, answers>>
    <3>1. agenda'[n] = <<a, b>> \o rest /\ UNCHANGED <<entered, answers>>
      BY <1>2, <1>6, GoesTo
    <3> QED  BY <1>1, <3>1, Instead2
  <2>4. agenda'[n] # <<>> /\ agenda'[n][1] = a
    <3>1. IsSequence(Then(b, rest))
      BY <1>1, ThenIs
    <3> QED  BY <2>3, <3>1, ThenIs
  <2> QED  BY <1>6, <2>1, <2>2, <2>3, <2>4 DEF AtSum, AtCount
<1>7. Abort \/ (Goes(n, <<a, b>>) /\ UNCHANGED <<comm, ptr>>)
  BY <1>4 DEF Count, ones
<1> QED  BY <1>5, <1>6, <1>7

LEMMA AtColors_Step ==
  ASSUME StartupInv, NEW n \in Node, Step(n), NEW c, NEW from, NEW color, NEW into, NEW o, NEW rest,
         Splits(n, c, from, color, into, o, rest),
         AtColors(entered[n], answers, agenda[n], reg[n], comm[n][ObjectOf(into)], ptr[n][into],
                  c, color, into, o, rest)
  PROVE  /\ UNCHANGED <<entered, answers, ptr>>
         /\ \A q \in Objects \ {ObjectOf(into)} : comm'[n][q] = comm[n][q]
         /\ \/ Still(n)
            \/ /\ agenda'[n] # <<>>
               /\ AtSplit(entered[n], answers, agenda'[n], inside'[n], comm'[n][ObjectOf(into)],
                          ptr[n][into], c, color, into, o, rest)
<1> DEFINE it == Todo(n)
           q == ObjectOf(into)
           x == comm[n][q]
           arg == [color |-> it.color, key |-> it.key]
           a == Mpi(it.comm, "split", None, arg)
           b == [it EXCEPT !.do = "made"]
           many == Distinct(reg[n].data)
<1>1. /\ agenda[n] = Then(Part("colors", o, color, into), rest) /\ IsSequence(rest)
      /\ into \in {"job", "def"} /\ Begun(x, ptr[n][into], color, into) /\ NoSplit(entered[n], c)
      /\ c \in DOMAIN entered[n] /\ <<c, Len(entered[n][c])>> \in DOMAIN answers
      /\ reg[n].data = answers[<<c, Len(entered[n][c])>>]
  BY DEF AtColors, Splits
<1>2. it = Part("colors", o, color, into) /\ Tail(agenda[n]) = rest
  BY <1>1, ThenIs DEF Todo
<1>3. it.do = "colors" /\ it.comm = o /\ it.color = color /\ it.key = 0 /\ it.into = into
  BY <1>2, PartIs
<1>4. Colors(n) /\ inside[n] = FALSE
  BY <1>3, Acts
<1>5. q \in Objects
  BY <1>1, IntoObject
<1>6. \/ Abort
      \/ comm' = [comm EXCEPT ![n][q].ncolors = many] /\ Goes(n, <<a, b>>) /\ UNCHANGED ptr
  BY <1>3, <1>4 DEF Colors
<1>7. CASE Abort
  <2>1. UNCHANGED <<args, argv>>
    BY <1>4 DEF Colors, startVars
  <2>2. Still(n)
    BY <1>7, <2>1, AbortStill
  <2> QED  BY <2>2 DEF Still
<1>8. CASE comm' = [comm EXCEPT ![n][q].ncolors = many] /\ Goes(n, <<a, b>>) /\ UNCHANGED ptr
  <2>1. b = Part("made", o, color, into) /\ a = Mpi(o, "split", None, [color |-> color, key |-> 0])
    <3>1. After(it, "made") = Part("made", o, color, into)
      <4> HIDE DEF it
      <4> QED  BY <1>2, PartNext
    <3> QED  BY <1>3, <3>1 DEF After
  <2> HIDE DEF a, b, many, q
  <2>2. agenda'[n] = Then(a, Then(b, rest)) /\ UNCHANGED <<inside, entered, answers, reg>>
    <3>1. agenda'[n] = <<a, b>> \o rest /\ UNCHANGED <<inside, entered, answers, reg>>
      BY <1>2, <1>8, GoesTo
    <3> QED  BY <1>1, <3>1, Instead2
  <2>3. agenda'[n] # <<>>
    <3>1. IsSequence(Then(b, rest))
      BY <1>1, ThenIs
    <3> QED  BY <2>2, <3>1, ThenIs
  <2>4. /\ comm'[n][q] = [x EXCEPT !.ncolors = many]
        /\ \A p \in Objects \ {q} : comm'[n][p] = comm[n][p]
    <3>1. DOMAIN comm = Node /\ DOMAIN comm[n] = Objects
      BY DEF StartupInv, ShapeOK, Holds, NodeOK, CommsOK
    <3> QED  BY <1>5, <1>8, <3>1
  <2> DEFINE y == comm'[n][q]
  <2>5. y.ncolors = many /\ Begun(y, ptr[n][into], color, into)
    <3>1. y = [x EXCEPT !.ncolors = many]
      BY <2>4
    <3> HIDE DEF y, x
    <3> QED  BY <1>1, <3>1 DEF Begun, Parts
  <2>6. Counted(answers, c, Len(entered[n][c]), y)
    BY <1>1, <2>5 DEF Counted, many
  <2>7. AtSplit(entered[n], answers, agenda'[n], inside'[n], y, ptr[n][into], c, color, into, o, rest)
    <3> HIDE DEF y
    <3>1. inside'[n] = FALSE
      BY <1>4, <2>2
    <3> QED  BY <1>1, <2>1, <2>2, <2>5, <2>6, <3>1 DEF AtSplit
  <2> QED  BY <1>8, <2>2, <2>3, <2>4, <2>7 DEF q
<1> QED  BY <1>6, <1>7, <1>8

LEMMA AtMade_Step ==
  ASSUME StartupInv, NEW n \in Node, Step(n), NEW c, NEW from, NEW color, NEW into, NEW o, NEW rest,
         Splits(n, c, from, color, into, o, rest),
         AtMade(entered[n], entered, answers, agenda[n], reg[n], comm[n][ObjectOf(into)], ptr[n][into],
                c, color, into, o, rest)
  PROVE  /\ UNCHANGED <<entered, answers, ptr>>
         /\ \A q \in Objects \ {ObjectOf(into)} : comm'[n][q] = comm[n][q]
         /\ agenda'[n] = rest /\ ptr[n][into] = ObjectOf(into)
         /\ SplitOff(n, entered[n], entered, answers, c, comm'[n][ObjectOf(into)])
         /\ comm'[n][ObjectOf(into)].color = color
<1> DEFINE it == Todo(n)
           q == ObjectOf(into)
           x == comm[n][q]
           made == reg[n].comm
           new == Completed(n, x, made)
           ent == entered[n]
<1>1. /\ agenda[n] = Then(Part("made", o, color, into), rest) /\ IsSequence(rest)
      /\ into \in {"job", "def"} /\ Begun(x, ptr[n][into], color, into)
  BY DEF AtMade, Splits
<1>2. it = Part("made", o, color, into) /\ Tail(agenda[n]) = rest
  BY <1>1, ThenIs DEF Todo
<1>3. it.do = "made" /\ it.into = into
  BY <1>2, PartIs
<1>4. Made(n)
  BY <1>3, Acts
<1>5. q \in Objects
  BY <1>1, IntoObject
<1>6. SetComm(n, q, new) /\ Goes(n, <<>>) /\ UNCHANGED ptr
  BY <1>3, <1>4 DEF Made
<1> HIDE DEF q
<1>7. comm'[n][q] = new /\ \A p \in Objects \ {q} : comm'[n][p] = comm[n][p]
  BY <1>5, <1>6, SetTo
<1>8. agenda'[n] = rest /\ UNCHANGED <<entered, answers>>
  <2>1. agenda'[n] = <<>> \o rest /\ UNCHANGED <<entered, answers>>
    BY <1>2, <1>6, GoesTo
  <2> QED  BY <1>1, <2>1, Instead0
<1>9. /\ Parts \subseteq DOMAIN new /\ new.mpicomm = made /\ new.num_nodes = Len(made.group)
      /\ new.nodeid = RankIn(n, made) /\ new.ncolors = x.ncolors /\ new.color = color
  <2> HIDE DEF x, made
  <2> QED  BY <1>1 DEF Begun, Completed, Parts
<1>10. PICK k \in Turns(ent, c) : /\ FirstSplit(ent, c, k, color)
                                 /\ IsMade(entered, c, k, color, made) /\ Counted(answers, c, k - 1, x)
  BY DEF AtMade, q
<1> HIDE DEF new, x, made, ent
<1>11. Counted(answers, c, k - 1, new)
  BY <1>9, <1>10 DEF Counted
<1>12. SplitOff(n, ent, entered, answers, c, new)
  BY <1>9, <1>10, <1>11 DEF SplitOff
<1> QED  BY <1>1, <1>6, <1>7, <1>8, <1>9, <1>12 DEF Begun, ent, q

\* A node makes the call that its agenda begins with, or comes back from it.
MadeCall(n, c, it) ==
  /\ Extended(entered[n], entered'[n], c, [op |-> it.op, type |-> it.type, arg |-> it.arg])
  /\ agenda'[n] = agenda[n] /\ inside'[n] = TRUE /\ inside[n] = FALSE /\ UNCHANGED <<answers, reg>>
Returns(n, c, it, tail) ==
  /\ agenda'[n] = tail /\ inside[n] = TRUE /\ inside'[n] = FALSE /\ UNCHANGED entered
  /\ c \in DOMAIN entered[n] /\ Len(entered[n][c]) \in Nat \ {0}
  /\ Len(entered[n][c]) \in Turns(entered[n], c) /\ Keeps(answers, answers')
  /\ it.op # "alltoall" => /\ <<c, Len(entered[n][c])>> \in DOMAIN answers'
                           /\ reg'[n].data = answers'[<<c, Len(entered[n][c])>>]
  /\ it.op = "split" => IsMade(entered, c, Len(entered[n][c]),
                               entered[n][c][Len(entered[n][c])].arg.color, reg'[n].comm)

LEMMA CallSteps ==
  ASSUME StartupInv, NEW n \in Node, Step(n), NEW it, NEW tail, IsSequence(tail),
         agenda[n] = Then(it, tail), it.do = "mpi", NEW c, c = Struct(n, it.comm).mpicomm
  PROVE  /\ UNCHANGED <<comm, ptr, args, argv>>
         /\ MadeCall(n, c, it) \/ Returns(n, c, it, tail)
<1>1. Todo(n) = it /\ Tail(agenda[n]) = tail
  BY ThenIs DEF Todo
<1>2. (Enter(n) \/ Leave(n)) /\ UNCHANGED startVars
  BY <1>1, Acts
<1>3. CASE Enter(n)
  <2>1. /\ Extended(entered[n], entered'[n], c, [op |-> it.op, type |-> it.type, arg |-> it.arg])
        /\ agenda'[n] = agenda[n] /\ inside[n] = FALSE /\ inside'[n] = TRUE
        /\ UNCHANGED <<answers, reg, comm, ptr, args, argv>>
    BY <1>1, <1>2, <1>3, Entered
  <2> QED  BY <2>1 DEF MadeCall
<1>4. CASE Leave(n)
  <2>1. c = Struct(n, Todo(n).comm).mpicomm
    BY <1>1
  <2>2. /\ inside[n] = TRUE
        /\ c \in DOMAIN entered[n] /\ Len(entered[n][c]) \in Nat \ {0}
        /\ Len(entered[n][c]) \in Turns(entered[n], c)
        /\ agenda'[n] = Tail(agenda[n]) /\ inside'[n] = FALSE
        /\ UNCHANGED <<entered, comm, ptr, args, argv>> /\ Keeps(answers, answers')
        /\ Todo(n).op # "alltoall" =>
             /\ <<c, Len(entered[n][c])>> \in DOMAIN answers'
             /\ reg'[n].data = answers'[<<c, Len(entered[n][c])>>]
        /\ Todo(n).op = "split" =>
             IsMade(entered, c, Len(entered[n][c]),
                    entered[n][c][Len(entered[n][c])].arg.color, reg'[n].comm)
    BY <1>2, <1>4, <2>1, Left
  <2>3. Todo(n).op = it.op
    BY <1>1
  <2>4. Tail(agenda[n]) = tail
    BY <1>1
  <2> QED  BY <2>2, <2>3, <2>4 DEF Returns
<1> QED  BY <1>2, <1>3, <1>4

\* Where the split of communicator c into object q of node n will be.
DividingNow(n, c, from, color, into, o, rest) ==
  Dividing(entered[n], entered, answers, agenda[n], inside[n], reg[n], comm[n][ObjectOf(into)],
           ptr[n][into], c, from, color, into, o, rest)

LEMMA PartsKnown ==
  ASSUME NEW n \in Node, StartupInv, NEW c, NEW from, NEW color, NEW into, NEW o, NEW rest,
         Splits(n, c, from, color, into, o, rest)
  PROVE  /\ IsSequence(rest) /\ c = Struct(n, o).mpicomm /\ o \in Objects
         /\ \A do : IsSequence(Then(Part(do, o, color, into), rest)) /\ Then(Part(do, o, color, into), rest) # <<>>
<1>1. o \in Objects /\ IsSequence(rest) /\ c = comm[n][o].mpicomm
  BY DEF Splits, Objects
<1>2. c = Struct(n, o).mpicomm
  BY <1>1, OwnObject DEF Struct
<1> QED  BY <1>1, <1>2, ThenIs

LEMMA AtMax_Step ==
  ASSUME StartupInv, NEW n \in Node, Step(n), NEW c, NEW from, NEW color, NEW into, NEW o, NEW rest,
         Splits(n, c, from, color, into, o, rest),
         AtMax(entered[n], agenda[n], comm[n][ObjectOf(into)], ptr[n][into], c, color, into, o, rest)
  PROVE  /\ UNCHANGED <<comm, ptr>> /\ DOMAIN entered'[n] \subseteq DOMAIN entered[n] \cup {c}
         /\ DividingNow(n, c, from, color, into, o, rest)'
<1> DEFINE it == agenda[n][1]
           tail == Then(Part("count", o, color, into), rest)
<1>1. /\ CallTo(it, o, "max") /\ agenda[n] = Then(it, tail) /\ NoSplit(entered[n], c)
      /\ Begun(comm[n][ObjectOf(into)], ptr[n][into], color, into)
  BY DEF AtMax
<1>2. /\ it.do = "mpi" /\ it.comm = o /\ it.op = "max" /\ c = Struct(n, it.comm).mpicomm
      /\ IsSequence(tail) /\ tail # <<>>
  BY <1>1, PartsKnown DEF CallTo
<1> HIDE DEF it, tail
<1>3. UNCHANGED <<comm, ptr>> /\ (MadeCall(n, c, it) \/ Returns(n, c, it, tail))
  BY <1>1, <1>2, CallSteps
<1>4. CASE MadeCall(n, c, it)
  <2>1. /\ Extended(entered[n], entered'[n], c, [op |-> it.op, type |-> it.type, arg |-> it.arg])
        /\ agenda'[n] = agenda[n]
    BY <1>4 DEF MadeCall
  <2>2. NoSplit(entered'[n], c)
    BY <1>1, <1>2, <2>1, NoSplitOn, FiniteCalls
  <2>3. agenda[n] # <<>>
    BY <1>1, <1>2, ThenIs
  <2>4. AtMax(entered'[n], agenda'[n], comm'[n][ObjectOf(into)], ptr'[n][into], c, color, into, o, rest)
    BY <1>1, <1>3, <2>1, <2>2 DEF AtMax, it, tail
  <2>5. DOMAIN entered'[n] \subseteq DOMAIN entered[n] \cup {c}
    BY <2>1 DEF Extended
  <2> QED  BY <1>3, <2>1, <2>3, <2>4, <2>5 DEF DividingNow, Dividing
<1>5. CASE Returns(n, c, it, tail)
  <2>1. agenda'[n] = tail /\ UNCHANGED entered
    BY <1>5 DEF Returns
  <2>2. AtCount(entered'[n], agenda'[n], comm'[n][ObjectOf(into)], ptr'[n][into], c, color, into, o, rest)
    BY <1>1, <1>3, <2>1 DEF AtCount, tail
  <2> QED  BY <1>2, <1>3, <2>1, <2>2 DEF DividingNow, Dividing
<1> QED  BY <1>3, <1>4, <1>5

LEMMA AtSum_Step ==
  ASSUME StartupInv, NEW n \in Node, Step(n), NEW c, NEW from, NEW color, NEW into, NEW o, NEW rest,
         Splits(n, c, from, color, into, o, rest),
         AtSum(entered[n], agenda[n], comm[n][ObjectOf(into)], ptr[n][into], c, color, into, o, rest)
  PROVE  /\ UNCHANGED <<comm, ptr>> /\ DOMAIN entered'[n] \subseteq DOMAIN entered[n] \cup {c}
         /\ DividingNow(n, c, from, color, into, o, rest)'
<1> DEFINE it == agenda[n][1]
           tail == Then(Part("colors", o, color, into), rest)
<1>1. /\ CallTo(it, o, "sum") /\ agenda[n] = Then(it, tail) /\ NoSplit(entered[n], c)
      /\ Begun(comm[n][ObjectOf(into)], ptr[n][into], color, into)
  BY DEF AtSum
<1>2. /\ it.do = "mpi" /\ it.comm = o /\ it.op = "sum" /\ c = Struct(n, it.comm).mpicomm
      /\ IsSequence(tail) /\ tail # <<>>
  BY <1>1, PartsKnown DEF CallTo
<1> HIDE DEF it, tail
<1>3. UNCHANGED <<comm, ptr>> /\ (MadeCall(n, c, it) \/ Returns(n, c, it, tail))
  BY <1>1, <1>2, CallSteps
<1>4. CASE MadeCall(n, c, it)
  <2>1. /\ Extended(entered[n], entered'[n], c, [op |-> it.op, type |-> it.type, arg |-> it.arg])
        /\ agenda'[n] = agenda[n]
    BY <1>4 DEF MadeCall
  <2>2. NoSplit(entered'[n], c)
    BY <1>1, <1>2, <2>1, NoSplitOn, FiniteCalls
  <2>3. agenda[n] # <<>>
    BY <1>1, <1>2, ThenIs
  <2>4. AtSum(entered'[n], agenda'[n], comm'[n][ObjectOf(into)], ptr'[n][into], c, color, into, o, rest)
    BY <1>1, <1>3, <2>1, <2>2 DEF AtSum, it, tail
  <2>5. DOMAIN entered'[n] \subseteq DOMAIN entered[n] \cup {c}
    BY <2>1 DEF Extended
  <2> QED  BY <1>3, <2>1, <2>3, <2>4, <2>5 DEF DividingNow, Dividing
<1>5. CASE Returns(n, c, it, tail)
  <2>1. /\ agenda'[n] = tail /\ UNCHANGED entered /\ c \in DOMAIN entered[n]
        /\ <<c, Len(entered[n][c])>> \in DOMAIN answers'
        /\ reg'[n].data = answers'[<<c, Len(entered[n][c])>>]
    BY <1>2, <1>5 DEF Returns
  <2>2. AtColors(entered'[n], answers', agenda'[n], reg'[n], comm'[n][ObjectOf(into)], ptr'[n][into],
                 c, color, into, o, rest)
    BY <1>1, <1>3, <2>1 DEF AtColors, tail
  <2> QED  BY <1>2, <1>3, <2>1, <2>2 DEF DividingNow, Dividing
<1> QED  BY <1>3, <1>4, <1>5

LEMMA AtSplit_Step ==
  ASSUME StartupInv, NEW n \in Node, Step(n), NEW c, NEW from, NEW color, NEW into, NEW o, NEW rest,
         Splits(n, c, from, color, into, o, rest),
         AtSplit(entered[n], answers, agenda[n], inside[n], comm[n][ObjectOf(into)], ptr[n][into],
                 c, color, into, o, rest)
  PROVE  /\ UNCHANGED <<comm, ptr>> /\ DOMAIN entered'[n] \subseteq DOMAIN entered[n] \cup {c}
         /\ DividingNow(n, c, from, color, into, o, rest)'
<1> DEFINE arg == [color |-> color, key |-> 0]
           it == Mpi(o, "split", None, arg)
           tail == Then(Part("made", o, color, into), rest)
           x == comm[n][ObjectOf(into)]
           ent == entered[n]
           new == entered'[n]
<1>1. /\ agenda[n] = Then(it, tail) /\ c \in DOMAIN ent
      /\ Begun(x, ptr[n][into], color, into)
      /\ IF inside[n] THEN FirstSplit(ent, c, Len(ent[c]), color) /\ Counted(answers, c, Len(ent[c]) - 1, x)
         ELSE NoSplit(ent, c) /\ Counted(answers, c, Len(ent[c]), x)
  BY DEF AtSplit
<1>2. /\ it.do = "mpi" /\ it.comm = o /\ it.op = "split" /\ it.arg = arg /\ c = Struct(n, it.comm).mpicomm
      /\ IsSequence(tail) /\ tail # <<>>
  BY <1>1, PartsKnown DEF Mpi
<1> HIDE DEF it, tail, arg
<1>3. UNCHANGED <<comm, ptr>> /\ (MadeCall(n, c, it) \/ Returns(n, c, it, tail))
  BY <1>1, <1>2, CallSteps
<1>4. CASE MadeCall(n, c, it)
  <2> DEFINE call == [op |-> it.op, type |-> it.type, arg |-> it.arg]
  <2>1. Extended(ent, new, c, call) /\ agenda'[n] = agenda[n] /\ inside'[n] = TRUE /\ inside[n] = FALSE
        /\ UNCHANGED answers
    BY <1>4 DEF MadeCall
  <2>2. call.op = "split" /\ call.arg = arg
    BY <1>2
  <2>3. agenda[n] # <<>>
    BY <1>1, <1>2, ThenIs
  <2> HIDE DEF call, x, ent, new
  <2>4. Finite(ent)
    BY FiniteCalls DEF ent
  <2>5. NoSplit(ent, c) /\ Counted(answers, c, Len(ent[c]), x)
    BY <1>1, <2>1
  <2>6. IsFirst(new, c, Len(new[c])) /\ new[c][Len(new[c])] = call /\ Len(new[c]) - 1 = Len(ent[c])
        /\ DOMAIN new = DOMAIN ent \cup {c}
    BY <1>1, <2>1, <2>2, <2>4, <2>5, FirstNow DEF Extended
  <2>7. FirstSplit(new, c, Len(new[c]), color)
    BY <2>2, <2>6 DEF FirstSplit, arg
  <2>8. Counted(answers', c, Len(new[c]) - 1, x)
    BY <2>1, <2>5, <2>6
  <2>9. c \in DOMAIN new
    BY <2>6
  <2>10. agenda'[n] # <<>> /\ agenda'[n] = Then(it, tail) /\ inside'[n] = TRUE
    BY <1>1, <2>1, <2>3
  <2>11. comm'[n][ObjectOf(into)] = x /\ ptr'[n][into] = ptr[n][into]
    BY <1>3 DEF x
  <2>12. AtSplit(new, answers', agenda'[n], inside'[n], x, ptr'[n][into], c, color, into, o, rest)
    BY <1>1, <2>7, <2>8, <2>9, <2>10, <2>11 DEF AtSplit, it, tail, arg
  <2> QED  BY <1>3, <2>6, <2>10, <2>11, <2>12 DEF DividingNow, Dividing, new, ent
<1>5. CASE Returns(n, c, it, tail)
  <2> DEFINE k == Len(ent[c])
  <2>1. /\ agenda'[n] = tail /\ UNCHANGED entered /\ inside[n] = TRUE /\ Keeps(answers, answers')
        /\ k \in Turns(ent, c)
        /\ IsMade(entered, c, k, ent[c][k].arg.color, reg'[n].comm)
    BY <1>2, <1>5 DEF Returns
  <2>2. FirstSplit(ent, c, k, color) /\ Counted(answers, c, k - 1, x)
    BY <1>1, <2>1
  <2>3. ent[c][k].arg.color = color
    BY <2>2 DEF FirstSplit
  <2>4. Counted(answers', c, k - 1, x)
    BY <2>1, <2>2, CountedStays
  <2> HIDE DEF k, x
  <2>5. comm'[n][ObjectOf(into)] = x /\ ptr'[n][into] = ptr[n][into]
    BY <1>3 DEF x
  <2>6. AtMade(ent, entered, answers', agenda'[n], reg'[n], x, ptr[n][into], c, color, into, o, rest)
    BY <1>1, <2>1, <2>2, <2>3, <2>4 DEF AtMade, tail
  <2> QED  BY <1>2, <1>3, <2>1, <2>5, <2>6 DEF DividingNow, Dividing
<1> QED  BY <1>3, <1>4, <1>5

\* The split goes on, or it is done.
LEMMA Dividing_Step ==
  ASSUME StartupInv, NEW n \in Node, Step(n), NEW c, NEW from, NEW color, NEW into, NEW o, NEW rest,
         Splits(n, c, from, color, into, o, rest), DividingNow(n, c, from, color, into, o, rest)
  PROVE  /\ \A q \in Objects \ {ObjectOf(into)} : comm'[n][q] = comm[n][q]
         /\ \A p \in {"alloc", "job", "def"} \ {into} : ptr'[n][p] = ptr[n][p]
         /\ DOMAIN entered'[n] \subseteq DOMAIN entered[n] \cup {c}
         /\ \/ Dividing(entered'[n], entered', answers', agenda'[n], inside'[n], reg'[n],
                        comm'[n][ObjectOf(into)], ptr'[n][into], c, from, color, into, o, rest)
            \/ /\ agenda'[n] = rest /\ ptr'[n][into] = ObjectOf(into)
               /\ comm'[n][ObjectOf(into)].color = color
               /\ SplitOff(n, entered'[n], entered', answers', c, comm'[n][ObjectOf(into)])
<1> SUFFICES /\ \A q \in Objects \ {ObjectOf(into)} : comm'[n][q] = comm[n][q]
             /\ \A p \in {"alloc", "job", "def"} \ {into} : ptr'[n][p] = ptr[n][p]
             /\ DOMAIN entered'[n] \subseteq DOMAIN entered[n] \cup {c}
             /\ \/ DividingNow(n, c, from, color, into, o, rest)'
                \/ /\ agenda'[n] = rest /\ ptr'[n][into] = ObjectOf(into)
                   /\ comm'[n][ObjectOf(into)].color = color
                   /\ SplitOff(n, entered'[n], entered', answers', c, comm'[n][ObjectOf(into)])
  BY DEF DividingNow
<1> DEFINE q == ObjectOf(into)
           x == comm[n][q]
           t == ptr[n][into]
           ent == entered[n]
           ag == agenda[n]
<1>1. CASE Asked(ent, ag, x, c, from, color, into, rest)
  <2>1. /\ UNCHANGED <<entered, answers, inside, reg>> /\ agenda'[n] # <<>>
        /\ \A p \in Objects \ {q} : comm'[n][p] = comm[n][p]
        /\ \A p \in {"alloc", "job", "def"} \ {into} : ptr'[n][p] = ptr[n][p]
        /\ AtMax(entered[n], agenda'[n], comm'[n][q], ptr'[n][into], c, color, into, o, rest)
    BY <1>1, Asked_Step
  <2> QED  BY <2>1 DEF DividingNow, Dividing
<1>2. CASE AtMax(ent, ag, x, t, c, color, into, o, rest)
  <2>1. /\ UNCHANGED <<comm, ptr>> /\ DOMAIN entered'[n] \subseteq DOMAIN entered[n] \cup {c}
        /\ DividingNow(n, c, from, color, into, o, rest)'
    BY <1>2, AtMax_Step
  <2> QED  BY <2>1
<1>3. CASE AtCount(ent, ag, x, t, c, color, into, o, rest)
  <2>1. /\ UNCHANGED <<entered, answers, comm, ptr>>
        /\ \/ Still(n)
           \/ /\ agenda'[n] # <<>>
              /\ AtSum(ent, agenda'[n], x, t, c, color, into, o, rest)
    BY <1>3, AtCount_Step
  <2>2. CASE Still(n)
    <3>1. DividingNow(n, c, from, color, into, o, rest)'
      BY <2>2 DEF Still, DividingNow
    <3> QED  BY <2>1, <3>1
  <2>3. CASE agenda'[n] # <<>> /\ AtSum(ent, agenda'[n], x, t, c, color, into, o, rest)
    <3>1. DividingNow(n, c, from, color, into, o, rest)'
      BY <2>1, <2>3 DEF DividingNow, Dividing
    <3> QED  BY <2>1, <3>1
  <2> QED  BY <2>1, <2>2, <2>3
<1>4. CASE AtSum(ent, ag, x, t, c, color, into, o, rest)
  <2>1. /\ UNCHANGED <<comm, ptr>> /\ DOMAIN entered'[n] \subseteq DOMAIN entered[n] \cup {c}
        /\ DividingNow(n, c, from, color, into, o, rest)'
    BY <1>4, AtSum_Step
  <2> QED  BY <2>1
<1>5. CASE AtColors(ent, answers, ag, reg[n], x, t, c, color, into, o, rest)
  <2>1. /\ UNCHANGED <<entered, answers, ptr>>
        /\ \A p \in Objects \ {q} : comm'[n][p] = comm[n][p]
        /\ \/ Still(n)
           \/ /\ agenda'[n] # <<>>
              /\ AtSplit(ent, answers, agenda'[n], inside'[n], comm'[n][q], t, c, color, into, o, rest)
    BY <1>5, AtColors_Step
  <2>2. CASE Still(n)
    <3>1. DividingNow(n, c, from, color, into, o, rest)'
      BY <2>2 DEF Still, DividingNow
    <3> QED  BY <2>1, <3>1
  <2>3. CASE /\ agenda'[n] # <<>>
             /\ AtSplit(ent, answers, agenda'[n], inside'[n], comm'[n][q], t, c, color, into, o, rest)
    <3>1. DividingNow(n, c, from, color, into, o, rest)'
      BY <2>1, <2>3 DEF DividingNow, Dividing
    <3> QED  BY <2>1, <3>1
  <2> QED  BY <2>1, <2>2, <2>3
<1>6. CASE AtSplit(ent, answers, ag, inside[n], x, t, c, color, into, o, rest)
  <2>1. /\ UNCHANGED <<comm, ptr>> /\ DOMAIN entered'[n] \subseteq DOMAIN entered[n] \cup {c}
        /\ DividingNow(n, c, from, color, into, o, rest)'
    BY <1>6, AtSplit_Step
  <2> QED  BY <2>1
<1>7. CASE AtMade(ent, entered, answers, ag, reg[n], x, t, c, color, into, o, rest)
  <2>1. /\ UNCHANGED <<entered, answers, ptr>>
        /\ \A p \in Objects \ {q} : comm'[n][p] = comm[n][p]
        /\ agenda'[n] = rest /\ t = q
        /\ SplitOff(n, ent, entered, answers, c, comm'[n][q])
        /\ comm'[n][q].color = color
    BY <1>7, AtMade_Step
  <2> QED  BY <2>1
<1> QED  BY <1>1, <1>2, <1>3, <1>4, <1>5, <1>6, <1>7 DEF DividingNow, Dividing

\* The colour can be read off.
LEMMA DividingColour ==
  ASSUME NEW ent, NEW E, NEW W, NEW ag, NEW ins, NEW rg, NEW x, NEW q, NEW c, NEW from, NEW color,
         NEW into, NEW o, NEW rest, IsSequence(rest),
         Dividing(ent, E, W, ag, ins, rg, x, q, c, from, color, into, o, rest)
  PROVE  Colour(ag[1], x) = color /\ ag # <<>> /\ ag[1].do \in {"split", "mpi", "count", "colors", "made"}
<1>1. ASSUME NEW do, NEW p, NEW tail, IsSequence(tail), ag = Then(Part(do, p, color, into), tail)
      PROVE  ag[1].do = do /\ ag[1].color = color
  <2>1. ag[1] = Part(do, p, color, into)
    BY <1>1, ThenIs
  <2> QED  BY <2>1, PartIs
<1>2. CASE Asked(ent, ag, x, c, from, color, into, rest)
  <2>1. ag[1].do = "split" /\ ag[1].color = color
    BY <1>1, <1>2 DEF Asked
  <2> QED  BY <2>1 DEF Colour, Dividing
<1>3. CASE AtMax(ent, ag, x, q, c, color, into, o, rest) \/ AtSum(ent, ag, x, q, c, color, into, o, rest)
  <2>1. ag[1].do = "mpi" /\ x.color = color
    BY <1>3 DEF AtMax, AtSum, CallTo, Begun
  <2> QED  BY <2>1 DEF Colour, Dividing
<1>4. CASE AtCount(ent, ag, x, q, c, color, into, o, rest)
  <2>1. ag[1].do = "count" /\ x.color = color
    BY <1>1, <1>4 DEF AtCount, Begun
  <2> QED  BY <2>1 DEF Colour, Dividing
<1>5. CASE AtColors(ent, W, ag, rg, x, q, c, color, into, o, rest)
  <2>1. ag[1].do = "colors" /\ x.color = color
    BY <1>1, <1>5 DEF AtColors, Begun
  <2> QED  BY <2>1 DEF Colour, Dividing
<1>6. CASE AtSplit(ent, W, ag, ins, x, q, c, color, into, o, rest)
  <2> DEFINE it == Mpi(o, "split", None, [color |-> color, key |-> 0])
             tail == Then(Part("made", o, color, into), rest)
  <2>1. ag = Then(it, tail) /\ x.color = color
    BY <1>6 DEF AtSplit, Begun
  <2>2. IsSequence(tail)
    BY ThenIs
  <2>3. it.do = "mpi"
    BY DEF Mpi
  <2> HIDE DEF it, tail
  <2>4. ag[1] = it
    BY <2>1, <2>2, ThenIs
  <2> QED  BY <2>1, <2>3, <2>4 DEF Colour, Dividing
<1>7. CASE AtMade(ent, E, W, ag, rg, x, q, c, color, into, o, rest)
  <2>1. ag[1].do = "made" /\ x.color = color
    BY <1>1, <1>7 DEF AtMade, Begun
  <2> QED  BY <2>1 DEF Colour, Dividing
<1> QED  BY <1>2, <1>3, <1>4, <1>5, <1>6, <1>7 DEF Dividing

-----------------------------------------------------------------------------
(* The stages of the start.                                                *)

\* What is settled stays settled in a step.
LEMMA Settled ==
  ASSUME StartupInv, NEW n \in Node, Step(n)
  PROVE  /\ scenario' = scenario
         /\ \A a : AllocRight(scenario, entered[n], entered, a)
                     => AllocRight(scenario, entered'[n], entered', a)
         /\ \A c, x : SplitOff(n, entered[n], entered, answers, c, x)
                        => SplitOff(n, entered'[n], entered', answers', c, x)
<1>1. Grows(entered, entered') /\ Keeps(answers, answers') /\ Longer(entered[n], entered'[n])
  BY StepGrows DEF Grows
<1>2. scenario' = scenario
  BY Locals DEF Local
<1> QED  BY <1>1, <1>2, AllocStays, SplitOffStays

\* The parts of an agenda are sequences.
LEMMA Agendas ==
  ASSUME StartupInv, NEW n \in Node, NEW p, p = scenario.prog[n]
  PROVE  /\ IsSequence(p) /\ \A i \in 1 .. Len(p) : ProgramCall(p[i])
         /\ IsSequence(Last(p)) /\ IsSequence(Fourth(p)) /\ IsSequence(Third(p))
         /\ IsSequence(Second(p)) /\ IsSequence(First(p))
<1>1. IsSequence(p) /\ \A i \in DOMAIN p : ProgramCall(p[i])
  BY StartupAssumption DEF StartupInv, TypesOK
<1>2. DOMAIN p = 1 .. Len(p)
  BY <1>1 DEF IsSequence
<1>3. IsSequence(Last(p))
  BY <1>1, ThenIs DEF Last
<1>4. IsSequence(Fourth(p))
  BY <1>3, ThenIs DEF Fourth
<1>5. IsSequence(Third(p))
  BY <1>4, ThenIs DEF Third
<1>6. IsSequence(Second(p))
  BY <1>5, ThenIs DEF Second
<1>7. IsSequence(First(p))
  BY <1>6, ThenIs DEF First
<1> QED  BY <1>1, <1>2, <1>3, <1>4, <1>5, <1>6, <1>7

\* The name of a communicator is one longer than that of the communicator it was split off.
LEMMA NameIs ==
  ASSUME NEW E, NEW c, IsSequence(c.name), NEW k, NEW color, NEW x, IsMade(E, c, k, color, x)
  PROVE  IsSequence(x.name) /\ Len(x.name) = Len(c.name) + 1 /\ Len(c.name) \in Nat
<1>1. x.name = Append(c.name, <<k, color>>)
  BY DEF IsMade
<1> QED  BY <1>1, Appended

LEMMA WorldName == IsSequence(World.name) /\ Len(World.name) = 0
<1>1. World.name = <<>>
  BY DEF World
<1> QED  BY <1>1, NoItems

LEMMA AllocName ==
  ASSUME NEW s, NEW ent, NEW E, NEW a, AllocRight(s, ent, E, a)
  PROVE  IsSequence(a.mpicomm.name) /\ Len(a.mpicomm.name) = Depth(s) /\ Depth(s) \in Nat
<1>1. CASE Reduces(s)
  <2>1. PICK k : IsMade(E, World, k, 0, a.mpicomm)
    BY <1>1 DEF AllocRight
  <2>2. IsSequence(a.mpicomm.name) /\ Len(a.mpicomm.name) = Len(World.name) + 1
    BY <2>1, NameIs, WorldName
  <2> QED  BY <1>1, <2>2, WorldName DEF Depth
<1>2. CASE ~Reduces(s)
  BY <1>2, WorldName DEF AllocRight, Depth
<1> QED  BY <1>1, <1>2

LEMMA SplitName ==
  ASSUME NEW n, NEW ent, NEW E, NEW W, NEW c, IsSequence(c.name), NEW x, SplitOff(n, ent, E, W, c, x)
  PROVE  IsSequence(x.mpicomm.name) /\ Len(x.mpicomm.name) = Len(c.name) + 1 /\ Len(c.name) \in Nat
<1>1. PICK k : IsMade(E, c, k, x.color, x.mpicomm)
  BY DEF SplitOff
<1> QED  BY <1>1, NameIs

\* Nothing was called on a communicator with a longer name.
LEMMA TooLong ==
  ASSUME NEW s, NEW ent, Shallow(s, ent), NEW c, Len(c.name) = Depth(s) + 1
  PROVE  NoSplit(ent, c)
<1>1. Depth(s) \in Nat
  BY DEF Depth
<1>2. c \notin DOMAIN ent
  BY <1>1 DEF Shallow
<1> QED  BY <1>2 DEF NoSplit, Turns

LEMMA LeftOver_Step ==
  ASSUME StartupInv, NEW n \in Node, Step(n),
         LeftOver(scenario, entered[n], agenda[n], comm[n], args[n])
  PROVE  FALSE
  BY Acts DEF LeftOver

LEMMA AllocNumber ==
  ASSUME StartupInv, NEW n \in Node
  PROVE  /\ Struct(n, "alloc") = comm[n]["A"] /\ comm[n]["A"].nodeid = n
         /\ Fields \subseteq DOMAIN comm[n]["A"]
<1>1. Fields \subseteq DOMAIN comm[n]["A"] /\ comm[n]["A"].nodeid = n
  BY DEF StartupInv, Holds, NodeOK, AllocOK
<1> QED  BY <1>1, OwnObject DEF Struct

LEMMA Starting_Step ==
  ASSUME StartupInv, NEW n \in Node, Step(n),
         Starting(n, scenario, entered[n], agenda[n], comm[n], ptr[n], argv[n])
  PROVE  Stage(n)'
<1> DEFINE s == scenario
           p == s.prog[n]
           ent == entered[n]
           cm == comm[n]
           pt == ptr[n]
           g == GetIntArray(argv[n], "-qmp-nmpi")
           count == Count0(s)
           items == IF g.a = NULL THEN <<>> ELSE ReduceItems(Struct(n, "alloc").nodeid, g.a[1])
<1>1. /\ agenda[n] = Then([do |-> "nmpi"], First(p)) /\ DOMAIN ent = {} /\ argv[n] = Line(s)
      /\ cm["A"].mpicomm = World /\ cm["A"].num_nodes = Cardinality(Node) /\ Young(cm, pt)
  BY DEF Starting
<1>2. IsSequence(First(p))
  BY Agendas
<1>3. Todo(n) = [do |-> "nmpi"] /\ Tail(agenda[n]) = First(p)
  BY <1>1, <1>2, ThenIs DEF Todo
<1>4. Nmpi(n) /\ inside[n] = FALSE
  <2>1. Todo(n).do = "nmpi"
    BY <1>3
  <2> QED  BY <2>1, Acts
<1>5. Goes(n, items) /\ UNCHANGED <<comm, ptr, args>>
  BY <1>4 DEF Nmpi
<1>6. scenario' = s
  BY Settled
<1>7. g.a = count
  BY <1>1 DEF Count0
<1> HIDE DEF items
<1>8. agenda'[n] = items \o First(p) /\ UNCHANGED <<inside, entered, answers, reg>>
  BY <1>3, <1>5, GoesTo
<1>9. \A c : Turns(ent, c) = {}
  BY <1>1 DEF Turns
<1> HIDE DEF s, p, ent, cm, pt, g, count
<1>10. CASE count = NULL
  <2>1. ~Reduces(s) /\ Size(s) = Cardinality(Node)
    BY <1>10 DEF count, Reduces, Size
  <2>2. items = <<>>
    BY <1>7, <1>10 DEF items
  <2>3. agenda'[n] = First(p)
    BY <1>2, <1>8, <2>2, Instead0
  <2>4. AllocRight(s, ent, entered, cm["A"])
    BY <1>1, <2>1 DEF AllocRight
  <2>5. Shallow(s, ent) /\ NoSplit(ent, cm["A"].mpicomm)
    BY <1>1, <1>9 DEF Shallow, NoSplit
  <2>6. Reading(n, s, ent, entered, agenda'[n], cm, pt)
    BY <1>1, <2>3, <2>4, <2>5 DEF Reading, p
  <2> QED  BY <1>5, <1>6, <1>8, <2>6 DEF Stage, StageOf, ent, cm, pt
<1>11. CASE count # NULL
  <2>1. Reduces(s)
    BY <1>11 DEF count, Reduces
  <2> DEFINE color == IF n < count[1] THEN 0 ELSE 1
             a == Mpi("alloc", "split", None, [color |-> color, key |-> n])
             b == [do |-> "reduced", nmpi |-> count[1]]
  <2>2. items = <<a, b>>
    <3>1. items = ReduceItems(n, count[1])
      BY <1>7, <1>11, AllocNumber DEF items
    <3> QED  BY <3>1 DEF ReduceItems
  <2> HIDE DEF a, b, color
  <2>3. agenda'[n] = Then(a, Then(b, First(p)))
    BY <1>2, <1>8, <2>2, Instead2
  <2>4. inside'[n] = FALSE
    BY <1>4, <1>8
  <2>5. NoSplit(ent, World)
    BY <1>9 DEF NoSplit
  <2>6. AtReduce(n, s, ent, agenda'[n], inside'[n], color)
    BY <2>3, <2>4, <2>5 DEF AtReduce, a, b, p, count
  <2>7. color \in {IF n < Count0(s)[1] THEN 0 ELSE 1}
    BY DEF color, count
  <2>8. Reducing(n, s, ent, entered, agenda'[n], inside'[n], reg[n], cm, pt)
    BY <1>1, <2>1, <2>6, <2>7 DEF Reducing
  <2> QED  BY <1>5, <1>6, <1>8, <2>8 DEF Stage, StageOf, ent, cm, pt
<1> QED  BY <1>10, <1>11

LEMMA Reducing_Step ==
  ASSUME StartupInv, NEW n \in Node, Step(n),
         Reducing(n, scenario, entered[n], entered, agenda[n], inside[n], reg[n], comm[n], ptr[n])
  PROVE  Stage(n)'
<1> DEFINE s == scenario
           p == s.prog[n]
           ent == entered[n]
           new == entered'[n]
           cm == comm[n]
           pt == ptr[n]
           color == IF n < Count0(s)[1] THEN 0 ELSE 1
           b == [do |-> "reduced", nmpi |-> Count0(s)[1]]
           tail == Then(b, First(p))
<1>1. /\ Reduces(s) /\ cm["A"].mpicomm = World /\ Young(cm, pt) /\ DOMAIN ent \subseteq {World}
      /\ AtReduce(n, s, ent, agenda[n], inside[n], color) \/ AtReduced(n, s, ent, entered, agenda[n], reg[n], color)
  BY DEF Reducing
<1>2. IsSequence(First(p)) /\ IsSequence(tail)
  BY Agendas, ThenIs
<1>3. scenario' = s
  BY Settled
<1>4. b.do = "reduced" /\ b.nmpi = Count0(s)[1]
  OBVIOUS
<1>5. Shallow(s, ent)
  <2>1. Len(World.name) <= Depth(s)
    BY WorldName DEF Depth
  <2> QED  BY <1>1, <2>1 DEF Shallow
<1>6. Finite(ent)
  BY FiniteCalls
<1> HIDE DEF s, p, ent, new, cm, pt, color, b, tail
<1>7. CASE AtReduce(n, s, ent, agenda[n], inside[n], color)
  <2> DEFINE arg == [color |-> color, key |-> n]
             it == Mpi("alloc", "split", None, arg)
             call == [op |-> it.op, type |-> it.type, arg |-> it.arg]
  <2>1. /\ agenda[n] = Then(it, tail)
        /\ IF inside[n] THEN /\ World \in DOMAIN ent /\ IsFirst(ent, World, Len(ent[World]))
                             /\ ent[World][Len(ent[World])].arg.color = color
           ELSE NoSplit(ent, World)
    BY <1>7 DEF AtReduce, tail, b, p
  <2>2. it.do = "mpi" /\ it.op = "split" /\ it.comm = "alloc" /\ it.arg = arg /\ arg.color = color
    BY DEF Mpi
  <2>3. call.op = "split" /\ call.arg = arg
    BY <2>2
  <2> HIDE DEF it, arg
  <2>4. World = Struct(n, it.comm).mpicomm
    BY <1>1, <2>2, AllocNumber DEF cm
  <2>5. UNCHANGED <<comm, ptr, args, argv>> /\ (MadeCall(n, World, it) \/ Returns(n, World, it, tail))
    BY <1>2, <2>1, <2>2, <2>4, CallSteps
  <2> HIDE DEF call
  <2>6. CASE MadeCall(n, World, it)
    <3>1. Extended(ent, new, World, call) /\ agenda'[n] = agenda[n] /\ inside'[n] = TRUE
          /\ inside[n] = FALSE
      BY <2>6 DEF MadeCall, ent, new, call
    <3>2. NoSplit(ent, World)
      BY <2>1, <3>1
    <3>3. IsFirst(new, World, Len(new[World])) /\ new[World][Len(new[World])] = call
          /\ DOMAIN new = DOMAIN ent \cup {World}
      BY <1>6, <2>3, <3>1, <3>2, FirstNow DEF Extended
    <3>4. AtReduce(n, s, new, agenda'[n], inside'[n], color)
      BY <2>1, <2>2, <2>3, <3>1, <3>3 DEF AtReduce, tail, b, p, it, arg
    <3>5. DOMAIN new \subseteq {World}
      BY <1>1, <3>3
    <3>6. Reducing(n, s, new, entered', agenda'[n], inside'[n], reg'[n], cm, pt)
      BY <1>1, <3>4, <3>5 DEF Reducing, color
    <3> QED  BY <1>3, <2>5, <3>6 DEF Stage, StageOf, new, cm, pt
  <2>7. CASE Returns(n, World, it, tail)
    <3> DEFINE k == Len(ent[World])
    <3>1. /\ agenda'[n] = tail /\ UNCHANGED entered /\ inside[n] = TRUE /\ k \in Turns(ent, World)
          /\ IsMade(entered, World, k, ent[World][k].arg.color, reg'[n].comm)
      BY <2>2, <2>7 DEF Returns, ent
    <3>2. IsFirst(ent, World, k) /\ ent[World][k].arg.color = color
      BY <2>1, <3>1
    <3> HIDE DEF k
    <3>3. AtReduced(n, s, ent, entered, agenda'[n], reg'[n], color)
      BY <3>1, <3>2 DEF AtReduced, FirstIn, tail, b, p
    <3>4. Reducing(n, s, ent, entered, agenda'[n], inside'[n], reg'[n], cm, pt)
      BY <1>1, <3>3 DEF Reducing, color
    <3> QED  BY <1>3, <2>5, <3>1, <3>4 DEF Stage, StageOf, ent, cm, pt
  <2> QED  BY <2>5, <2>6, <2>7
<1>8. CASE AtReduced(n, s, ent, entered, agenda[n], reg[n], color)
  <2> DEFINE a == [cm["A"] EXCEPT !.mpicomm = reg[n].comm, !.num_nodes = Todo(n).nmpi]
             made == reg[n].comm
  <2>1. PICK k \in Turns(ent, World) : FirstIn(ent, World, k, color) /\ IsMade(entered, World, k, color, made)
    BY <1>8 DEF AtReduced
  <2>2. agenda[n] = tail
    BY <1>8 DEF AtReduced, tail, b, p
  <2>3. Todo(n) = b /\ Tail(agenda[n]) = First(p)
    BY <1>2, <2>2, ThenIs DEF Todo, tail
  <2>4. Reduced(n)
    BY <1>4, <2>3, Acts
  <2>5. /\ SetComm(n, "A", a) /\ UNCHANGED <<inside, entered, answers, reg, ptr, args, argv>>
        /\ IF n < Todo(n).nmpi THEN Instead(n, <<>>) ELSE agenda' = [agenda EXCEPT ![n] = <<>>]
    BY <2>4, AllocNumber DEF Reduced, startVars, cm
  <2>6. a.mpicomm = made /\ a.num_nodes = Count0(s)[1]
    <3>1. Fields \subseteq DOMAIN cm["A"]
      BY AllocNumber DEF cm
    <3>2. a.mpicomm = made /\ a.num_nodes = Todo(n).nmpi
      BY <3>1 DEF Fields
    <3> QED  BY <1>4, <2>3, <3>2
  <2> HIDE DEF a, made
  <2>7. comm'[n]["A"] = a /\ \A o \in Objects \ {"A"} : comm'[n][o] = cm[o]
    BY <2>5, SetTo DEF Objects, cm
  <2>8. comm'[n]["J"] = cm["J"] /\ comm'[n]["D"] = cm["D"]
    BY <2>7 DEF Objects
  <2>9. Young(comm'[n], pt)
    BY <1>1, <2>8 DEF Young
  <2>10. DOMAIN agenda = Node
    BY DEF StartupInv, ShapeOK
  <2>11. CASE n < Count0(s)[1]
    <3>1. color = 0 /\ Size(s) = Count0(s)[1]
      BY <1>1, <2>11 DEF color, Size
    <3>2. agenda'[n] = First(p)
      <4>1. Instead(n, <<>>)
        BY <1>4, <2>3, <2>5, <2>11
      <4>2. agenda'[n] = <<>> \o Tail(agenda[n])
        BY <2>10, <4>1 DEF Instead
      <4> QED  BY <1>2, <2>3, <4>2, Instead0
    <3>3. AllocRight(s, ent, entered, a)
      BY <1>1, <2>1, <2>6, <3>1 DEF AllocRight
    <3>4. NoSplit(ent, a.mpicomm)
      <4>1. Len(a.mpicomm.name) = 1
        BY <1>1, <3>3, AllocName DEF Depth
      <4>2. a.mpicomm \notin DOMAIN ent
        <5>1. a.mpicomm # World
          <6> SUFFICES ASSUME a.mpicomm = World PROVE FALSE
            OBVIOUS
          <6> DEFINE L == Len(World.name)
          <6>1. L = 1 /\ L = 0
            BY <4>1, WorldName, Zenon
          <6> HIDE DEF L
          <6> QED  BY <6>1
        <5> QED  BY <1>1, <5>1
      <4> QED  BY <4>2 DEF NoSplit, Turns
    <3>5. Reading(n, s, ent, entered, agenda'[n], comm'[n], pt)
      BY <1>5, <2>7, <2>9, <3>2, <3>3, <3>4 DEF Reading, p
    <3> QED  BY <1>3, <2>5, <3>5 DEF Stage, StageOf, ent, pt
  <2>12. CASE ~(n < Count0(s)[1])
    <3>1. agenda'[n] = <<>>
      BY <1>4, <2>3, <2>5, <2>10, <2>12
    <3>2. args[n] = None
      <4> DEFINE ar == args[n]
                 ag == agenda[n]
      <4>1. ArgsOK(ag, ar, argv[n]) /\ AgendaOK(ag)
        BY DEF StartupInv, Holds, NodeOK
      <4>2. ag # <<>> /\ ag[1].do = "reduced"
        BY <1>2, <1>4, <2>2, ThenIs DEF tail
      <4> HIDE DEF ag, ar
      <4>3. 1 \in 1 .. Len(ag)
        BY <4>1, <4>2 DEF AgendaOK, IsSequence
      <4>4. ar = None
        BY <4>1, <4>2, <4>3 DEF ArgsOK, Early
      <4> QED  BY <4>4 DEF ar
    <3>3. LeftOver(s, ent, agenda'[n], comm'[n], args'[n])
      BY <1>5, <2>5, <2>9, <3>1, <3>2 DEF LeftOver, Young
    <3> QED  BY <1>3, <2>5, <3>3 DEF Stage, StageOf, ent
  <2> QED  BY <2>11, <2>12
<1> QED  BY <1>1, <1>7, <1>8

-----------------------------------------------------------------------------
(* A topology is declared.                                                 *)

\* y is the struct x, with another topology perhaps.
Kept(x, y) ==
  \/ y = x
  \/ x # None /\ DOMAIN y = DOMAIN x /\ \A f \in DOMAIN x \ {"topo"} : y[f] = x[f]
KeptAll(n) == \A o \in Objects : Kept(comm[n][o], comm'[n][o])

LEMMA KeptTopo ==
  ASSUME StartupInv, NEW n \in Node, NEW o, comm[n][o] # None, NEW t, NEW s,
         s = [comm[n][o] EXCEPT !.topo = t], SetComm(n, o, s)
  PROVE  KeptAll(n)
<1> DEFINE cm == comm[n]
           c == cm[o]
<1>1. DOMAIN comm = Node /\ DOMAIN cm = Objects
  BY DEF StartupInv, ShapeOK, Holds, NodeOK, CommsOK
<1>2. \A q \in Objects : comm'[n][q] = IF q = o THEN s ELSE cm[q]
  BY <1>1 DEF SetComm
<1>3. Kept(c, s)
  <2> HIDE DEF c
  <2>1. c # None /\ s = [c EXCEPT !.topo = t]
    BY DEF c
  <2>2. DOMAIN s = DOMAIN c /\ \A f \in DOMAIN c \ {"topo"} : s[f] = c[f]
    BY <2>1
  <2> QED  BY <2>1, <2>2 DEF Kept
<1>4. ASSUME NEW q \in Objects PROVE Kept(cm[q], comm'[n][q])
  <2>1. CASE q = o
    BY <1>2, <1>3, <2>1
  <2>2. CASE q # o
    BY <1>2, <2>2 DEF Kept
  <2> QED  BY <2>1, <2>2
<1> QED  BY <1>4 DEF KeptAll

LEMMA SameKept == ASSUME NEW n, UNCHANGED comm PROVE KeptAll(n)
  BY DEF KeptAll, Kept

\* Nothing that a stage says about a struct is its topology.
LEMMA KeptNot ==
  ASSUME NEW n, NEW o, NEW x, StructOK(n, o, x), NEW y, Kept(x, y), NotYet(x) PROVE NotYet(y)
  BY DEF Kept, NotYet, StructOK, Fields

LEMMA KeptAlloc ==
  ASSUME NEW s, NEW ent, NEW E, NEW a, AllocRight(s, ent, E, a), Fields \subseteq DOMAIN a,
         NEW b, Kept(a, b)
  PROVE  AllocRight(s, ent, E, b) /\ b.mpicomm = a.mpicomm
<1>1. b.mpicomm = a.mpicomm /\ b.num_nodes = a.num_nodes
  BY DEF Kept, Fields
<1> QED  BY <1>1 DEF AllocRight

LEMMA KeptSplit ==
  ASSUME NEW n, NEW ent, NEW E, NEW W, NEW c, NEW x, SplitOff(n, ent, E, W, c, x), NEW y, Kept(x, y)
  PROVE  SplitOff(n, ent, E, W, c, y) /\ y.mpicomm = x.mpicomm /\ y.color = x.color
<1>1. Parts \subseteq DOMAIN x
  BY DEF SplitOff
<1>2. /\ y.mpicomm = x.mpicomm /\ y.num_nodes = x.num_nodes /\ y.nodeid = x.nodeid
      /\ y.ncolors = x.ncolors /\ y.color = x.color /\ DOMAIN y = DOMAIN x
  BY <1>1 DEF Kept, Parts
<1> QED  BY <1>1, <1>2 DEF SplitOff, Counted

\* The structs of a node.
LEMMA Structs ==
  ASSUME StartupInv, NEW n \in Node
  PROVE  /\ Fields \subseteq DOMAIN comm[n]["A"] /\ \A o \in Objects : StructOK(n, o, comm[n][o])
         /\ {"A", "J", "D", "S"} = Objects
  BY DEF StartupInv, Holds, NodeOK, AllocOK, CommsOK, Objects

-----------------------------------------------------------------------------

LEMMA ThreeItems ==
  ASSUME NEW a, NEW b, NEW c
  PROVE  /\ IsSequence(<<a, b>>) /\ Len(<<a, b>>) = 2 /\ <<a, b>>[1] = a /\ <<a, b>>[2] = b
         /\ IsSequence(<<a, b, c>>) /\ Len(<<a, b, c>>) = 3
         /\ <<a, b, c>>[1] = a /\ <<a, b, c>>[2] = b /\ <<a, b, c>>[3] = c
<1> DEFINE s == <<a, b>>
           t == <<a, b, c>>
<1>1. s \in Seq({a, b}) /\ Len(s) = 2 /\ s[1] = a /\ s[2] = b
  OBVIOUS
<1>2. t \in Seq({a, b, c}) /\ Len(t) = 3 /\ t[1] = a /\ t[2] = b /\ t[3] = c
  OBVIOUS
<1> HIDE DEF s, t
<1>3. IsSequence(s) /\ IsSequence(t)
  BY <1>1, <1>2, SequenceIs
<1> QED  BY <1>1, <1>2, <1>3 DEF s, t

LEMMA HeadTail ==
  ASSUME NEW ag, IsSequence(ag), ag # <<>>
  PROVE  ag = Then(ag[1], Tail(ag)) /\ IsSequence(Tail(ag))
<1> DEFINE t == Tail(ag)
           it == ag[1]
           L == Len(ag)
           new == Then(it, t)
<1>1. IsSequence(t) /\ L \in Nat \ {0} /\ Len(t) = L - 1 /\ \A i \in 1 .. L - 1 : t[i] = ag[i + 1]
  BY TailIs
<1> HIDE DEF t, it
<1>2. IsSequence(new) /\ new[1] = it /\ Len(new) = Len(t) + 1
      /\ \A i \in 1 .. Len(t) : new[i + 1] = t[i]
  BY <1>1, ThenIs
<1> HIDE DEF new
<1>3. Len(new) = L
  BY <1>1, <1>2
<1>4. ASSUME NEW i \in 1 .. L PROVE new[i] = ag[i]
  <2>1. CASE i = 1
    BY <1>2, <2>1 DEF it
  <2>2. CASE i # 1
    <3> HIDE DEF L
    <3>1. i - 1 \in 1 .. L - 1 /\ (i - 1) + 1 = i
      BY <1>1, <2>2
    <3> QED  BY <1>1, <1>2, <3>1
  <2> QED  BY <2>1, <2>2
<1>5. new = ag
  BY <1>2, <1>3, <1>4, SameSequence
<1> QED  BY <1>1, <1>5 DEF new, it, t

LEMMA AgendaSequence ==
  ASSUME StartupInv, NEW n \in Node PROVE IsSequence(agenda[n])
  BY DEF StartupInv, Holds, NodeOK, AgendaOK

\* Instead of an item that a declaration consists of come more of them.
MildOn(n) ==
  \/ agenda'[n] = agenda[n]
  \/ \E items : /\ IsSequence(items) /\ \A i \in 1 .. Len(items) : Mild(items[i])
                /\ agenda'[n] = items \o Tail(agenda[n])

LEMMA MildItems ==
  /\ IsSequence(<<>>) /\ \A i \in 1 .. Len(<<>>) : Mild(<<>>[i])
  /\ \A a : Mild(a) => IsSequence(<<a>>) /\ \A i \in 1 .. Len(<<a>>) : Mild(<<a>>[i])
  /\ \A a, b : Mild(a) /\ Mild(b) => IsSequence(<<a, b>>) /\ \A i \in 1 .. Len(<<a, b>>) : Mild(<<a, b>>[i])
  /\ \A a, b, c : Mild(a) /\ Mild(b) /\ Mild(c) =>
       IsSequence(<<a, b, c>>) /\ \A i \in 1 .. Len(<<a, b, c>>) : Mild(<<a, b, c>>[i])
<1>1. IsSequence(<<>>) /\ \A i \in 1 .. Len(<<>>) : Mild(<<>>[i])
  BY NoItems
<1>2. ASSUME NEW a, Mild(a) PROVE IsSequence(<<a>>) /\ \A i \in 1 .. Len(<<a>>) : Mild(<<a>>[i])
  <2> DEFINE s == <<a>>
  <2>1. IsSequence(s) /\ Len(s) = 1 /\ s[1] = a
    BY OneItem
  <2> HIDE DEF s
  <2>2. \A i \in 1 .. 1 : i = 1
    OBVIOUS
  <2> QED  BY <1>2, <2>1, <2>2 DEF s
<1>3. ASSUME NEW a, NEW b, Mild(a), Mild(b)
      PROVE  IsSequence(<<a, b>>) /\ \A i \in 1 .. Len(<<a, b>>) : Mild(<<a, b>>[i])
  <2> DEFINE s == <<a, b>>
  <2>1. IsSequence(s) /\ Len(s) = 2 /\ s[1] = a /\ s[2] = b
    BY ThreeItems
  <2> HIDE DEF s
  <2>2. \A i \in 1 .. 2 : i = 1 \/ i = 2
    OBVIOUS
  <2>3. IsSequence(s) /\ \A i \in 1 .. Len(s) : Mild(s[i])
    BY <1>3, <2>1, <2>2
  <2> QED  BY <2>3 DEF s
<1>4. ASSUME NEW a, NEW b, NEW c, Mild(a), Mild(b), Mild(c)
      PROVE  IsSequence(<<a, b, c>>) /\ \A i \in 1 .. Len(<<a, b, c>>) : Mild(<<a, b, c>>[i])
  <2> DEFINE s == <<a, b, c>>
  <2>1. IsSequence(s) /\ Len(s) = 3 /\ s[1] = a /\ s[2] = b /\ s[3] = c
    BY ThreeItems
  <2> HIDE DEF s
  <2>2. \A i \in 1 .. 3 : i = 1 \/ i = 2 \/ i = 3
    OBVIOUS
  <2>3. IsSequence(s) /\ \A i \in 1 .. Len(s) : Mild(s[i])
    BY <1>4, <2>1, <2>2
  <2> QED  BY <2>3 DEF s
<1> QED  BY <1>1, <1>2, <1>3, <1>4

LEMMA BarrierMild == Mild(Barrier("def"))
<1>1. CallTo(Barrier("def"), "def", "barrier")
  BY MpiIs DEF Barrier
<1> QED  BY <1>1 DEF Mild

LEMMA Declare_Mild ==
  ASSUME StartupInv, NEW n \in Node, Declare(n)
  PROVE  MildOn(n) /\ KeptAll(n) /\ UNCHANGED <<ptr, entered, args, argv>>
<1> DEFINE a == Barrier("def")
           b == [Todo(n) EXCEPT !.do = "settopo"]
<1>1. IsAt(n, "declare") /\ Goes(n, <<a, b>>) /\ UNCHANGED <<comm, ptr, args, argv>>
  BY DEF Declare, startVars
<1>2. "do" \in DOMAIN Todo(n)
  BY <1>1, HeadOK
<1>3. Mild(a) /\ Mild(b)
  BY <1>2, BarrierMild DEF Mild
<1> HIDE DEF a, b
<1>4. agenda'[n] = <<a, b>> \o Tail(agenda[n]) /\ UNCHANGED entered
  BY <1>1, GoesTo
<1>5. MildOn(n)
  BY <1>3, <1>4, MildItems DEF MildOn
<1> QED  BY <1>1, <1>4, <1>5, SameKept

LEMMA SetTopo_Mild ==
  ASSUME StartupInv, NEW n \in Node, SetTopo(n)
  PROVE  MildOn(n) /\ KeptAll(n) /\ UNCHANGED <<ptr, entered, args, argv>>
<1> DEFINE it == Todo(n)
           o == Object(n, it.comm)
           c == comm[n][o]
           t == [dims |-> Leading(it.dims, it.ndim), map |-> Leading(it.map, it.nmap),
                 coord |-> None, neigh |-> None]
           s == [c EXCEPT !.topo = t]
           a == Barrier("def")
           b == [do |-> "neighbours", comm |-> it.comm]
<1>1. c # None
  BY DEF SetTopo, Usable, Struct
<1>2. \/ Abort /\ UNCHANGED startVars
      \/ Goes(n, <<>>) /\ UNCHANGED <<comm, ptr, argv, args>>
      \/ SetComm(n, o, s) /\ Goes(n, <<a, b, a>>) /\ UNCHANGED <<ptr, argv, args>>
  <2>1. CASE ~Accepted(n, it)
    BY <2>1 DEF SetTopo
  <2>2. CASE Accepted(n, it) /\ it.ndim <= 0
    BY <2>2 DEF SetTopo
  <2>3. CASE Accepted(n, it) /\ it.ndim > 0 /\ ~Fits(Leading(it.dims, it.ndim), c.num_nodes)
    BY <2>3 DEF SetTopo
  <2>4. CASE /\ Accepted(n, it) /\ ~(it.ndim <= 0)
             /\ ~(it.ndim > 0 /\ ~Fits(Leading(it.dims, it.ndim), c.num_nodes))
    BY <2>4 DEF SetTopo
  <2> QED  BY <2>1, <2>2, <2>3, <2>4
<1>3. CASE Abort /\ UNCHANGED startVars
  <2>1. UNCHANGED <<comm, ptr, entered, agenda, args, argv>>
    BY <1>3 DEF Abort, collVars, startVars
  <2> QED  BY <2>1, SameKept DEF MildOn
<1>4. CASE Goes(n, <<>>) /\ UNCHANGED <<comm, ptr, argv, args>>
  <2>1. agenda'[n] = <<>> \o Tail(agenda[n]) /\ UNCHANGED entered
    BY <1>4, GoesTo
  <2> QED  BY <1>4, <2>1, MildItems, SameKept DEF MildOn
<1>5. CASE SetComm(n, o, s) /\ Goes(n, <<a, b, a>>) /\ UNCHANGED <<ptr, argv, args>>
  <2>1. KeptAll(n)
    <3> HIDE DEF t, o
    <3> QED  BY <1>1, <1>5, KeptTopo
  <2>2. Mild(a) /\ Mild(b)
    BY BarrierMild DEF Mild
  <2> HIDE DEF a, b
  <2>3. agenda'[n] = <<a, b, a>> \o Tail(agenda[n]) /\ UNCHANGED entered
    BY <1>5, GoesTo
  <2>4. MildOn(n)
    BY <2>2, <2>3, MildItems DEF MildOn
  <2> QED  BY <1>5, <2>1, <2>3, <2>4
<1> QED  BY <1>2, <1>3, <1>4, <1>5

LEMMA Neighbours_Mild ==
  ASSUME StartupInv, NEW n \in Node, Neighbours(n)
  PROVE  MildOn(n) /\ KeptAll(n) /\ UNCHANGED <<ptr, entered, args, argv>>
<1> DEFINE o == Object(n, Todo(n).comm)
           c == comm[n][o]
           t == c.topo
           x == Coordinates(t, c.nodeid)
           new == [t EXCEPT !.coord = x,
                     !.neigh = [d \in {-1, 1} |-> [i \in DOMAIN t.dims |-> Neighbour(t, x, i, d)]]]
           s == [c EXCEPT !.topo = new]
<1>1. c # None /\ SetComm(n, o, s) /\ Goes(n, <<>>) /\ UNCHANGED <<ptr, args, argv>>
  BY DEF Neighbours, startVars, Usable, Struct
<1> HIDE DEF new
<1>2. KeptAll(n)
  <2> HIDE DEF o
  <2> QED  BY <1>1, KeptTopo
<1>3. agenda'[n] = <<>> \o Tail(agenda[n]) /\ UNCHANGED entered
  BY <1>1, GoesTo
<1>4. MildOn(n)
  BY <1>3, MildItems DEF MildOn
<1> QED  BY <1>1, <1>2, <1>3, <1>4

\* A barrier or no call at all.
BarrierAt(n) ==
  \/ entered'[n] = entered[n]
  \/ \E call : /\ call.op = "barrier"
               /\ Extended(entered[n], entered'[n], comm[n][ptr[n]["def"]].mpicomm, call)

LEMMA Mild_Step ==
  ASSUME StartupInv, NEW n \in Node, Step(n), Mild(agenda[n][1])
  PROVE  MildOn(n) /\ KeptAll(n) /\ UNCHANGED <<ptr, args, argv>> /\ BarrierAt(n)
<1> DEFINE it == agenda[n][1]
           tail == Tail(agenda[n])
<1>1. agenda[n] # <<>> /\ Todo(n) = it
  BY Acts
<1>2. CASE CallTo(it, "def", "barrier")
  <2>1. agenda[n] = Then(it, tail) /\ IsSequence(tail)
    BY <1>1, AgendaSequence, HeadTail
  <2>2. it.do = "mpi" /\ it.op = "barrier" /\ it.comm = "def"
    BY <1>2 DEF CallTo
  <2> DEFINE c == comm[n][ptr[n]["def"]].mpicomm
  <2>3. c = Struct(n, it.comm).mpicomm
    BY <2>2, OwnObject DEF Struct
  <2> HIDE DEF it, tail, c
  <2>4. UNCHANGED <<comm, ptr, args, argv>> /\ (MadeCall(n, c, it) \/ Returns(n, c, it, tail))
    BY <2>1, <2>2, <2>3, CallSteps
  <2>5. CASE MadeCall(n, c, it)
    <3>1. /\ Extended(entered[n], entered'[n], c, [op |-> it.op, type |-> it.type, arg |-> it.arg])
          /\ agenda'[n] = agenda[n]
      BY <2>5 DEF MadeCall
    <3> DEFINE call == [op |-> it.op, type |-> it.type, arg |-> it.arg]
    <3>2. call.op = "barrier" /\ Extended(entered[n], entered'[n], c, call)
      BY <2>2, <3>1
    <3> HIDE DEF call
    <3>3. BarrierAt(n)
      BY <3>2 DEF BarrierAt, c
    <3> QED  BY <2>4, <3>1, <3>3, SameKept DEF MildOn
  <2>6. CASE Returns(n, c, it, tail)
    <3>1. agenda'[n] = tail /\ UNCHANGED entered
      BY <2>6 DEF Returns
    <3>2. agenda'[n] = <<>> \o Tail(agenda[n])
      BY <2>1, <3>1, Instead0 DEF tail
    <3>3. MildOn(n)
      BY <3>2, MildItems DEF MildOn
    <3> QED  BY <2>4, <3>1, <3>3, SameKept DEF BarrierAt
  <2> QED  BY <2>4, <2>5, <2>6
<1>3. CASE it.do \in {"declare", "settopo", "neighbours"}
  <2>1. Declare(n) \/ SetTopo(n) \/ Neighbours(n)
    BY <1>1, <1>3, Acts
  <2> QED  BY <2>1, Declare_Mild, SetTopo_Mild, Neighbours_Mild DEF BarrierAt
<1> QED  BY <1>2, <1>3 DEF Mild

\* What a barrier on the default communicator leaves.
LEMMA BarrierKeeps ==
  ASSUME StartupInv, NEW n \in Node, BarrierAt(n)
  PROVE  /\ \A d : NoSplit(entered[n], d) => NoSplit(entered'[n], d)
         /\ DOMAIN entered'[n] \subseteq DOMAIN entered[n] \cup {comm[n][ptr[n]["def"]].mpicomm}
<1> DEFINE ent == entered[n]
           new == entered'[n]
           c == comm[n][ptr[n]["def"]].mpicomm
<1>1. CASE new = ent
  BY <1>1
<1>2. CASE \E call : call.op = "barrier" /\ Extended(ent, new, c, call)
  <2>1. PICK call : call.op = "barrier" /\ Extended(ent, new, c, call)
    BY <1>2
  <2>2. Finite(ent)
    BY FiniteCalls
  <2> HIDE DEF ent, new, c
  <2>3. \A d : NoSplit(ent, d) => NoSplit(new, d)
    BY <2>1, <2>2, NoSplitOn
  <2>4. DOMAIN new \subseteq DOMAIN ent \cup {c}
    BY <2>1 DEF Extended
  <2> QED  BY <2>3, <2>4 DEF ent, new, c
<1> QED  BY <1>1, <1>2 DEF BarrierAt

\* The rest still comes after a step of a declaration.
LEMMA MildLeads ==
  ASSUME StartupInv, NEW n \in Node, NEW rest, Leads(agenda[n], rest), agenda[n] # rest, MildOn(n)
  PROVE  Leads(agenda'[n], rest)
<1>1. IsSequence(agenda[n])
  BY AgendaSequence
<1>2. \A items : IsSequence(items) /\ (\A i \in 1 .. Len(items) : Mild(items[i])) =>
                         Leads(items \o Tail(agenda[n]), rest)
  BY <1>1, LeadsOn
<1> QED  BY <1>2 DEF MildOn

LEMMA Reading_Step ==
  ASSUME StartupInv, NEW n \in Node, Step(n),
         Reading(n, scenario, entered[n], entered, agenda[n], comm[n], ptr[n])
  PROVE  Stage(n)'
<1> DEFINE s == scenario
           p == s.prog[n]
           ent == entered[n]
           new == entered'[n]
           cm == comm[n]
           pt == ptr[n]
           c == cm["A"].mpicomm
<1>1. /\ agenda[n] = First(p) \/ Leads(agenda[n], Second(p))
      /\ AllocRight(s, ent, entered, cm["A"]) /\ Young(cm, pt) /\ Shallow(s, ent)
      /\ NoSplit(ent, cm["A"].mpicomm)
  BY DEF Reading
<1>2. IsSequence(Second(p)) /\ IsSequence(First(p)) /\ IsSequence(Third(p))
  BY Agendas
<1>3. scenario' = s
  BY Settled
<1>4. ASSUME Still(n) PROVE Stage(n)'
  <2>1. Reading(n, scenario, entered[n], entered, agenda'[n], comm[n], ptr[n])
    BY <1>4 DEF Still
  <2>2. UNCHANGED <<entered, comm, ptr>>
    BY <1>4 DEF Still
  <2> QED  BY <1>3, <2>1, <2>2 DEF Stage, StageOf
<1> HIDE DEF s, p, ent, new, cm, pt, c
<1>5. CASE agenda[n] = First(p)
  <2>1. Todo(n) = [do |-> "parse"] /\ Tail(agenda[n]) = Second(p)
    BY <1>2, <1>5, ThenIs DEF First, Todo
  <2>2. Parse(n)
    <3>1. Todo(n).do = "parse"
      BY <2>1
    <3> QED  BY <3>1, Acts
  <2>3. \/ Abort /\ UNCHANGED startVars
        \/ \E dims, ndim, map, nmap : Goes(n, <<DeclareItem("alloc", dims, ndim, map, nmap)>>) /\ UNCHANGED <<comm, ptr>>
    BY <2>2, SMTT(60) DEF Parse
  <2>4. CASE Abort /\ UNCHANGED startVars
    BY <1>4, <2>4, AbortStill DEF startVars
  <2>5. CASE \E dims, ndim, map, nmap : Goes(n, <<DeclareItem("alloc", dims, ndim, map, nmap)>>) /\ UNCHANGED <<comm, ptr>>
    <3>1. PICK dims, ndim, map, nmap : Goes(n, <<DeclareItem("alloc", dims, ndim, map, nmap)>>) /\ UNCHANGED <<comm, ptr>>
      BY <2>5
    <3> DEFINE it == DeclareItem("alloc", dims, ndim, map, nmap)
    <3>2. Mild(it)
      BY DEF DeclareItem, Mild
    <3> HIDE DEF it
    <3>3. agenda'[n] = <<it>> \o Second(p) /\ UNCHANGED <<entered, answers>>
      BY <2>1, <3>1, GoesTo DEF it
    <3>4. Leads(agenda'[n], Second(p))
      BY <1>2, <3>2, <3>3, Instead1, LeadsOne
    <3>5. Reading(n, s, ent, entered, agenda'[n], cm, pt)
      BY <1>1, <3>4 DEF Reading, p
    <3> QED  BY <1>3, <3>1, <3>3, <3>5 DEF Stage, StageOf, ent, cm, pt
  <2> QED  BY <2>3, <2>4, <2>5
<1>6. CASE agenda[n] = Second(p)
  <2>1. Todo(n) = [do |-> "job"] /\ Tail(agenda[n]) = Third(p)
    BY <1>2, <1>6, ThenIs DEF Second, Todo
  <2>2. Job(n)
    <3>1. Todo(n).do = "job"
      BY <2>1
    <3> QED  BY <3>1, Acts
  <2> DEFINE color == GetColor(n)
             it == SplitItem("alloc", color, 0, "job")
  <2> HIDE DEF color
  <2>3. \/ Abort /\ UNCHANGED <<args, argv>>
        \/ Goes(n, <<it>>) /\ UNCHANGED <<comm, ptr>>
    BY <2>2 DEF Job, color
  <2>4. CASE Abort /\ UNCHANGED <<args, argv>>
    BY <1>4, <2>4, AbortStill
  <2>5. CASE Goes(n, <<it>>) /\ UNCHANGED <<comm, ptr>>
    <3>1. it = Part("split", "alloc", color, "job")
      BY DEF SplitItem, Part
    <3> HIDE DEF it
    <3>2. agenda'[n] = <<it>> \o Third(p) /\ UNCHANGED <<entered, answers>>
      BY <2>1, <2>5, GoesTo
    <3>3. agenda'[n] = Then(it, Third(p)) /\ agenda'[n] # <<>>
      <4>1. agenda'[n] = Then(it, Third(p))
        BY <3>2, Instead1
      <4> QED  BY <1>2, <4>1, ThenIs
    <3>4. Asked(ent, agenda'[n], cm["J"], c, "alloc", color, "job", Third(p))
      BY <1>1, <3>1, <3>3 DEF Asked, Young, c
    <3>5. Dividing(ent, entered, answers, agenda'[n], inside'[n], reg'[n], cm["J"], pt["job"], c,
                   "alloc", color, "job", "A", Third(p))
      BY <3>3, <3>4 DEF Dividing
    <3>6. Colour(agenda'[n][1], cm["J"]) = color
      BY <1>2, <3>5, DividingColour
    <3>7. DividingJob(n, s, ent, entered, answers, agenda'[n], inside'[n], reg'[n], cm, pt)
      BY <1>1, <3>3, <3>5, <3>6 DEF DividingJob, Young, c, p
    <3> QED  BY <1>3, <2>5, <3>2, <3>7 DEF Stage, StageOf, ent, cm, pt
  <2> QED  BY <2>3, <2>4, <2>5
<1>7. CASE Leads(agenda[n], Second(p)) /\ agenda[n] # Second(p)
  <2>1. Mild(agenda[n][1])
    BY <1>7, AgendaSequence, LeadsOn
  <2>2. MildOn(n) /\ KeptAll(n) /\ UNCHANGED ptr /\ BarrierAt(n)
    BY <2>1, Mild_Step
  <2>3. Leads(agenda'[n], Second(p))
    BY <1>7, <2>2, MildLeads
  <2>4. /\ \A d : NoSplit(ent, d) => NoSplit(new, d)
        /\ DOMAIN new \subseteq DOMAIN ent \cup {c}
    <3>1. c = comm[n][ptr[n]["def"]].mpicomm
      BY <1>1 DEF c, Young, cm, pt
    <3> QED  BY <2>2, <3>1, BarrierKeeps DEF ent, new
  <2> DEFINE cn == comm'[n]
  <2>5. \A o \in Objects : Kept(cm[o], cn[o])
    BY <2>2 DEF KeptAll, cm
  <2>6. /\ Fields \subseteq DOMAIN cm["A"] /\ \A o \in Objects : StructOK(n, o, cm[o])
        /\ {"A", "J", "D", "S"} = Objects
    BY Structs DEF cm
  <2> HIDE DEF cn
  <2>7. AllocRight(s, new, entered', cm["A"])
    BY <1>1, Settled DEF s, ent, new
  <2>8. AllocRight(s, new, entered', cn["A"]) /\ cn["A"].mpicomm = c
    BY <2>5, <2>6, <2>7, KeptAlloc DEF c
  <2>9. NotYet(cn["J"]) /\ NotYet(cn["D"])
    BY <1>1, <2>5, <2>6, KeptNot DEF Young
  <2>10. Shallow(s, new)
    <3>1. Len(c.name) <= Depth(s)
      BY <1>1, AllocName DEF c
    <3> QED  BY <1>1, <2>4, <3>1 DEF Shallow
  <2>11. Reading(n, s, new, entered', agenda'[n], cn, pt)
    BY <1>1, <2>3, <2>4, <2>8, <2>9, <2>10 DEF Reading, Young, p, c
  <2> QED  BY <1>3, <2>2, <2>11 DEF Stage, StageOf, new, cn, pt
<1> QED  BY <1>1, <1>5, <1>6, <1>7

LEMMA DividingJob_Step ==
  ASSUME StartupInv, NEW n \in Node, Step(n),
         DividingJob(n, scenario, entered[n], entered, answers, agenda[n], inside[n], reg[n], comm[n], ptr[n])
  PROVE  Stage(n)'
<1> DEFINE s == scenario
           p == s.prog[n]
           ent == entered[n]
           new == entered'[n]
           cm == comm[n]
           cn == comm'[n]
           pt == ptr[n]
           c == cm["A"].mpicomm
           color == Colour(agenda[n][1], cm["J"])
<1>1. /\ AllocRight(s, ent, entered, cm["A"]) /\ NotYet(cm["D"]) /\ pt["def"] = "A" /\ Shallow(s, ent)
      /\ Dividing(ent, entered, answers, agenda[n], inside[n], reg[n], cm["J"], pt["job"], c,
              "alloc", color, "job", "A", Third(p))
  BY DEF DividingJob
<1>2. IsSequence(Third(p))
  BY Agendas
<1>3. scenario' = s
  BY Settled
<1>4. ObjectOf("job") = "J"
  BY DEF ObjectOf
<1>5. Splits(n, c, "alloc", color, "job", "A", Third(p))
  BY <1>2, <1>4, OwnObject DEF Splits
<1>6. DividingNow(n, c, "alloc", color, "job", "A", Third(p))
  BY <1>1, <1>4 DEF DividingNow
<1> HIDE DEF s, p, color
<1>7. /\ \A q \in Objects \ {"J"} : cn[q] = cm[q]
      /\ \A q \in {"alloc", "job", "def"} \ {"job"} : ptr'[n][q] = pt[q]
      /\ DOMAIN new \subseteq DOMAIN ent \cup {c}
      /\ \/ Dividing(new, entered', answers', agenda'[n], inside'[n], reg'[n], cn["J"], ptr'[n]["job"], c,
                     "alloc", color, "job", "A", Third(p))
         \/ /\ agenda'[n] = Third(p) /\ ptr'[n]["job"] = "J" /\ cn["J"].color = color
            /\ SplitOff(n, new, entered', answers', c, cn["J"])
  <2> HIDE DEF c
  <2> QED  BY <1>4, <1>5, <1>6, Dividing_Step
<1>8. cn["A"] = cm["A"] /\ cn["D"] = cm["D"] /\ ptr'[n]["def"] = "A"
  BY <1>1, <1>7 DEF Objects
<1>9. AllocRight(s, new, entered', cn["A"])
  BY <1>1, <1>8, Settled DEF s
<1> HIDE DEF ent, new, cm, pt, c
<1>10. Shallow(s, new)
  <2>1. Len(c.name) <= Depth(s) /\ IsSequence(c.name)
    BY <1>1, AllocName DEF c
  <2> QED  BY <1>1, <1>7, <2>1 DEF Shallow
<1>11. CASE Dividing(new, entered', answers', agenda'[n], inside'[n], reg'[n], cn["J"], ptr'[n]["job"], c,
                     "alloc", color, "job", "A", Third(p))
  <2>1. Colour(agenda'[n][1], cn["J"]) = color /\ agenda'[n] # <<>>
    BY <1>2, <1>11, DividingColour
  <2>2. cn["A"].mpicomm = c
    BY <1>8 DEF c
  <2>3. DividingJob(n, s, new, entered', answers', agenda'[n], inside'[n], reg'[n], cn, ptr'[n])
    BY <1>1, <1>8, <1>9, <1>10, <1>11, <2>1, <2>2 DEF DividingJob, p
  <2> HIDE DEF cn
  <2> QED  BY <1>3, <2>3 DEF Stage, StageOf, new, cn
<1>12. CASE /\ agenda'[n] = Third(p) /\ ptr'[n]["job"] = "J" /\ cn["J"].color = color
            /\ SplitOff(n, new, entered', answers', c, cn["J"])
  <2> HIDE DEF cn
  <2>1. Len(cn["J"].mpicomm.name) = Depth(s) + 1
    BY <1>1, <1>12, AllocName, SplitName DEF c
  <2>2. NoSplit(new, cn["J"].mpicomm)
    BY <1>10, <2>1, TooLong
  <2>3. cn["A"].mpicomm = c
    BY <1>8 DEF c
  <2>4. Placing(n, s, new, entered', answers', agenda'[n], cn, ptr'[n])
    BY <1>1, <1>8, <1>9, <1>12, <2>2, <2>3 DEF Placing, p
  <2> QED  BY <1>3, <2>4 DEF Stage, StageOf, new, cn
<1> QED  BY <1>7, <1>11, <1>12

\* The job is there and its topology: the default communicator is split off.
LEMMA PlacedIsDividing ==
  ASSUME NEW n, NEW s, NEW ent, NEW E, NEW W, NEW ag, NEW ins, NEW rg, NEW cm, NEW pt,
         Placing(n, s, ent, E, W, ag, cm, pt), ag = Fourth(s.prog[n]), IsSequence(Last(s.prog[n]))
  PROVE  DividingDef(n, s, ent, E, W, ag, ins, rg, cm, pt)
<1> DEFINE p == s.prog[n]
           c == cm["J"].mpicomm
<1>1. ag = Then(Part("split", "job", 0, "def"), Last(p)) /\ NoSplit(ent, c) /\ NotYet(cm["D"])
  BY DEF Placing, Fourth
<1>2. ag # <<>>
  BY <1>1, ThenIs
<1> HIDE DEF c, p
<1>3. Asked(ent, ag, cm["D"], c, "job", 0, "def", Last(p))
  BY <1>1 DEF Asked
<1>4. Dividing(ent, E, W, ag, ins, rg, cm["D"], pt["def"], c, "job", 0, "def", "J", Last(p))
  BY <1>2, <1>3 DEF Dividing
<1> QED  BY <1>4 DEF DividingDef, Placing, c, p

LEMMA Placing_Step ==
  ASSUME StartupInv, NEW n \in Node, Step(n),
         Placing(n, scenario, entered[n], entered, answers, agenda[n], comm[n], ptr[n]),
         agenda[n] # Fourth(scenario.prog[n])
  PROVE  Stage(n)'
<1> DEFINE s == scenario
           p == s.prog[n]
           ent == entered[n]
           new == entered'[n]
           cm == comm[n]
           cn == comm'[n]
           pt == ptr[n]
           c == cm["A"].mpicomm
           d == cm["J"].mpicomm
<1>1. /\ AllocRight(s, ent, entered, cm["A"]) /\ SplitOff(n, ent, entered, answers, c, cm["J"])
      /\ NotYet(cm["D"]) /\ NoSplit(ent, d) /\ pt["job"] = "J" /\ pt["def"] = "A"
      /\ agenda[n] = Third(p) \/ Leads(agenda[n], Fourth(p))
  BY DEF Placing
<1>2. IsSequence(Fourth(p))
  BY Agendas
<1>3. scenario' = s
  BY Settled
<1>4. /\ AllocRight(s, new, entered', cm["A"]) /\ SplitOff(n, new, entered', answers', c, cm["J"])
  BY <1>1, Settled
<1>5. /\ Fields \subseteq DOMAIN cm["A"] /\ \A o \in Objects : StructOK(n, o, cm[o])
      /\ {"A", "J", "D", "S"} = Objects
  BY Structs
<1>6. agenda[n] # Fourth(p)
  OBVIOUS
<1> HIDE DEF s, p, ent, new, cm, cn, pt, c, d
<1>7. CASE agenda[n] = Third(p)
  <2>1. Todo(n) = [do |-> "geometry"] /\ Tail(agenda[n]) = Fourth(p)
    BY <1>2, <1>7, ThenIs DEF Third, Todo
  <2>2. Geometry(n)
    <3>1. Todo(n).do = "geometry"
      BY <2>1
    <3> QED  BY <3>1, Acts
  <2>3. /\ UNCHANGED <<comm, ptr>>
        /\ \/ Goes(n, <<>>)
           \/ \E dims, ndim, map, nmap : Goes(n, <<DeclareItem("job", dims, ndim, map, nmap)>>)
    <3>1. CASE args[n].jobgeom = NULL \/ ictype[n] # "mesh"
      BY <2>2, <3>1 DEF Geometry
    <3>2. CASE ~(args[n].jobgeom = NULL \/ ictype[n] # "mesh")
      BY <2>2, <3>2 DEF Geometry
    <3> QED  BY <3>1, <3>2
  <2>4. Leads(agenda'[n], Fourth(p)) /\ UNCHANGED <<entered, answers>>
    <3>1. CASE Goes(n, <<>>)
      <4>1. agenda'[n] = <<>> \o Fourth(p) /\ UNCHANGED <<entered, answers>>
        BY <2>1, <3>1, GoesTo
      <4>2. agenda'[n] = Fourth(p)
        BY <1>2, <4>1, Instead0
      <4> QED  BY <1>2, <4>1, <4>2, LeadsItself
    <3>2. CASE \E dims, ndim, map, nmap : Goes(n, <<DeclareItem("job", dims, ndim, map, nmap)>>)
      <4>1. PICK dims, ndim, map, nmap : Goes(n, <<DeclareItem("job", dims, ndim, map, nmap)>>)
        BY <3>2
      <4> DEFINE it == DeclareItem("job", dims, ndim, map, nmap)
      <4>2. Mild(it)
        BY DEF DeclareItem, Mild
      <4> HIDE DEF it
      <4>3. agenda'[n] = <<it>> \o Fourth(p) /\ UNCHANGED <<entered, answers>>
        BY <2>1, <4>1, GoesTo DEF it
      <4> QED  BY <1>2, <4>2, <4>3, Instead1, LeadsOne
    <3> QED  BY <2>3, <3>1, <3>2
  <2>5. Placing(n, s, ent, entered, answers, agenda'[n], cm, pt)
    BY <1>1, <2>4 DEF Placing, p, c, d
  <2> QED  BY <1>3, <2>3, <2>4, <2>5 DEF Stage, StageOf, ent, cm, pt
<1>8. CASE Leads(agenda[n], Fourth(p))
  <2>1. Mild(agenda[n][1])
    BY <1>6, <1>8, AgendaSequence, LeadsOn
  <2>2. MildOn(n) /\ KeptAll(n) /\ UNCHANGED ptr /\ BarrierAt(n)
    BY <2>1, Mild_Step
  <2>3. Leads(agenda'[n], Fourth(p))
    BY <1>6, <1>8, <2>2, MildLeads
  <2>4. NoSplit(new, d)
    BY <1>1, <2>2, BarrierKeeps DEF ent, new
  <2>5. \A o \in Objects : Kept(cm[o], cn[o])
    BY <2>2 DEF KeptAll, cm, cn
  <2>6. AllocRight(s, new, entered', cn["A"]) /\ cn["A"].mpicomm = c
    BY <1>4, <1>5, <2>5, KeptAlloc DEF c
  <2>7. SplitOff(n, new, entered', answers', c, cn["J"]) /\ cn["J"].mpicomm = d
    BY <1>4, <1>5, <2>5, KeptSplit DEF d
  <2>8. NotYet(cn["D"])
    BY <1>1, <1>5, <2>5, KeptNot
  <2>9. Placing(n, s, new, entered', answers', agenda'[n], cn, pt)
    BY <1>1, <2>3, <2>4, <2>6, <2>7, <2>8 DEF Placing, p
  <2> QED  BY <1>3, <2>2, <2>9 DEF Stage, StageOf, new, cn, pt
<1> QED  BY <1>1, <1>7, <1>8

LEMMA ProgramTame == ASSUME NEW it, ProgramCall(it) PROVE Tame(it)
  BY DEF ProgramCall, Tame, Splitting

LEMMA LastTame ==
  ASSUME NEW p, IsSequence(p), \A i \in 1 .. Len(p) : ProgramCall(p[i])
  PROVE  \A i \in 1 .. Len(Last(p)) : Tame(Last(p)[i])
<1> DEFINE ag == Last(p)
           it == Barrier("def")
           L == Len(p)
<1>1. Tame(it)
  BY DEF Barrier, Mpi, Tame, Splitting
<1>2. L \in Nat /\ Len(ag) = L + 1 /\ ag[1] = it /\ \A i \in 1 .. L : ag[i + 1] = p[i]
  BY ThenIs DEF Last
<1>3. \A i \in 1 .. L : Tame(p[i])
  BY ProgramTame
<1> HIDE DEF ag, it, L
<1>4. ASSUME NEW i \in 1 .. L + 1 PROVE Tame(ag[i])
  <2>1. CASE i = 1
    BY <1>1, <1>2, <2>1
  <2>2. CASE i # 1
    <3>1. i - 1 \in 1 .. L /\ (i - 1) + 1 = i
      BY <1>2, <2>2
    <3> QED  BY <1>2, <1>3, <3>1
  <2> QED  BY <2>1, <2>2
<1> QED  BY <1>2, <1>4 DEF ag

LEMMA DividingDef_Step ==
  ASSUME StartupInv, NEW n \in Node, Step(n),
         DividingDef(n, scenario, entered[n], entered, answers, agenda[n], inside[n], reg[n], comm[n], ptr[n])
  PROVE  Stage(n)'
<1> DEFINE s == scenario
           p == s.prog[n]
           ent == entered[n]
           new == entered'[n]
           cm == comm[n]
           cn == comm'[n]
           pt == ptr[n]
           c == cm["A"].mpicomm
           d == cm["J"].mpicomm
<1>1. /\ AllocRight(s, ent, entered, cm["A"]) /\ SplitOff(n, ent, entered, answers, c, cm["J"])
      /\ pt["job"] = "J"
      /\ Dividing(ent, entered, answers, agenda[n], inside[n], reg[n], cm["D"], pt["def"], d,
                  "job", 0, "def", "J", Last(p))
  BY DEF DividingDef
<1>2. IsSequence(p) /\ IsSequence(Last(p)) /\ \A i \in 1 .. Len(p) : ProgramCall(p[i])
  BY Agendas
<1>3. scenario' = s
  BY Settled
<1>4. ObjectOf("def") = "D"
  BY DEF ObjectOf
<1>5. Splits(n, d, "job", 0, "def", "J", Last(p))
  BY <1>1, <1>2, <1>4 DEF Splits
<1>6. DividingNow(n, d, "job", 0, "def", "J", Last(p))
  BY <1>1, <1>4 DEF DividingNow
<1>7. /\ \A q \in Objects \ {"D"} : cn[q] = cm[q]
      /\ \A q \in {"alloc", "job", "def"} \ {"def"} : ptr'[n][q] = pt[q]
      /\ \/ Dividing(new, entered', answers', agenda'[n], inside'[n], reg'[n], cn["D"], ptr'[n]["def"], d,
                     "job", 0, "def", "J", Last(p))
         \/ /\ agenda'[n] = Last(p) /\ cn["D"].color = 0
            /\ SplitOff(n, new, entered', answers', d, cn["D"])
  <2> HIDE DEF d, p
  <2> QED  BY <1>4, <1>5, <1>6, Dividing_Step
<1>8. cn["A"] = cm["A"] /\ cn["J"] = cm["J"] /\ ptr'[n]["job"] = "J"
  BY <1>1, <1>7 DEF Objects
<1>9. AllocRight(s, new, entered', cn["A"]) /\ SplitOff(n, new, entered', answers', c, cn["J"])
  BY <1>1, <1>8, Settled
<1>10. cn["A"].mpicomm = c /\ cn["J"].mpicomm = d
  BY <1>8
<1> HIDE DEF s, p, ent, new, cm, pt, cn, c, d
<1>11. CASE Dividing(new, entered', answers', agenda'[n], inside'[n], reg'[n], cn["D"], ptr'[n]["def"], d,
                     "job", 0, "def", "J", Last(p))
  <2>1. DividingDef(n, s, new, entered', answers', agenda'[n], inside'[n], reg'[n], cn, ptr'[n])
    BY <1>8, <1>9, <1>10, <1>11 DEF DividingDef, p
  <2> QED  BY <1>3, <2>1 DEF Stage, StageOf, new, cn
<1>12. CASE /\ agenda'[n] = Last(p) /\ cn["D"].color = 0
            /\ SplitOff(n, new, entered', answers', d, cn["D"])
  <2>1. \A i \in 1 .. Len(agenda'[n]) : Tame(agenda'[n][i])
    BY <1>2, <1>12, LastTame
  <2>2. Running(n, s, new, entered', answers', agenda'[n], cn)
    BY <1>9, <1>10, <1>12, <2>1 DEF Running
  <2> QED  BY <1>3, <2>2 DEF Stage, StageOf, new, cn
<1> QED  BY <1>7, <1>11, <1>12

-----------------------------------------------------------------------------
(* The program.                                                            *)

AllTame(items) == IsSequence(items) /\ \A i \in 1 .. Len(items) : Tame(items[i])
\* The program goes on with calls of its own, and leaves alone what QMP has set up.
RunsOn(n) ==
  \/ agenda'[n] = agenda[n]
  \/ \E items : AllTame(items) /\ agenda'[n] = items \o Tail(agenda[n])
KeepsOwn(n) == \A o \in {"A", "J", "D"} : Kept(comm[n][o], comm'[n][o])

LEMMA TameItems ==
  /\ AllTame(<<>>)
  /\ \A a : Tame(a) => AllTame(<<a>>)
  /\ \A a, b : Tame(a) /\ Tame(b) => AllTame(<<a, b>>)
<1>1. AllTame(<<>>)
  BY NoItems DEF AllTame
<1>2. ASSUME NEW a, Tame(a) PROVE AllTame(<<a>>)
  <2> DEFINE s == <<a>>
  <2>1. IsSequence(s) /\ Len(s) = 1 /\ s[1] = a
    BY OneItem
  <2> HIDE DEF s
  <2>2. \A i \in 1 .. 1 : i = 1
    OBVIOUS
  <2>3. AllTame(s)
    BY <1>2, <2>1, <2>2 DEF AllTame
  <2> QED  BY <2>3 DEF s
<1>3. ASSUME NEW a, NEW b, Tame(a), Tame(b) PROVE AllTame(<<a, b>>)
  <2> DEFINE s == <<a, b>>
  <2>1. IsSequence(s) /\ Len(s) = 2 /\ s[1] = a /\ s[2] = b
    BY ThreeItems
  <2> HIDE DEF s
  <2>2. \A i \in 1 .. 2 : i = 1 \/ i = 2
    OBVIOUS
  <2>3. AllTame(s)
    BY <1>3, <2>1, <2>2 DEF AllTame
  <2> QED  BY <2>3 DEF s
<1> QED  BY <1>1, <1>2, <1>3

LEMMA TameOn ==
  ASSUME NEW ag, AllTame(ag), ag # <<>>, NEW items, AllTame(items)
  PROVE  AllTame(items \o Tail(ag))
<1> DEFINE L == Len(items)
           M == Len(ag)
           new == items \o Tail(ag)
<1>1. /\ IsSequence(new) /\ M \in Nat \ {0} /\ L \in Nat /\ Len(new) = L + M - 1
      /\ \A i \in 1 .. L : new[i] = items[i]
      /\ \A i \in L + 1 .. L + M - 1 : new[i] = ag[i - L + 1]
  BY Replaced DEF AllTame
<1>2. (\A i \in 1 .. L : Tame(items[i])) /\ \A i \in 1 .. M : Tame(ag[i])
  BY DEF AllTame
<1> HIDE DEF new, L, M
<1>3. ASSUME NEW i \in 1 .. L + M - 1 PROVE Tame(new[i])
  <2>1. CASE i <= L
    <3>1. i \in 1 .. L
      BY <1>1, <2>1
    <3> QED  BY <1>1, <1>2, <3>1
  <2>2. CASE ~(i <= L)
    <3>1. i \in L + 1 .. L + M - 1 /\ i - L + 1 \in 1 .. M
      BY <1>1, <2>2
    <3> QED  BY <1>1, <1>2, <3>1
  <2> QED  BY <2>1, <2>2
<1>4. AllTame(new)
  BY <1>1, <1>3 DEF AllTame
<1> QED  BY <1>4 DEF new

\* How to see that the program goes on.
LEMMA RunsBy ==
  ASSUME StartupInv, NEW n \in Node, NEW items, AllTame(items), Instead(n, items)
  PROVE  RunsOn(n)
<1>1. agenda'[n] = items \o Tail(agenda[n])
  BY DEF Instead, StartupInv, ShapeOK
<1> QED  BY <1>1 DEF RunsOn

LEMMA RunsStill ==
  ASSUME NEW n, Abort PROVE RunsOn(n) /\ KeepsOwn(n)
  BY DEF Abort, collVars, RunsOn, KeepsOwn, Kept

LEMMA OwnSame == ASSUME NEW n, UNCHANGED comm PROVE KeepsOwn(n)
  BY DEF KeepsOwn, Kept

LEMMA OwnElse ==
  ASSUME StartupInv, NEW n \in Node, NEW s, SetComm(n, "S", s) PROVE KeepsOwn(n)
<1>1. "S" \in Objects /\ {"A", "J", "D"} \subseteq Objects \ {"S"}
  BY DEF Objects
<1>2. \A q \in Objects \ {"S"} : comm'[n][q] = comm[n][q]
  BY <1>1, SetTo
<1> QED  BY <1>1, <1>2 DEF KeepsOwn, Kept

\* What makes an item tame.
LEMMA TameIs ==
  ASSUME NEW it, it.do \notin {"nmpi", "reduced", "parse", "job", "geometry"},
         it.do \in Splitting => it.into = "sub"
  PROVE  Tame(it)
  BY DEF Tame

LEMMA MpiTame == \A o, op, type, arg : Tame(Mpi(o, op, type, arg))
  BY DEF Mpi, Tame, Splitting

LEMMA DeclareTame == \A o, dims, ndim, map, nmap : Tame(DeclareItem(o, dims, ndim, map, nmap))
  BY DEF DeclareItem, Tame, Splitting

LEMMA AfterTame ==
  ASSUME NEW it, "do" \in DOMAIN it, NEW d,
         d \notin {"nmpi", "reduced", "parse", "job", "geometry"}, d \notin Splitting
  PROVE  Tame([it EXCEPT !.do = d])
  BY DEF Tame

-----------------------------------------------------------------------------
LEMMA Reduces_Tame ==
  ASSUME StartupInv, NEW n \in Node, Reduce(n) \/ Exchange(n) \/ BinaryReduction(n)
  PROVE  RunsOn(n) /\ KeepsOwn(n)
<1> DEFINE it == Todo(n)
           r == Calls[it.call]
<1>1. "do" \in DOMAIN it
  <2>1. \E kind : IsAt(n, kind)
    BY DEF Reduce, Exchange, BinaryReduction
  <2> QED  BY <2>1, HeadOK
<1>2. ASSUME NEW o, NEW op, NEW type, NEW arg, NEW d \in {"back", "copied", "unhook"},
             Instead(n, <<Mpi(o, op, type, arg), [it EXCEPT !.do = d]>>)
      PROVE  RunsOn(n)
  <2> DEFINE a == Mpi(o, op, type, arg)
             b == [it EXCEPT !.do = d]
  <2>1. Tame(a)
    BY MpiTame
  <2>2. Tame(b)
    <3> HIDE DEF it
    <3> QED  BY <1>1, AfterTame DEF Splitting
  <2>3. Instead(n, <<a, b>>)
    BY <1>2
  <2> HIDE DEF a, b
  <2> QED  BY <2>1, <2>2, <2>3, TameItems, RunsBy
<1>3. CASE Reduce(n)
  <2>1. Instead(n, <<Mpi(it.comm, r.op, r.mpi, AsMpi(Widened(it.arg, r), r)), [it EXCEPT !.do = "back"]>>)
        /\ UNCHANGED comm
    BY <1>3 DEF Reduce
  <2> HIDE DEF it, r
  <2> QED  BY <1>2, <2>1, OwnSame
<1>4. CASE Exchange(n)
  <2>1. Instead(n, <<Mpi(it.comm, it.call, "byte", it.arg), [it EXCEPT !.do = "copied"]>>)
        /\ UNCHANGED comm
    BY <1>4 DEF Exchange
  <2> HIDE DEF it, r
  <2> QED  BY <1>2, <2>1, OwnSame
<1>5. CASE BinaryReduction(n)
  <2>1. \/ Abort
        \/ Instead(n, <<Mpi(it.comm, "user", "byte", it.arg), [it EXCEPT !.do = "unhook"]>>)
           /\ UNCHANGED comm
    BY <1>5 DEF BinaryReduction
  <2> HIDE DEF it, r
  <2> QED  BY <1>2, <2>1, OwnSame, RunsStill
<1> QED  BY <1>3, <1>4, <1>5

LEMMA Off_Tame ==
  ASSUME StartupInv, NEW n \in Node,
         Back(n) \/ Copied(n) \/ Unhook(n) \/ SetDefault(n) \/ SetSubgrid(n) \/ FreeComm(n)
  PROVE  RunsOn(n) /\ KeepsOwn(n)
<1>1. Instead(n, <<>>) /\ (UNCHANGED comm \/ SetComm(n, "S", None))
  BY DEF Back, Copied, Unhook, SetDefault, SetSubgrid, FreeComm, Goes
<1> QED  BY <1>1, TameItems, RunsBy, OwnSame, OwnElse

LEMMA Layout_Tame ==
  ASSUME StartupInv, NEW n \in Node,
         DeclareLogical(n) \/ LayoutGrid(n) \/ Search(n) \/ UseDeclared(n)
  PROVE  RunsOn(n) /\ KeepsOwn(n)
<1> DEFINE it == Todo(n)
<1>1. UNCHANGED comm
  BY DEF DeclareLogical, LayoutGrid, Search, UseDeclared
<1>2. "do" \in DOMAIN it
  <2>1. \E kind : IsAt(n, kind)
    BY DEF DeclareLogical, LayoutGrid, Search, UseDeclared
  <2> QED  BY <2>1, HeadOK
<1>3. \A dims, ndim, nsq : /\ Tame([do |-> "declare_logical", dims |-> dims, ndim |-> ndim])
                           /\ Tame([do |-> "subgrid", dims |-> dims, nsq |-> nsq])
  BY DEF Tame, Splitting
<1>4. CASE DeclareLogical(n)
  <2> DEFINE a == DeclareItem("def", it.dims, it.ndim, args[n].lmap, args[n].lmaplen)
  <2>1. Instead(n, <<a>>)
    BY <1>4 DEF DeclareLogical, Goes
  <2>2. Tame(a)
    BY DeclareTame
  <2> HIDE DEF a
  <2> QED  BY <1>1, <2>1, <2>2, TameItems, RunsBy, OwnSame
<1>5. CASE LayoutGrid(n)
  <2> DEFINE a == [do |-> "declare_logical", dims |-> Dimensions(n, "job"),
                   ndim |-> NumberOfDimensions(n, "job")]
             b == [it EXCEPT !.do = "search"]
  <2>1. Instead(n, <<b>>) \/ Instead(n, <<a, b>>)
    BY <1>5 DEF LayoutGrid, Goes
  <2>2. Tame(a)
    BY <1>3
  <2>3. Tame(b)
    <3> HIDE DEF it
    <3> QED  BY <1>2, AfterTame DEF Splitting
  <2> HIDE DEF a, b
  <2> QED  BY <1>1, <2>1, <2>2, <2>3, TameItems, RunsBy, OwnSame
<1>6. CASE Search(n)
  <2> DEFINE nsq == Layout(it.dims, Struct(n, "def").num_nodes)
             a == [do |-> "declare_logical", dims |-> nsq, ndim |-> Len(nsq)]
             b == [do |-> "subgrid", dims |-> it.dims, nsq |-> nsq]
  <2>1. Instead(n, <<>>) \/ Instead(n, <<a, b>>)
    BY <1>6 DEF Search, Goes
  <2> HIDE DEF nsq, it
  <2>2. Tame(a) /\ Tame(b)
    BY <1>3
  <2> HIDE DEF a, b
  <2> QED  BY <1>1, <2>1, <2>2, TameItems, RunsBy, OwnSame
<1>7. CASE UseDeclared(n)
  <2> DEFINE dims == it.dims
             ld  == Dimensions(n, "def")
             nsq == [i \in DOMAIN dims |-> IF i <= Len(ld) THEN ld[i] ELSE 1]
             a == [do |-> "subgrid", dims |-> dims, nsq |-> nsq]
  <2>1. Instead(n, <<>>) \/ Instead(n, <<a>>)
    BY <1>7 DEF UseDeclared, Goes
  <2> HIDE DEF nsq, dims
  <2>2. Tame(a)
    BY <1>3
  <2> HIDE DEF a
  <2> QED  BY <1>1, <2>1, <2>2, TameItems, RunsBy, OwnSame
<1> QED  BY <1>4, <1>5, <1>6, <1>7

LEMMA Split_Tame ==
  ASSUME StartupInv, NEW n \in Node, Split(n), Tame(Todo(n))
  PROVE  RunsOn(n) /\ KeepsOwn(n)
<1> DEFINE it == Todo(n)
           s == [Blank EXCEPT !.color = it.color, !.key = it.key]
           p == Object(n, it.comm)
           a == Mpi(p, "max", "double", <<it.color>>)
           b == AfterOn(it, "count", p)
<1>1. IsAt(n, "split") /\ SetComm(n, ObjectOf(it.into), s) /\ Instead(n, <<a, b>>)
  BY DEF Split, Goes, AfterOn
<1>2. ItemOK(it) /\ it.do = "split"
  BY <1>1, HeadOK
<1>3. {"do", "comm", "into", "key"} \subseteq DOMAIN it /\ it.into = "sub"
  BY <1>2 DEF ItemOK, Splitting, Tame
<1>4. Tame(a)
  BY MpiTame
<1>5. Tame(b)
  <2> HIDE DEF it, p
  <2>1. b.do = "count" /\ b.into = it.into
    BY <1>3 DEF AfterOn
  <2> QED  BY <1>3, <2>1, TameIs
<1>6. ObjectOf(it.into) = "S"
  BY <1>3 DEF ObjectOf
<1> HIDE DEF a, b, s
<1> QED  BY <1>1, <1>4, <1>5, <1>6, TameItems, RunsBy, OwnElse

LEMMA Counts_Tame ==
  ASSUME StartupInv, NEW n \in Node, Count(n) \/ Colors(n), Tame(Todo(n))
  PROVE  RunsOn(n) /\ KeepsOwn(n)
<1> DEFINE it == Todo(n)
<1>1. PICK kind \in {"count", "colors"} : IsAt(n, kind)
  BY DEF Count, Colors
<1>2. ItemOK(it) /\ it.do = kind
  BY <1>1, HeadOK
<1>3. {"do", "comm", "into", "key"} \subseteq DOMAIN it /\ it.into = "sub"
  BY <1>2 DEF ItemOK, Splitting, Tame
<1>4. \A d \in Splitting : Tame(After(it, d))
  <2> SUFFICES ASSUME NEW d \in Splitting PROVE Tame(After(it, d))
    OBVIOUS
  <2> HIDE DEF it
  <2> DEFINE b == After(it, d)
  <2>1. b.do = d /\ b.into = it.into
    BY <1>3 DEF After
  <2> HIDE DEF b
  <2>2. Tame(b)
    BY <1>3, <2>1 DEF Tame, Splitting
  <2> QED  BY <2>2 DEF b
<1>5. CASE Count(n)
  <2> DEFINE cmax == 1 + reg[n].data[1]
             a == Mpi(it.comm, "sum", "double", [i \in 1 .. cmax |-> IF i - 1 = it.color THEN 1 ELSE 0])
             b == After(it, "colors")
  <2>1. \/ Abort
        \/ Instead(n, <<a, b>>) /\ UNCHANGED comm
    BY <1>5 DEF Count, Goes, After
  <2>2. Tame(a) /\ Tame(b)
    BY <1>4, MpiTame DEF Splitting
  <2> HIDE DEF a, b
  <2> QED  BY <2>1, <2>2, TameItems, RunsBy, OwnSame, RunsStill
<1>6. CASE Colors(n)
  <2> DEFINE o == ObjectOf(it.into)
             s == [comm[n][o] EXCEPT !.ncolors = Distinct(reg[n].data)]
             a == Mpi(it.comm, "split", None, [color |-> it.color, key |-> it.key])
             b == After(it, "made")
  <2>1. \/ Abort
        \/ /\ Instead(n, <<a, b>>)
           /\ comm' = [comm EXCEPT ![n][o].ncolors = Distinct(reg[n].data)]
    BY <1>6 DEF Colors, Goes, After
  <2>2. Tame(a) /\ Tame(b)
    BY <1>4, MpiTame DEF Splitting
  <2>3. CASE Abort
    BY <2>3, RunsStill
  <2>4. CASE ~Abort
    <3>1. Instead(n, <<a, b>>) /\ SetComm(n, o, s)
      BY <2>1, <2>4 DEF SetComm
    <3>2. o = "S"
      BY <1>3 DEF ObjectOf
    <3> HIDE DEF a, b, s, o
    <3> QED  BY <2>2, <3>1, <3>2, TameItems, RunsBy, OwnElse
  <2> QED  BY <2>3, <2>4
<1> QED  BY <1>5, <1>6

LEMMA Made_Tame ==
  ASSUME StartupInv, NEW n \in Node, Made(n), Tame(Todo(n))
  PROVE  RunsOn(n) /\ KeepsOwn(n)
<1> DEFINE o == ObjectOf(Todo(n).into)
           s == Completed(n, comm[n][o], reg[n].comm)
<1>1. IsAt(n, "made") /\ SetComm(n, o, s) /\ Instead(n, <<>>)
  BY DEF Made, Goes
<1>2. Todo(n).do = "made"
  BY <1>1, HeadOK
<1>3. o = "S"
  BY <1>2 DEF Tame, Splitting, ObjectOf
<1> HIDE DEF s, o
<1> QED  BY <1>1, <1>3, TameItems, RunsBy, OwnElse

\* What is said of a declaration holds of the program as well.
LEMMA MildTame ==
  ASSUME NEW n, MildOn(n), KeptAll(n)
  PROVE  RunsOn(n) /\ KeepsOwn(n)
<1>1. \A it : Mild(it) => Tame(it)
  BY DEF Mild, CallTo, Tame, Splitting
<1>2. RunsOn(n)
  BY <1>1 DEF MildOn, RunsOn, AllTame
<1>3. KeepsOwn(n)
  BY DEF KeptAll, KeepsOwn, Objects
<1> QED  BY <1>2, <1>3

LEMMA Call_Tame ==
  ASSUME StartupInv, NEW n \in Node, Enter(n) \/ Leave(n), UNCHANGED startVars
  PROVE  RunsOn(n) /\ KeepsOwn(n)
<1>1. CASE Enter(n)
  <2>1. agenda'[n] = agenda[n] /\ UNCHANGED comm
    BY <1>1, Entered
  <2> QED  BY <2>1, OwnSame DEF RunsOn
<1>2. CASE Leave(n)
  <2>1. Instead(n, <<>>) /\ UNCHANGED comm
    BY <1>2 DEF Leave
  <2> QED  BY <2>1, TameItems, RunsBy, OwnSame
<1> QED  BY <1>1, <1>2

LEMMA Tame_Step ==
  ASSUME StartupInv, NEW n \in Node, Step(n), Tame(Todo(n))
  PROVE  RunsOn(n) /\ KeepsOwn(n)
<1>1. Todo(n).do \notin {"nmpi", "reduced", "parse", "job", "geometry"}
  BY DEF Tame
<1>2. CASE (Enter(n) \/ Leave(n)) /\ UNCHANGED startVars
  BY <1>2, Call_Tame
<1>3. CASE Reduce(n) \/ Exchange(n) \/ BinaryReduction(n)
  BY <1>3, Reduces_Tame
<1>4. CASE Back(n) \/ Copied(n) \/ Unhook(n) \/ SetDefault(n) \/ SetSubgrid(n) \/ FreeComm(n)
  BY <1>4, Off_Tame
<1>5. CASE Split(n) \/ Count(n) \/ Colors(n) \/ Made(n)
  BY <1>5, Split_Tame, Counts_Tame, Made_Tame
<1>6. CASE Declare(n) \/ SetTopo(n) \/ Neighbours(n)
  BY <1>6, Declare_Mild, SetTopo_Mild, Neighbours_Mild, MildTame
<1>7. CASE DeclareLogical(n) \/ LayoutGrid(n) \/ Search(n) \/ UseDeclared(n)
  BY <1>7, Layout_Tame
<1> QED  BY <1>1, <1>2, <1>3, <1>4, <1>5, <1>6, <1>7, Kinds, Zenon DEF At

LEMMA Running_Step ==
  ASSUME StartupInv, NEW n \in Node, Step(n),
         Running(n, scenario, entered[n], entered, answers, agenda[n], comm[n])
  PROVE  Stage(n)'
<1> DEFINE s == scenario
           ent == entered[n]
           new == entered'[n]
           ag == agenda[n]
           next == agenda'[n]
           cm == comm[n]
           cn == comm'[n]
           c == cm["A"].mpicomm
           d == cm["J"].mpicomm
<1>1. /\ AllocRight(s, ent, entered, cm["A"]) /\ SplitOff(n, ent, entered, answers, c, cm["J"])
      /\ SplitOff(n, ent, entered, answers, d, cm["D"]) /\ cm["D"].color = 0
      /\ \A i \in 1 .. Len(ag) : Tame(ag[i])
  BY DEF Running
<1>2. scenario' = s
  BY Settled
<1>3. IsSequence(ag) /\ ag # <<>> /\ Todo(n) = ag[1]
  BY AgendaSequence, Acts
<1>4. AllTame(ag)
  BY <1>1, <1>3 DEF AllTame
<1>5. Tame(Todo(n))
  <2> HIDE DEF ag
  <2>1. Len(ag) \in Nat \ {0}
    BY <1>3, TailIs
  <2> QED  BY <1>1, <1>3, <2>1
<1>6. RunsOn(n) /\ KeepsOwn(n)
  BY <1>5, Tame_Step
<1>7. AllTame(next)
  BY <1>3, <1>4, <1>6, TameOn DEF RunsOn
<1>8. /\ AllocRight(s, new, entered', cm["A"]) /\ SplitOff(n, new, entered', answers', c, cm["J"])
      /\ SplitOff(n, new, entered', answers', d, cm["D"])
  BY <1>1, Settled
<1>9. Fields \subseteq DOMAIN cm["A"]
  BY Structs
<1>10. \A o \in {"A", "J", "D"} : Kept(cm[o], cn[o])
  BY <1>6 DEF KeepsOwn
<1> HIDE DEF s, ent, new, ag, next, cm, cn, c, d
<1>11. AllocRight(s, new, entered', cn["A"]) /\ cn["A"].mpicomm = c
  BY <1>8, <1>9, <1>10, KeptAlloc DEF c
<1>12. SplitOff(n, new, entered', answers', c, cn["J"]) /\ cn["J"].mpicomm = d
  BY <1>8, <1>10, KeptSplit DEF d
<1>13. SplitOff(n, new, entered', answers', d, cn["D"]) /\ cn["D"].color = 0
  BY <1>1, <1>8, <1>10, KeptSplit
<1>14. Running(n, s, new, entered', answers', next, cn)
  BY <1>7, <1>11, <1>12, <1>13 DEF Running, AllTame
<1> QED  BY <1>2, <1>14 DEF Stage, StageOf, new, next, cn

-----------------------------------------------------------------------------
(* The stages are inductive.                                               *)

LEMMA ThenAre ==
  ASSUME NEW it, NEW rest, IsSequence(rest), NEW ag, ag = Then(it, rest)
  PROVE  /\ IsSequence(ag) /\ Len(ag) = Len(rest) + 1 /\ ag[1] = it
         /\ \A i \in 1 .. Len(rest) : ag[i + 1] = rest[i]
  BY ThenIs

\* Six items one by one and six in a row.
LEMMA SixItems ==
  ASSUME NEW a, NEW b, NEW c, NEW d, NEW e, NEW f, NEW p, IsSequence(p),
         NEW last, last = Then(f, p), NEW fourth, fourth = Then(e, last),
         NEW third, third = Then(d, fourth), NEW second, second = Then(c, third),
         NEW first, first = Then(b, second)
  PROVE  <<a, b, c, d, e, f>> \o p = Then(a, first)
<1> DEFINE s == <<a, b, c, d, e, f>>
           new == Then(a, first)
           old == s \o p
           L == Len(p)
           M == Len(s)
<1>3. s \in Seq({a, b, c, d, e, f}) /\ M = 6
      /\ s[1] = a /\ s[2] = b /\ s[3] = c /\ s[4] = d /\ s[5] = e /\ s[6] = f
  OBVIOUS
<1>4. IsSequence(s)
  <2> HIDE DEF s
  <2> QED  BY <1>3, SequenceIs
<1> HIDE DEF s
<1>20. /\ IsSequence(old) /\ L \in Nat /\ Len(old) = M + L
       /\ \A i \in 1 .. M + L : old[i] = IF i <= M THEN s[i] ELSE p[i - M]
  BY <1>4, Joined
<1> HIDE DEF old, L, M
<1>5. /\ IsSequence(old) /\ L \in Nat /\ Len(old) = 6 + L
      /\ \A i \in 1 .. 6 + L : old[i] = IF i <= 6 THEN s[i] ELSE p[i - 6]
  BY <1>3, <1>20, Zenon
<1>6. /\ IsSequence(last) /\ Len(last) = L + 1 /\ last[1] = f
      /\ \A i \in 1 .. L : last[i + 1] = p[i]
  BY ThenAre DEF L
<1> HIDE DEF new
<1>7. /\ IsSequence(fourth) /\ Len(fourth) = L + 2 /\ fourth[1] = e
      /\ \A i \in 1 .. L + 1 : fourth[i + 1] = last[i]
  <2>1. IsSequence(last) /\ fourth = Then(e, last)
    BY <1>6
  <2>2. /\ IsSequence(fourth) /\ Len(fourth) = Len(last) + 1 /\ fourth[1] = e
        /\ \A i \in 1 .. Len(last) : fourth[i + 1] = last[i]
    BY <2>1, ThenAre
  <2> QED  BY <1>5, <1>6, <2>2
<1>8. /\ IsSequence(third) /\ Len(third) = L + 3 /\ third[1] = d
      /\ \A i \in 1 .. L + 2 : third[i + 1] = fourth[i]
  <2>1. IsSequence(fourth) /\ third = Then(d, fourth)
    BY <1>7
  <2>2. /\ IsSequence(third) /\ Len(third) = Len(fourth) + 1 /\ third[1] = d
        /\ \A i \in 1 .. Len(fourth) : third[i + 1] = fourth[i]
    BY <2>1, ThenAre
  <2> QED  BY <1>5, <1>7, <2>2
<1>9. /\ IsSequence(second) /\ Len(second) = L + 4 /\ second[1] = c
      /\ \A i \in 1 .. L + 3 : second[i + 1] = third[i]
  <2>1. IsSequence(third) /\ second = Then(c, third)
    BY <1>8
  <2>2. /\ IsSequence(second) /\ Len(second) = Len(third) + 1 /\ second[1] = c
        /\ \A i \in 1 .. Len(third) : second[i + 1] = third[i]
    BY <2>1, ThenAre
  <2> QED  BY <1>5, <1>8, <2>2
<1>10. /\ IsSequence(first) /\ Len(first) = L + 5 /\ first[1] = b
       /\ \A i \in 1 .. L + 4 : first[i + 1] = second[i]
  <2>1. IsSequence(second) /\ first = Then(b, second)
    BY <1>9
  <2>2. /\ IsSequence(first) /\ Len(first) = Len(second) + 1 /\ first[1] = b
        /\ \A i \in 1 .. Len(second) : first[i + 1] = second[i]
    BY <2>1, ThenAre
  <2> QED  BY <1>5, <1>9, <2>2
<1>11. /\ IsSequence(new) /\ Len(new) = L + 6 /\ new[1] = a
       /\ \A i \in 1 .. L + 5 : new[i + 1] = first[i]
  <2>1. IsSequence(first) /\ new = Then(a, first)
    BY <1>10 DEF new
  <2>2. /\ IsSequence(new) /\ Len(new) = Len(first) + 1 /\ new[1] = a
        /\ \A i \in 1 .. Len(first) : new[i + 1] = first[i]
    BY <2>1, ThenAre
  <2> QED  BY <1>5, <1>10, <2>2
<1>12. ASSUME NEW i \in 1 .. L PROVE new[i + 6] = p[i]
  <2>1. last[i + 1] = p[i]
    BY <1>6
  <2>2. fourth[i + 2] = last[i + 1]
    <3>1. i + 1 \in 1 .. L + 1 /\ (i + 1) + 1 = i + 2
      BY <1>5
    <3> QED  BY <1>7, <3>1
  <2>3. third[i + 3] = fourth[i + 2]
    <3>1. i + 2 \in 1 .. L + 2 /\ (i + 2) + 1 = i + 3
      BY <1>5
    <3> QED  BY <1>8, <3>1
  <2>4. second[i + 4] = third[i + 3]
    <3>1. i + 3 \in 1 .. L + 3 /\ (i + 3) + 1 = i + 4
      BY <1>5
    <3> QED  BY <1>9, <3>1
  <2>5. first[i + 5] = second[i + 4]
    <3>1. i + 4 \in 1 .. L + 4 /\ (i + 4) + 1 = i + 5
      BY <1>5
    <3> QED  BY <1>10, <3>1
  <2>6. new[i + 6] = first[i + 5]
    <3>1. i + 5 \in 1 .. L + 5 /\ (i + 5) + 1 = i + 6
      BY <1>5
    <3> QED  BY <1>11, <3>1
  <2> QED  BY <2>1, <2>2, <2>3, <2>4, <2>5, <2>6
<1>13. new[2] = b /\ new[3] = c /\ new[4] = d /\ new[5] = e /\ new[6] = f
  <2>1. last[1] = f /\ fourth[2] = last[1] /\ third[3] = fourth[2] /\ second[4] = third[3]
        /\ first[5] = second[4] /\ new[6] = first[5]
    <3>1. /\ 1 \in 1 .. L + 1 /\ 2 \in 1 .. L + 2 /\ 3 \in 1 .. L + 3 /\ 4 \in 1 .. L + 4
          /\ 5 \in 1 .. L + 5 /\ 1 + 1 = 2 /\ 2 + 1 = 3 /\ 3 + 1 = 4 /\ 4 + 1 = 5 /\ 5 + 1 = 6
      BY <1>5
    <3> QED  BY <1>6, <1>7, <1>8, <1>9, <1>10, <1>11, <3>1
  <2>2. fourth[1] = e /\ third[2] = fourth[1] /\ second[3] = third[2]
        /\ first[4] = second[3] /\ new[5] = first[4]
    <3>1. /\ 1 \in 1 .. L + 2 /\ 2 \in 1 .. L + 3 /\ 3 \in 1 .. L + 4
          /\ 4 \in 1 .. L + 5 /\ 1 + 1 = 2 /\ 2 + 1 = 3 /\ 3 + 1 = 4 /\ 4 + 1 = 5
      BY <1>5
    <3> QED  BY <1>7, <1>8, <1>9, <1>10, <1>11, <3>1
  <2>3. third[1] = d /\ second[2] = third[1] /\ first[3] = second[2] /\ new[4] = first[3]
    <3>1. /\ 1 \in 1 .. L + 3 /\ 2 \in 1 .. L + 4 /\ 3 \in 1 .. L + 5
          /\ 1 + 1 = 2 /\ 2 + 1 = 3 /\ 3 + 1 = 4
      BY <1>5
    <3> QED  BY <1>8, <1>9, <1>10, <1>11, <3>1
  <2>4. second[1] = c /\ first[2] = second[1] /\ new[3] = first[2]
    <3>1. 1 \in 1 .. L + 4 /\ 2 \in 1 .. L + 5 /\ 1 + 1 = 2 /\ 2 + 1 = 3
      BY <1>5
    <3> QED  BY <1>9, <1>10, <1>11, <3>1
  <2>5. first[1] = b /\ new[2] = first[1]
    <3>1. 1 \in 1 .. L + 5 /\ 1 + 1 = 2
      BY <1>5
    <3> QED  BY <1>10, <1>11, <3>1
  <2> QED  BY <2>1, <2>2, <2>3, <2>4, <2>5
<1>14. ASSUME NEW i \in 1 .. 6 + L PROVE old[i] = new[i]
  <2>1. CASE i \in 1 .. 6
    <3>1. i \in {1, 2, 3, 4, 5, 6}
      BY <2>1
    <3>2. old[i] = s[i]
      BY <1>5, <2>1
    <3> QED  BY <1>3, <1>11, <1>13, <3>1, <3>2
  <2>2. CASE ~(i <= 6)
    <3>1. i - 6 \in 1 .. L /\ (i - 6) + 6 = i
      BY <1>5, <2>2
    <3>2. old[i] = p[i - 6]
      BY <1>5, <2>2
    <3> QED  BY <1>12, <3>1, <3>2
  <2> QED  BY <1>5, <2>1, <2>2
<1>15. Len(old) = Len(new)
  BY <1>5, <1>11
<1>16. old = new
  BY <1>5, <1>11, <1>14, <1>15, SameSequence
<1> QED  BY <1>16 DEF old, new, s

\* What a node has to do first.
LEMMA StartItems == ASSUME NEW p, IsSequence(p) PROVE InitItems \o p = Then([do |-> "nmpi"], First(p))
<1> DEFINE a == [do |-> "nmpi"]
           b == [do |-> "parse"]
           c == [do |-> "job"]
           d == [do |-> "geometry"]
           e == SplitItem("job", 0, 0, "def")
           f == Barrier("def")
<1>1. /\ Last(p) = Then(f, p) /\ Fourth(p) = Then(e, Last(p)) /\ Third(p) = Then(d, Fourth(p))
      /\ Second(p) = Then(c, Third(p)) /\ First(p) = Then(b, Second(p))
  BY DEF Last, Fourth, Third, Second, First, Part, SplitItem
<1>2. InitItems = <<a, b, c, d, e, f>>
  BY DEF InitItems
<1> HIDE DEF a, b, c, d, e, f
<1>3. <<a, b, c, d, e, f>> \o p = Then(a, First(p))
  <2> DEFINE last == Last(p)
             fourth == Fourth(p)
             third == Third(p)
             second == Second(p)
             first == First(p)
  <2>1. /\ last = Then(f, p) /\ fourth = Then(e, last) /\ third = Then(d, fourth)
        /\ second = Then(c, third) /\ first = Then(b, second)
    BY <1>1
  <2> HIDE DEF last, fourth, third, second, first
  <2>2. <<a, b, c, d, e, f>> \o p = Then(a, first)
    BY <2>1, SixItems
  <2> QED  BY <2>2 DEF first
<1> QED  BY <1>2, <1>3 DEF a

LEMMA InitStages == Init => StageInv
<1> SUFFICES ASSUME Init PROVE StageInv
  OBVIOUS
<1>1. PICK s \in Scenarios : NewScenario(s)
  BY DEF Init
<1>2. StartupInv
  BY InitHolds
<1>3. scenario = s
  BY <1>1 DEF NewScenario
<1>4. ASSUME NEW n \in Node PROVE Stage(n)
  <2> DEFINE p == s.prog[n]
             cm == comm[n]
             pt == ptr[n]
  <2>1. /\ IsSequence(p) /\ IsSequence(Last(p)) /\ IsSequence(Fourth(p)) /\ IsSequence(Third(p))
        /\ IsSequence(Second(p)) /\ IsSequence(First(p))
    BY <1>2, <1>3, Agendas
  <2>2. agenda[n] = InitItems \o p /\ argv[n] = Line(s) /\ entered[n] = <<>>
    BY <1>1 DEF NewScenario, Init, Line
  <2>3. agenda[n] = Then([do |-> "nmpi"], First(p))
    <3> HIDE DEF p
    <3> QED  BY <2>1, <2>2, StartItems
  <2>4. cm["A"].mpicomm = World /\ cm["A"].num_nodes = Cardinality(Node) /\ Young(cm, pt)
    <3>1. cm = [o \in Objects |-> IF o = "A" THEN Allocated(n) ELSE None]
      BY DEF Init
    <3>2. "A" \in Objects /\ "J" \in Objects /\ "D" \in Objects
      BY DEF Objects
    <3> DEFINE first == Allocated(n)
    <3>3. first.mpicomm = World /\ first.num_nodes = Cardinality(Node)
      BY DEF Allocated, Blank
    <3>4. pt["def"] = "A"
      BY DEF Init
    <3> HIDE DEF cm, first, pt
    <3>5. cm = [o \in Objects |-> IF o = "A" THEN first ELSE None]
      BY <3>1 DEF first
    <3> QED  BY <3>2, <3>3, <3>4, <3>5 DEF Young, NotYet
  <2>5. DOMAIN entered[n] = {}
    BY <2>2
  <2>6. Starting(n, s, entered[n], agenda[n], cm, pt, argv[n])
    <3> HIDE DEF cm, pt
    <3> QED  BY <2>2, <2>3, <2>4, <2>5 DEF Starting, p
  <2> QED  BY <1>3, <2>6 DEF Stage, StageOf
<1> QED  BY <1>4 DEF StageInv

LEMMA OwnStep ==
  ASSUME StartupInv, NEW n \in Node, Stage(n), Step(n)
  PROVE  Stage(n)'
<1>1. CASE LeftOver(scenario, entered[n], agenda[n], comm[n], args[n])
  BY <1>1, LeftOver_Step
<1>2. CASE Starting(n, scenario, entered[n], agenda[n], comm[n], ptr[n], argv[n])
  BY <1>2, Starting_Step
<1>3. CASE Reducing(n, scenario, entered[n], entered, agenda[n], inside[n], reg[n], comm[n], ptr[n])
  BY <1>3, Reducing_Step
<1>4. CASE Reading(n, scenario, entered[n], entered, agenda[n], comm[n], ptr[n])
  BY <1>4, Reading_Step
<1>5. CASE DividingJob(n, scenario, entered[n], entered, answers, agenda[n], inside[n], reg[n],
                       comm[n], ptr[n])
  BY <1>5, DividingJob_Step
<1>6. CASE Placing(n, scenario, entered[n], entered, answers, agenda[n], comm[n], ptr[n])
  <2>1. CASE agenda[n] = Fourth(scenario.prog[n])
    <3>1. IsSequence(Last(scenario.prog[n]))
      BY Agendas
    <3> QED  BY <1>6, <2>1, <3>1, PlacedIsDividing, DividingDef_Step
  <2>2. CASE agenda[n] # Fourth(scenario.prog[n])
    BY <1>6, <2>2, Placing_Step
  <2> QED  BY <2>1, <2>2
<1>7. CASE DividingDef(n, scenario, entered[n], entered, answers, agenda[n], inside[n], reg[n],
                       comm[n], ptr[n])
  BY <1>7, DividingDef_Step
<1>8. CASE Running(n, scenario, entered[n], entered, answers, agenda[n], comm[n])
  BY <1>8, Running_Step
<1> QED  BY <1>1, <1>2, <1>3, <1>4, <1>5, <1>6, <1>7, <1>8, Zenon DEF Stage, StageOf

LEMMA StagesHold ==
  ASSUME StartupInv, StageInv, [Next]_vars
  PROVE  StageInv'
<1>1. CASE UNCHANGED vars
  BY <1>1 DEF vars, collVars, startVars, StageInv, Stage
<1>2. ASSUME NEW n \in Node, Step(n) PROVE StageInv'
  <2>1. ASSUME NEW m \in Node PROVE Stage(m)'
    <3>1. Stage(m)
      BY DEF StageInv
    <3>2. CASE m = n
      BY <1>2, <3>1, <3>2, OwnStep
    <3>3. CASE m # n
      BY <1>2, <3>1, <3>3, OthersStay
    <3> QED  BY <3>2, <3>3
  <2> QED  BY <2>1 DEF StageInv
<1> QED  BY <1>1, <1>2 DEF Next

-----------------------------------------------------------------------------
(* What the nodes agree on.                                                *)

\* A communicator that is being split off is not complete.
LEMMA DividingNotYet ==
  ASSUME NEW ent, NEW E, NEW W, NEW ag, NEW ins, NEW rg, NEW x, NEW q, NEW c, NEW from, NEW color,
         NEW into, NEW o, NEW rest,
         Dividing(ent, E, W, ag, ins, rg, x, q, c, from, color, into, o, rest)
  PROVE  NotYet(x)
<1>1. Begun(x, q, color, into) => NotYet(x)
  BY DEF Begun, NotYet
<1> QED  BY <1>1 DEF Dividing, Asked, AtMax, AtCount, AtSum, AtColors, AtSplit, AtMade

\* What is known of a node once it has read its command line, has its job, has the default.
Allots(n) == AllocRight(scenario, entered[n], entered, comm[n]["A"])
Joins(n) == SplitOff(n, entered[n], entered, answers, comm[n]["A"].mpicomm, comm[n]["J"])
Defaults(n) == /\ SplitOff(n, entered[n], entered, answers, comm[n]["J"].mpicomm, comm[n]["D"])
               /\ comm[n]["D"].color = 0

LEMMA ReadsFirst ==
  ASSUME NEW n \in Node, StartupInv, args[n] # None
  PROVE  /\ ~Starting(n, scenario, entered[n], agenda[n], comm[n], ptr[n], argv[n])
         /\ ~Reducing(n, scenario, entered[n], entered, agenda[n], inside[n], reg[n], comm[n], ptr[n])
<1> DEFINE ag == agenda[n]
           p == scenario.prog[n]
           first == First(p)
           L == Len(ag)
<1>1. \A i \in 1 .. Len(ag) : ag[i].do \notin Early
  BY DEF StartupInv, Holds, NodeOK, ArgsOK
<1>2. IsSequence(first)
  BY Agendas
<1> HIDE DEF first, L
<1>3. ASSUME NEW it, NEW rest, IsSequence(rest), ag = Then(it, rest) PROVE it.do \notin Early
  <2> HIDE DEF ag
  <2>1. Len(rest) \in Nat /\ Len(ag) = Len(rest) + 1 /\ ag[1] = it
    BY <1>3, ThenIs
  <2>2. 1 \in 1 .. Len(ag)
    BY <2>1
  <2> QED  BY <1>1, <2>1, <2>2
<1>4. ASSUME NEW it, NEW jt, NEW rest, IsSequence(rest), ag = Then(it, Then(jt, rest)) PROVE jt.do \notin Early
  <2> DEFINE tail == Then(jt, rest)
  <2>1. IsSequence(tail) /\ Len(rest) \in Nat /\ Len(tail) = Len(rest) + 1 /\ tail[1] = jt
    BY <1>4, ThenIs
  <2> HIDE DEF tail, ag
  <2>2. ag = Then(it, tail)
    BY <1>4 DEF tail
  <2>3. Len(ag) = Len(tail) + 1 /\ \A i \in 1 .. Len(tail) : ag[i + 1] = tail[i]
    BY <2>1, <2>2, ThenIs
  <2>4. 1 \in 1 .. Len(tail) /\ 2 \in 1 .. Len(ag) /\ 1 + 1 = 2
    BY <2>1, <2>3
  <2>5. ag[2] = jt
    BY <2>1, <2>3, <2>4
  <2> QED  BY <1>1, <2>4, <2>5
<1> HIDE DEF ag
<1>5. ag # Then([do |-> "nmpi"], first)
  BY <1>2, <1>3 DEF Early
<1>6. \A v : ag # Then([do |-> "reduced", nmpi |-> v], first)
  <2> SUFFICES ASSUME NEW v PROVE ag # Then([do |-> "reduced", nmpi |-> v], first)
    OBVIOUS
  <2> DEFINE it == [do |-> "reduced", nmpi |-> v]
  <2>1. it.do \in Early
    BY DEF Early
  <2> HIDE DEF it
  <2>2. ag # Then(it, first)
    BY <1>2, <1>3, <2>1
  <2> QED  BY <2>2 DEF it
<1>7. \A jt, v : ag # Then(jt, Then([do |-> "reduced", nmpi |-> v], first))
  <2> SUFFICES ASSUME NEW jt, NEW v PROVE ag # Then(jt, Then([do |-> "reduced", nmpi |-> v], first))
    OBVIOUS
  <2> DEFINE it == [do |-> "reduced", nmpi |-> v]
  <2>1. it.do \in Early
    BY DEF Early
  <2> HIDE DEF it
  <2>2. ag # Then(jt, Then(it, first))
    BY <1>2, <1>4, <2>1
  <2> QED  BY <2>2 DEF it
<1>8. ~Starting(n, scenario, entered[n], agenda[n], comm[n], ptr[n], argv[n])
  BY <1>5 DEF Starting, ag, first
<1>9. \A color : /\ ~AtReduce(n, scenario, entered[n], ag, inside[n], color)
                 /\ ~AtReduced(n, scenario, entered[n], entered, ag, reg[n], color)
  BY <1>6, <1>7 DEF AtReduce, AtReduced, first
<1>10. ~Reducing(n, scenario, entered[n], entered, agenda[n], inside[n], reg[n], comm[n], ptr[n])
  BY <1>9 DEF Reducing, ag
<1> QED  BY <1>8, <1>10

LEMMA Known ==
  ASSUME StartupInv, StageInv, NEW n \in Node
  PROVE  /\ Parsed(n) => Allots(n)
         /\ Complete(n, "J") => Allots(n) /\ Joins(n)
         /\ Complete(n, "D") => Allots(n) /\ Joins(n) /\ Defaults(n)
<1> DEFINE J == comm[n]["J"]
           D == comm[n]["D"]
<1>1. Complete(n, "J") = ~NotYet(J) /\ Complete(n, "D") = ~NotYet(D)
  BY DEF Complete, NotYet
<1>2. Stage(n)
  BY DEF StageInv
<1>3. CASE LeftOver(scenario, entered[n], agenda[n], comm[n], args[n])
  BY <1>1, <1>3 DEF LeftOver, Parsed
<1>4. CASE Starting(n, scenario, entered[n], agenda[n], comm[n], ptr[n], argv[n])
  BY <1>1, <1>4, ReadsFirst DEF Starting, Young, Parsed
<1>5. CASE Reducing(n, scenario, entered[n], entered, agenda[n], inside[n], reg[n], comm[n], ptr[n])
  BY <1>1, <1>5, ReadsFirst DEF Reducing, Young, Parsed
<1>6. CASE Reading(n, scenario, entered[n], entered, agenda[n], comm[n], ptr[n])
  BY <1>1, <1>6 DEF Reading, Young, Allots
<1>7. CASE DividingJob(n, scenario, entered[n], entered, answers, agenda[n], inside[n], reg[n],
                       comm[n], ptr[n])
  <2>1. NotYet(J)
    BY <1>7, DividingNotYet DEF DividingJob
  <2> QED  BY <1>1, <1>7, <2>1 DEF DividingJob, Allots
<1>8. CASE Placing(n, scenario, entered[n], entered, answers, agenda[n], comm[n], ptr[n])
  BY <1>1, <1>8 DEF Placing, Allots, Joins
<1>9. CASE DividingDef(n, scenario, entered[n], entered, answers, agenda[n], inside[n], reg[n],
                       comm[n], ptr[n])
  <2>1. NotYet(D)
    BY <1>9, DividingNotYet DEF DividingDef
  <2> QED  BY <1>1, <1>9, <2>1 DEF DividingDef, Allots, Joins
<1>10. CASE Running(n, scenario, entered[n], entered, answers, agenda[n], comm[n])
  BY <1>10 DEF Running, Allots, Joins, Defaults
<1> QED  BY <1>2, <1>3, <1>4, <1>5, <1>6, <1>7, <1>8, <1>9, <1>10, Zenon DEF Stage, StageOf

\* Two nodes that have each made a split in the turn of the other's first mean the same turn.
LEMMA SameTurn ==
  ASSUME NEW E, NEW c, NEW n, NEW m, NEW k, NEW j, IsFirst(E[n], c, k), IsFirst(E[m], c, j),
         SplitAt(E[m], c, k), SplitAt(E[n], c, j), Finite(E[n]), Finite(E[m])
  PROVE  k = j
<1>1. \A l : SplitAt(E[n], c, l) => l \in Nat \ {0}
  BY DEF SplitAt, Turns, Finite
<1>2. SplitAt(E[n], c, k) /\ SplitAt(E[m], c, j)
  BY DEF IsFirst
<1>3. k \in Nat \ {0} /\ j \in Nat \ {0}
  BY <1>1, <1>2
<1>4. ~(j < k)
  <2> SUFFICES ASSUME j < k PROVE FALSE
    OBVIOUS
  <2>1. j \in 1 .. k - 1
    BY <1>3
  <2> QED  BY <2>1 DEF IsFirst
<1>5. ~(k < j)
  <2> SUFFICES ASSUME k < j PROVE FALSE
    OBVIOUS
  <2>1. k \in 1 .. j - 1
    BY <1>3
  <2> QED  BY <2>1 DEF IsFirst
<1> QED  BY <1>3, <1>4, <1>5

\* The keys of a call, a split, are numbers.
LEMMA KeysKnown ==
  ASSUME StartupInv, NEW c, NEW k, \A m \in Members(c) : m \in Node /\ SplitAt(entered[m], c, k)
  PROVE  \A m \in Members(c) : ArgsOf(entered, c, k)[m].key \in Int
<1>1. ASSUME NEW m \in Members(c) PROVE entered[m][c][k].arg.key \in Int
  <2> DEFINE ent == entered[m]
  <2>1. m \in Node /\ SplitAt(ent, c, k)
    OBVIOUS
  <2>2. CallsOK(ent)
    BY <2>1 DEF StartupInv, Holds, NodeOK
  <2> HIDE DEF ent
  <2>3. ent[c][k].arg.key \in Int
    BY <2>1, <2>2 DEF CallsOK, SplitAt, Turns
  <2> QED  BY <2>3 DEF ent
<1> QED  BY <1>1 DEF ArgsOf

\* The allocated communicator.
LEMMA AllocAgreed ==
  ASSUME StartupInv, NEW n \in Node, NEW m \in Node, Allots(n), Allots(m)
  PROVE  comm[n]["A"].mpicomm = comm[m]["A"].mpicomm
<1> DEFINE s == scenario
           E == entered
           a == comm[n]["A"]
           b == comm[m]["A"]
<1>1. AllocRight(s, E[n], E, a) /\ AllocRight(s, E[m], E, b)
  BY DEF Allots
<1> HIDE DEF s, a, b
<1>2. CASE ~Reduces(s)
  BY <1>1, <1>2 DEF AllocRight, a, b
<1>3. CASE Reduces(s)
  <2>1. PICK k \in Turns(E[n], World) : FirstIn(E[n], World, k, 0) /\ IsMade(E, World, k, 0, a.mpicomm)
    BY <1>1, <1>3 DEF AllocRight
  <2>2. PICK j \in Turns(E[m], World) : FirstIn(E[m], World, j, 0) /\ IsMade(E, World, j, 0, b.mpicomm)
    BY <1>1, <1>3 DEF AllocRight
  <2>3. n \in Members(World) /\ m \in Members(World)
    BY WorldGood DEF Good
  <2>4. SplitAt(E[m], World, k) /\ SplitAt(E[n], World, j)
    BY <2>1, <2>2, <2>3 DEF IsMade
  <2>5. Finite(E[n]) /\ Finite(E[m])
    BY FiniteCalls
  <2>6. k = j
    BY <2>1, <2>2, <2>4, <2>5, SameTurn DEF FirstIn
  <2>7. a.mpicomm = b.mpicomm
    BY <2>1, <2>2, <2>6 DEF IsMade
  <2> QED  BY <2>7 DEF a, b
<1> QED  BY <1>2, <1>3

\* Two communicators that nodes n and m have split off c in their first splits.
SplitOffBoth(n, m, c, x, y) ==
  /\ SplitOff(n, entered[n], entered, answers, c, x)
  /\ SplitOff(m, entered[m], entered, answers, c, y)

LEMMA SplitAgreed ==
  ASSUME StartupInv, NEW n \in Node, NEW m \in Node, NEW c, Good(n, c), m \in Members(c),
         NEW x, NEW y, SplitOffBoth(n, m, c, x, y)
  PROVE  /\ m \in Members(x.mpicomm) <=> x.mpicomm = y.mpicomm
         /\ x.mpicomm = y.mpicomm <=> x.color = y.color
         /\ n \in Members(x.mpicomm) /\ x.ncolors = y.ncolors
<1> DEFINE E == entered
           W == answers
<1>1. PICK k \in Turns(E[n], c) : /\ FirstSplit(E[n], c, k, x.color)
                                 /\ IsMade(E, c, k, x.color, x.mpicomm) /\ Counted(W, c, k - 1, x)
  BY DEF SplitOffBoth, SplitOff
<1>2. PICK j \in Turns(E[m], c) : /\ FirstSplit(E[m], c, j, y.color)
                                 /\ IsMade(E, c, j, y.color, y.mpicomm) /\ Counted(W, c, j - 1, y)
  BY DEF SplitOffBoth, SplitOff
<1>3. k = j
  <2>1. SplitAt(E[m], c, k) /\ SplitAt(E[n], c, j)
    BY <1>1, <1>2 DEF IsMade, Good
  <2>2. Finite(E[n]) /\ Finite(E[m])
    BY FiniteCalls
  <2> QED  BY <1>1, <1>2, <2>1, <2>2, SameTurn DEF FirstSplit
<1> DEFINE arg == ArgsOf(E, c, k)
<1>4. \A i \in Members(c) : i \in Node /\ SplitAt(E[i], c, k)
  BY <1>1 DEF IsMade
<1>5. \A i \in Members(c) : arg[i].key \in Int
  BY <1>4, KeysKnown
<1>6. n \in Members(c) /\ arg[n].color = x.color /\ arg[m].color = y.color
  BY <1>1, <1>2, <1>3 DEF ArgsOf, Good, FirstSplit
<1> HIDE DEF arg
<1> DEFINE made(color) == [name |-> Append(c.name, <<k, color>>), group |-> SplitGroup(c, arg, color)]
<1>7. x.mpicomm = made(x.color) /\ y.mpicomm = made(y.color)
  BY <1>1, <1>2, <1>3 DEF IsMade, arg
<1>8. ASSUME NEW color, NEW i \in Members(c)
      PROVE  i \in Members(made(color)) <=> arg[i].color = color
  <2> DEFINE g == SplitGroup(c, arg, color)
             S == Coloured(c, arg, color)
  <2>1. /\ \A l \in DOMAIN g : g[l] \in S
        /\ \A z \in S : \E l \in DOMAIN g : g[l] = z
    BY <1>5, SplitOrder DEF Good
  <2>2. i \in S <=> arg[i].color = color
    BY DEF Coloured
  <2>3. made(color).group = g
    OBVIOUS
  <2> HIDE DEF g, S, made
  <2>4. i \in Members(made(color)) <=> i \in S
    BY <2>1, <2>3 DEF Members
  <2> QED  BY <2>2, <2>4
<1> HIDE DEF made
<1>9. n \in Members(x.mpicomm) /\ m \in Members(y.mpicomm)
      /\ (m \in Members(x.mpicomm) <=> x.color = y.color)
  BY <1>6, <1>7, <1>8
<1>10. x.mpicomm = y.mpicomm <=> x.color = y.color
  BY <1>7, <1>9
<1>11. x.ncolors = y.ncolors
  BY <1>1, <1>2, <1>3 DEF Counted
<1> QED  BY <1>9, <1>10, <1>11

\* Members of one communicator have different ranks.
LEMMA RanksApart ==
  ASSUME NEW c, IsSequence(c.group), NEW n \in Members(c), NEW m \in Members(c)
  PROVE  RankIn(n, c) = RankIn(m, c) <=> n = m
  BY RanksDiffer

\* A node belongs to its communicators.
LEMMA Belongs ==
  ASSUME StartupInv, NEW n \in Node, NEW o \in Objects, Complete(n, o)
  PROVE  Good(n, comm[n][o].mpicomm)
<1>1. StructOK(n, o, comm[n][o])
  BY Structs
<1> QED  BY <1>1 DEF StructOK, Complete

LEMMA AllocMember ==
  ASSUME StartupInv, NEW n \in Node, Allots(n)
  PROVE  Good(n, comm[n]["A"].mpicomm)
<1> DEFINE s == scenario
           E == entered
           a == comm[n]["A"]
<1>1. AllocRight(s, E[n], E, a)
  BY DEF Allots
<1> HIDE DEF s, a
<1>2. CASE ~Reduces(s)
  BY <1>1, <1>2, WorldGood DEF AllocRight, a
<1>3. CASE Reduces(s)
  <2>1. PICK k \in Turns(E[n], World) : FirstIn(E[n], World, k, 0) /\ IsMade(E, World, k, 0, a.mpicomm)
    BY <1>1, <1>3 DEF AllocRight
  <2> DEFINE arg == ArgsOf(E, World, k)
             name == Append(World.name, <<k, 0>>)
  <2>2. Good(n, World)
    BY WorldGood
  <2>3. \A m \in Members(World) : arg[m].key \in Int
    BY <2>1, KeysKnown DEF IsMade
  <2>4. arg[n].color = 0
    BY <2>1, <2>2 DEF FirstIn, ArgsOf, Good
  <2>5. a.mpicomm = [name |-> name, group |-> SplitGroup(World, arg, 0)]
    BY <2>1 DEF IsMade
  <2> HIDE DEF arg, name
  <2>6. Good(n, [name |-> name, group |-> SplitGroup(World, arg, arg[n].color)])
    BY <2>2, <2>3, SplitGood
  <2>7. Good(n, a.mpicomm)
    BY <2>4, <2>5, <2>6
  <2> QED  BY <2>7 DEF a
<1> QED  BY <1>2, <1>3

LEMMA SplitOffMember ==
  ASSUME StartupInv, NEW n \in Node, NEW c, Good(n, c), NEW x,
         SplitOff(n, entered[n], entered, answers, c, x)
  PROVE  Good(n, x.mpicomm) /\ Members(x.mpicomm) \subseteq Members(c)
<1> DEFINE E == entered
           color == x.color
           new == x.mpicomm
<1>1. PICK k \in Turns(E[n], c) : FirstSplit(E[n], c, k, color) /\ IsMade(E, c, k, color, new)
  BY DEF SplitOff
<1> DEFINE arg == ArgsOf(E, c, k)
           name == Append(c.name, <<k, color>>)
           g == SplitGroup(c, arg, color)
<1>2. \A m \in Members(c) : arg[m].key \in Int
  BY <1>1, KeysKnown DEF IsMade
<1>3. arg[n].color = color
  BY <1>1 DEF FirstSplit, ArgsOf, Good
<1>4. new = [name |-> name, group |-> g]
  BY <1>1 DEF IsMade
<1> HIDE DEF arg, name, color, new
<1>5. Good(n, [name |-> name, group |-> SplitGroup(c, arg, arg[n].color)])
  BY <1>2, SplitGood
<1>6. \A i \in DOMAIN g : g[i] \in Coloured(c, arg, color)
  BY <1>2, SplitOrder DEF Good
<1>7. Members(new) \subseteq Members(c)
  <2>1. new.group = g
    BY <1>4
  <2> HIDE DEF g
  <2> QED  BY <1>6, <2>1 DEF Members, Coloured
<1>8. Good(n, new)
  BY <1>3, <1>4, <1>5
<1> QED  BY <1>7, <1>8 DEF new

LEMMA JobsAgreed ==
  ASSUME StartupInv, NEW n \in Node, NEW m \in Node, Allots(n), Allots(m), Joins(n), Joins(m)
  PROVE  /\ m \in Members(comm[n]["J"].mpicomm) <=> comm[n]["J"].mpicomm = comm[m]["J"].mpicomm
         /\ comm[n]["J"].mpicomm = comm[m]["J"].mpicomm <=> comm[n]["J"].color = comm[m]["J"].color
         /\ n \in Members(comm[n]["J"].mpicomm) /\ comm[n]["J"].ncolors = comm[m]["J"].ncolors
<1> DEFINE x == comm[n]["J"]
           y == comm[m]["J"]
           c == comm[n]["A"].mpicomm
           d == comm[m]["A"].mpicomm
<1>1. c = d
  BY AllocAgreed
<1>2. SplitOffBoth(n, m, c, x, y)
  BY <1>1 DEF SplitOffBoth, Joins
<1>3. Good(n, c) /\ m \in Members(c)
  BY <1>1, AllocMember DEF Good
<1> HIDE DEF x, y, c, d
<1>4. /\ m \in Members(x.mpicomm) <=> x.mpicomm = y.mpicomm
      /\ x.mpicomm = y.mpicomm <=> x.color = y.color
      /\ n \in Members(x.mpicomm) /\ x.ncolors = y.ncolors
  BY <1>2, <1>3, SplitAgreed
<1> QED  BY <1>4 DEF x, y

LEMMA JobMember ==
  ASSUME StartupInv, NEW n \in Node, Allots(n), Joins(n)
  PROVE  Good(n, comm[n]["J"].mpicomm)
  BY AllocMember, SplitOffMember DEF Joins

LEMMA DefaultMember ==
  ASSUME StartupInv, NEW n \in Node, Allots(n), Joins(n), Defaults(n)
  PROVE  /\ Good(n, comm[n]["D"].mpicomm)
         /\ Members(comm[n]["D"].mpicomm) \subseteq Members(comm[n]["J"].mpicomm)
  BY JobMember, SplitOffMember DEF Defaults

LEMMA DefaultsAgreed ==
  ASSUME StartupInv, NEW n \in Node, NEW m \in Node, Allots(n), Allots(m), Joins(n), Joins(m),
         Defaults(n), Defaults(m)
  PROVE  /\ m \in Members(comm[n]["D"].mpicomm) <=> comm[n]["D"].mpicomm = comm[m]["D"].mpicomm
         /\ n \in Members(comm[n]["D"].mpicomm)
<1> DEFINE x == comm[n]["D"]
           y == comm[m]["D"]
           c == comm[n]["J"].mpicomm
           d == comm[m]["J"].mpicomm
<1>1. Good(n, c) /\ Good(m, d)
  BY JobMember
<1>2. m \in Members(c) <=> c = d
  BY JobsAgreed
<1>3. /\ SplitOff(n, entered[n], entered, answers, c, x) /\ x.color = 0
      /\ SplitOff(m, entered[m], entered, answers, d, y) /\ y.color = 0
  BY DEF Defaults
<1>4. Members(x.mpicomm) \subseteq Members(c) /\ Members(y.mpicomm) \subseteq Members(d)
  BY DefaultMember
<1> HIDE DEF x, y, c, d
<1>6. n \in Members(x.mpicomm) /\ m \in Members(y.mpicomm)
  BY DefaultMember DEF Good, x, y
<1>8. CASE m \in Members(c)
  <2>1. SplitOffBoth(n, m, c, x, y)
    BY <1>2, <1>3, <1>8 DEF SplitOffBoth
  <2>2. m \in Members(x.mpicomm) <=> x.mpicomm = y.mpicomm
    BY <1>1, <1>8, <2>1, SplitAgreed
  <2> QED  BY <1>6, <2>2 DEF x, y
<1>9. CASE m \notin Members(c)
  <2>1. m \notin Members(x.mpicomm) /\ x.mpicomm # y.mpicomm
    BY <1>4, <1>6, <1>9
  <2> QED  BY <1>6, <2>1 DEF x, y
<1> QED  BY <1>8, <1>9

\* How a communicator that was split off numbers its members.
LEMMA SplitOffNumbers ==
  ASSUME NEW n, NEW m, NEW c, NEW d, NEW x, NEW y, NEW s, NEW t, NEW E, NEW W,
         SplitOff(n, s, E, W, c, x), SplitOff(m, t, E, W, d, y),
         x.mpicomm = y.mpicomm, IsSequence(x.mpicomm.group),
         n \in Members(x.mpicomm), m \in Members(x.mpicomm)
  PROVE  x.num_nodes = y.num_nodes /\ (x.nodeid = y.nodeid <=> n = m)
<1> DEFINE z == x.mpicomm
<1>1. x.num_nodes = Len(z.group) /\ x.nodeid = RankIn(n, z)
  BY DEF SplitOff
<1>2. y.num_nodes = Len(z.group) /\ y.nodeid = RankIn(m, z)
  BY DEF SplitOff
<1> HIDE DEF z
<1>3. RankIn(n, z) = RankIn(m, z) <=> n = m
  BY RanksApart DEF z
<1> QED  BY <1>1, <1>2, <1>3

Agree(o, n, m, c, d) ==
  /\ n \in Members(c.mpicomm)
  /\ (m \in Members(c.mpicomm)) <=> (c.mpicomm = d.mpicomm)
  /\ o = "J" => c.ncolors = d.ncolors /\ (c.mpicomm = d.mpicomm <=> c.color = d.color)
  /\ c.mpicomm = d.mpicomm => /\ c.num_nodes = d.num_nodes
                              /\ c.nodeid = d.nodeid <=> n = m

LEMMA AllAgree ==
  ASSUME StartupInv, StageInv, NEW o \in {"A", "J", "D"}, NEW n \in Node, NEW m \in Node,
         Complete(n, o), Complete(m, o), Parsed(n), Parsed(m)
  PROVE  Agree(o, n, m, comm[n][o], comm[m][o])
<1> DEFINE x == comm[n][o]
           y == comm[m][o]
<1>1. o \in Objects
  BY DEF Objects
<1>2. Good(n, x.mpicomm) /\ Good(m, y.mpicomm)
  BY <1>1, Belongs
<1>3. Allots(n) /\ Allots(m)
  BY Known
<1>4. CASE o = "A"
  <2>1. x.mpicomm = y.mpicomm
    BY <1>3, <1>4, AllocAgreed
  <2>2. x.num_nodes = Size(scenario) /\ y.num_nodes = Size(scenario)
    BY <1>3, <1>4 DEF Allots, AllocRight
  <2>3. x.nodeid = n /\ y.nodeid = m
    BY <1>4, AllocNumber
  <2> HIDE DEF x, y
  <2>4. Agree(o, n, m, x, y)
    BY <1>2, <1>4, <2>1, <2>2, <2>3 DEF Agree, Good
  <2> QED  BY <2>4 DEF x, y
<1>5. CASE o = "J"
  <2>1. Joins(n) /\ Joins(m)
    BY <1>5, Known
  <2>2. /\ m \in Members(x.mpicomm) <=> x.mpicomm = y.mpicomm
        /\ x.mpicomm = y.mpicomm <=> x.color = y.color
        /\ n \in Members(x.mpicomm) /\ x.ncolors = y.ncolors
    BY <1>3, <1>5, <2>1, JobsAgreed
  <2>3. x.mpicomm = y.mpicomm => x.num_nodes = y.num_nodes /\ (x.nodeid = y.nodeid <=> n = m)
    <3> DEFINE c == comm[n]["A"].mpicomm
               d == comm[m]["A"].mpicomm
    <3>1. /\ SplitOff(n, entered[n], entered, answers, c, x)
          /\ SplitOff(m, entered[m], entered, answers, d, y)
      BY <1>5, <2>1 DEF Joins
    <3> HIDE DEF c, d, x, y
    <3>2. SUFFICES ASSUME x.mpicomm = y.mpicomm
                   PROVE  x.num_nodes = y.num_nodes /\ (x.nodeid = y.nodeid <=> n = m)
      OBVIOUS
    <3>3. IsSequence(x.mpicomm.group) /\ m \in Members(x.mpicomm) /\ n \in Members(x.mpicomm)
      BY <1>2, <3>2 DEF Good
    <3> QED  BY <3>1, <3>2, <3>3, SplitOffNumbers
  <2> HIDE DEF x, y
  <2>4. Agree(o, n, m, x, y)
    BY <1>5, <2>2, <2>3 DEF Agree
  <2> QED  BY <2>4 DEF x, y
<1>6. CASE o = "D"
  <2>1. Joins(n) /\ Joins(m) /\ Defaults(n) /\ Defaults(m)
    BY <1>6, Known
  <2>3. (m \in Members(x.mpicomm) <=> x.mpicomm = y.mpicomm) /\ n \in Members(x.mpicomm)
    BY <1>3, <1>6, <2>1, DefaultsAgreed
  <2>4. x.mpicomm = y.mpicomm => x.num_nodes = y.num_nodes /\ (x.nodeid = y.nodeid <=> n = m)
    <3> DEFINE c == comm[n]["J"].mpicomm
               d == comm[m]["J"].mpicomm
    <3>1. /\ SplitOff(n, entered[n], entered, answers, c, x)
          /\ SplitOff(m, entered[m], entered, answers, d, y)
      BY <1>6, <2>1 DEF Defaults
    <3> HIDE DEF c, d, x, y
    <3>2. SUFFICES ASSUME x.mpicomm = y.mpicomm
                   PROVE  x.num_nodes = y.num_nodes /\ (x.nodeid = y.nodeid <=> n = m)
      OBVIOUS
    <3>3. IsSequence(x.mpicomm.group) /\ m \in Members(x.mpicomm) /\ n \in Members(x.mpicomm)
      BY <1>2, <3>2 DEF Good
    <3> QED  BY <3>1, <3>2, <3>3, SplitOffNumbers
  <2> HIDE DEF x, y
  <2>5. Agree(o, n, m, x, y)
    BY <1>6, <2>3, <2>4 DEF Agree
  <2> QED  BY <2>5 DEF x, y
<1> QED  BY <1>4, <1>5, <1>6

LEMMA InvAgrees ==
  ASSUME StartupInv, StageInv
  PROVE  MembersAgree
<1>1. ASSUME NEW o \in {"A", "J", "D"}, NEW n \in {k \in Node : Complete(k, o) /\ Parsed(k)},
             NEW m \in {k \in Node : Complete(k, o) /\ Parsed(k)}
      PROVE  Agree(o, n, m, comm[n][o], comm[m][o])
  BY AllAgree
<1> QED  BY <1>1 DEF MembersAgree, Agree

-----------------------------------------------------------------------------
(* The default communicator is the job.                                    *)

\* The ranks of a communicator: those before x number its rank.
Apart(c) == \A i, j \in DOMAIN c.group : c.group[i] = c.group[j] => i = j

LEMMA RankOf ==
  ASSUME NEW c, IsSequence(c.group), Apart(c), NEW i \in DOMAIN c.group
  PROVE  i \in Nat /\ c.group[i] \in Members(c) /\ RankIn(c.group[i], c) = i - 1
<1> DEFINE x == c.group[i]
           r == RankIn(x, c)
<1>1. Len(c.group) \in Nat /\ DOMAIN c.group = 1 .. Len(c.group)
  BY RanksDiffer
<1>2. x \in Members(c)
  BY DEF Members
<1>3. r \in 0 .. Len(c.group) - 1 /\ c.group[r + 1] = x
  BY <1>2, RanksDiffer
<1> HIDE DEF r
<1>4. r + 1 \in DOMAIN c.group
  BY <1>1, <1>3
<1>5. r + 1 = i
  BY <1>3, <1>4 DEF Apart
<1>6. i \in Nat /\ r = i - 1
  BY <1>1, <1>3, <1>5
<1> QED  BY <1>2, <1>6 DEF r

LEMMA BelowRank ==
  ASSUME NEW c, IsSequence(c.group), Apart(c), NEW x \in Members(c)
  PROVE  Cardinality({m \in Members(c) : RankIn(m, c) < RankIn(x, c)}) = RankIn(x, c)
<1> DEFINE r == RankIn(x, c)
           T == {m \in Members(c) : RankIn(m, c) < r}
           f == [i \in 1 .. r |-> c.group[i]]
<1>1. r \in 0 .. Len(c.group) - 1 /\ Len(c.group) \in Nat /\ DOMAIN c.group = 1 .. Len(c.group)
  BY RanksDiffer
<1> HIDE DEF r
<1>2. \A i \in 1 .. r : /\ i \in DOMAIN c.group /\ c.group[i] \in Members(c)
                        /\ RankIn(c.group[i], c) = i - 1 /\ i - 1 < r
  <2> SUFFICES ASSUME NEW i \in 1 .. r
               PROVE  /\ i \in DOMAIN c.group /\ c.group[i] \in Members(c)
                      /\ RankIn(c.group[i], c) = i - 1 /\ i - 1 < r
    OBVIOUS
  <2>1. i \in DOMAIN c.group /\ i - 1 < r
    BY <1>1
  <2> QED  BY <2>1, RankOf
<1>3. \A m \in T : \E i \in 1 .. r : c.group[i] = m
  <2> SUFFICES ASSUME NEW m \in T PROVE \E i \in 1 .. r : c.group[i] = m
    OBVIOUS
  <2> DEFINE q == RankIn(m, c)
  <2>1. q \in 0 .. Len(c.group) - 1 /\ c.group[q + 1] = m /\ q < r
    BY RanksDiffer
  <2> HIDE DEF q
  <2>2. q + 1 \in 1 .. r
    BY <1>1, <2>1
  <2> QED  BY <2>1, <2>2
<1>4. f \in Bijection(1 .. r, T)
  <2>1. f \in [1 .. r -> T]
    BY <1>2
  <2>2. ASSUME NEW i \in 1 .. r, NEW j \in 1 .. r, f[i] = f[j] PROVE i = j
    <3>1. c.group[i] = c.group[j]
      BY <2>2
    <3> QED  BY <1>2, <3>1 DEF Apart
  <2>3. \A m \in T : \E i \in 1 .. r : f[i] = m
    BY <1>3
  <2> HIDE DEF f, T
  <2> QED  BY <2>1, <2>2, <2>3 DEF Bijection, Injection, Surjection, IsInjective
<1>5. IsFiniteSet(1 .. r) /\ Cardinality(1 .. r) = r
  <2>1. 1 \in Int /\ r \in Int /\ (1 > r => r = 0)
    BY <1>1
  <2>2. IsFiniteSet(1 .. r) /\ Cardinality(1 .. r) = IF 1 > r THEN 0 ELSE r - 1 + 1
    BY <2>1, FS_Interval
  <2> QED  BY <1>1, <2>1, <2>2
<1> HIDE DEF f, T
<1>6. ExistsBijection(1 .. r, T)
  BY <1>4 DEF ExistsBijection
<1>7. Cardinality(T) = r
  BY <1>5, <1>6, FS_Bijection
<1> QED  BY <1>7 DEF T, r

\* What splitting a communicator gives that all members have the same colour and key for.
LEMMA SplitWhole ==
  ASSUME NEW c, IsSequence(c.group), Apart(c), NEW arg, NEW new,
         \A m \in Members(c) : arg[m].color = 0 /\ arg[m].key = 0,
         new.group = SplitGroup(c, arg, 0)
  PROVE  Members(new) = Members(c) /\ \A x \in Members(c) : RankIn(x, new) = RankIn(x, c)
<1> DEFINE g == SplitGroup(c, arg, 0)
           S == Coloured(c, arg, 0)
<1>1. S = Members(c)
  BY DEF Coloured
<1>2. \A m \in Members(c) : arg[m].key \in Int
  OBVIOUS
<1>3. ASSUME NEW x \in Members(c) PROVE Place(c, arg, 0, x) = RankIn(x, c)
  <2> DEFINE T == {m \in S : Before(c, arg, m, x)}
             U == {m \in Members(c) : RankIn(m, c) < RankIn(x, c)}
  <2>1. \A m \in Members(c) : Before(c, arg, m, x) <=> RankIn(m, c) < RankIn(x, c)
    BY DEF Before
  <2>2. T = U
    BY <1>1, <2>1
  <2>3. Cardinality(U) = RankIn(x, c)
    BY BelowRank
  <2> HIDE DEF U
  <2>4. Cardinality(T) = RankIn(x, c)
    BY <2>2, <2>3
  <2> QED  BY <2>4 DEF Place
<1> HIDE DEF S
<1>4. /\ IsSequence(g)
      /\ \A i \in DOMAIN g : i \in Nat /\ g[i] \in S /\ Place(c, arg, 0, g[i]) = i - 1
      /\ \A x \in S : \E i \in DOMAIN g : g[i] = x
  BY <1>2, SplitOrder DEF S
<1> HIDE DEF g
<1>5. new.group = g
  BY DEF g
<1>6. Members(new) = Members(c)
  BY <1>1, <1>4, <1>5 DEF Members
<1>7. ASSUME NEW x \in Members(c) PROVE RankIn(x, new) = RankIn(x, c)
  <2> DEFINE q == RankIn(x, new)
  <2>1. /\ Len(g) \in Nat /\ DOMAIN g = 1 .. Len(g)
        /\ q \in 0 .. Len(g) - 1 /\ g[q + 1] = x
    BY <1>4, <1>5, <1>6, RanksDiffer
  <2> HIDE DEF q
  <2>2. q + 1 \in DOMAIN g
    BY <2>1
  <2>3. Place(c, arg, 0, x) = (q + 1) - 1
    BY <1>4, <2>1, <2>2
  <2>4. q = RankIn(x, c)
    BY <1>3, <2>1, <2>3
  <2> QED  BY <2>4 DEF q
<1> QED  BY <1>6, <1>7

\* A communicator that was split off holds no node twice.
LEMMA SplitOffApart ==
  ASSUME StartupInv, NEW n, NEW c, IsSequence(c.group), NEW x,
         SplitOff(n, entered[n], entered, answers, c, x)
  PROVE  Apart(x.mpicomm)
<1> DEFINE E == entered
           color == x.color
           new == x.mpicomm
<1>1. PICK k \in Turns(E[n], c) : IsMade(E, c, k, color, new)
  BY DEF SplitOff
<1> DEFINE arg == ArgsOf(E, c, k)
           g == SplitGroup(c, arg, color)
<1>2. \A m \in Members(c) : arg[m].key \in Int
  BY <1>1, KeysKnown DEF IsMade
<1>3. new.group = g
  BY <1>1 DEF IsMade
<1> HIDE DEF arg, color, new
<1>4. \A i \in DOMAIN g : i \in Nat /\ Place(c, arg, color, g[i]) = i - 1
  BY <1>2, SplitOrder
<1> HIDE DEF g
<1>5. ASSUME NEW i \in DOMAIN g, NEW j \in DOMAIN g, g[i] = g[j] PROVE i = j
  <2>1. i \in Nat /\ j \in Nat /\ i - 1 = j - 1
    BY <1>4, <1>5
  <2> QED  BY <2>1
<1>6. Apart(new)
  BY <1>3, <1>5 DEF Apart
<1> QED  BY <1>6 DEF new

\* A member of a job that has made a split on it in this turn has made its own first
\* split there, with colour and key 0: either the turn is that of its last call, or all
\* members have made theirs.
FirstZero(m, c) ==
  \E j \in Turns(entered[m], c) :
    /\ FirstSplit(entered[m], c, j, 0)
    /\ j = Len(entered[m][c]) \/ \A i \in Members(c) : SplitAt(entered[i], c, j)

LEMMA FirstInDividing ==
  ASSUME NEW m, NEW W, NEW ag, NEW ins, NEW rg, NEW x, NEW q, NEW c, NEW from, NEW into, NEW o, NEW rest,
         Dividing(entered[m], entered, W, ag, ins, rg, x, q, c, from, 0, into, o, rest),
         ~NoSplit(entered[m], c)
  PROVE  FirstZero(m, c)
<1> DEFINE ent == entered[m]
<1>1. CASE AtSplit(ent, W, ag, ins, x, q, c, 0, into, o, rest)
  <2>1. FirstSplit(ent, c, Len(ent[c]), 0)
    BY <1>1 DEF AtSplit
  <2>2. Len(ent[c]) \in Turns(ent, c)
    BY <2>1 DEF FirstSplit, IsFirst, SplitAt
  <2> QED  BY <2>1, <2>2 DEF FirstZero
<1>2. CASE AtMade(ent, entered, W, ag, rg, x, q, c, 0, into, o, rest)
  <2>1. PICK k \in Turns(ent, c) : FirstSplit(ent, c, k, 0) /\ IsMade(entered, c, k, 0, rg.comm)
    BY <1>2 DEF AtMade
  <2>2. \A i \in Members(c) : SplitAt(entered[i], c, k)
    BY <2>1 DEF IsMade
  <2> QED  BY <2>1, <2>2 DEF FirstZero
<1>3. \/ AtSplit(ent, W, ag, ins, x, q, c, 0, into, o, rest)
      \/ AtMade(ent, entered, W, ag, rg, x, q, c, 0, into, o, rest)
  BY DEF Dividing, Asked, AtMax, AtCount, AtSum, AtColors
<1> QED  BY <1>1, <1>2, <1>3

LEMMA FirstOfMember ==
  ASSUME StartupInv, StageInv, NEW n \in Node, NEW m \in Node, Allots(n), Joins(n),
         m \in Members(comm[n]["J"].mpicomm), NEW k, SplitAt(entered[m], comm[n]["J"].mpicomm, k)
  PROVE  FirstZero(m, comm[n]["J"].mpicomm)
<1> DEFINE c == comm[n]["J"].mpicomm
           ent == entered[m]
           s == scenario
<1>1. Len(c.name) = Depth(s) + 1 /\ Depth(s) \in Nat
  BY AllocName, SplitName DEF Allots, Joins
<1>2. Allots(m) /\ Joins(m) => comm[m]["J"].mpicomm = c
  BY JobsAgreed
<1>3. m \in Members(c) /\ SplitAt(ent, c, k)
  OBVIOUS
<1> HIDE DEF c
<1>4. ~NoSplit(ent, c) /\ c \in DOMAIN ent
  BY <1>3 DEF NoSplit, SplitAt, Turns
<1>5. ~Shallow(s, ent)
  BY <1>1, <1>4, TooLong
<1>6. c # World
  <2> SUFFICES ASSUME c = World PROVE FALSE
    OBVIOUS
  <2> DEFINE L == Len(World.name)
  <2>1. L = Depth(s) + 1 /\ L = 0
    BY <1>1, WorldName
  <2> HIDE DEF L
  <2> QED  BY <1>1, <2>1
<1>7. Stage(m)
  BY DEF StageInv
<1>8. ~LeftOver(s, ent, agenda[m], comm[m], args[m])
  BY <1>5 DEF LeftOver
<1>9. ~Starting(m, s, ent, agenda[m], comm[m], ptr[m], argv[m])
  BY <1>4 DEF Starting
<1>10. ~Reducing(m, s, ent, entered, agenda[m], inside[m], reg[m], comm[m], ptr[m])
  BY <1>4, <1>6 DEF Reducing
<1>11. ~Reading(m, s, ent, entered, agenda[m], comm[m], ptr[m])
  BY <1>5 DEF Reading
<1>12. ~DividingJob(m, s, ent, entered, answers, agenda[m], inside[m], reg[m], comm[m], ptr[m])
  BY <1>5 DEF DividingJob
<1>13. ~Placing(m, s, ent, entered, answers, agenda[m], comm[m], ptr[m])
  BY <1>2, <1>4 DEF Placing, Allots, Joins
<1>14. CASE DividingDef(m, s, ent, entered, answers, agenda[m], inside[m], reg[m], comm[m], ptr[m])
  <2>1. c = comm[m]["J"].mpicomm
    BY <1>2, <1>14 DEF DividingDef, Allots, Joins
  <2>2. Dividing(ent, entered, answers, agenda[m], inside[m], reg[m], comm[m]["D"], ptr[m]["def"], c,
                 "job", 0, "def", "J", Last(s.prog[m]))
    BY <1>14, <2>1 DEF DividingDef
  <2>3. FirstZero(m, c)
    BY <1>4, <2>2, FirstInDividing
  <2> QED  BY <2>3 DEF c
<1>15. CASE Running(m, s, ent, entered, answers, agenda[m], comm[m])
  <2> DEFINE x == comm[m]["D"]
  <2>1. c = comm[m]["J"].mpicomm
    BY <1>2, <1>15 DEF Running, Allots, Joins
  <2>2. SplitOff(m, ent, entered, answers, c, x) /\ x.color = 0
    BY <1>15, <2>1 DEF Running
  <2> HIDE DEF x
  <2>3. PICK j \in Turns(ent, c) : FirstSplit(ent, c, j, 0) /\ IsMade(entered, c, j, 0, x.mpicomm)
    BY <2>2 DEF SplitOff
  <2>4. \A i \in Members(c) : SplitAt(entered[i], c, j)
    BY <2>3 DEF IsMade
  <2>5. FirstZero(m, c)
    BY <2>3, <2>4 DEF FirstZero
  <2> QED  BY <2>5 DEF c
<1> QED
  BY <1>7, <1>8, <1>9, <1>10, <1>11, <1>12, <1>13, <1>14, <1>15, Zenon DEF Stage, StageOf, ent, s

\* All members of a job call for the default communicator with colour and key 0.
LEMMA ZeroArgs ==
  ASSUME StartupInv, StageInv, NEW n \in Node, Allots(n), Joins(n), NEW c, c = comm[n]["J"].mpicomm,
         NEW k \in Turns(entered[n], c), FirstSplit(entered[n], c, k, 0),
         \A m \in Members(c) : m \in Node /\ SplitAt(entered[m], c, k)
  PROVE  \A m \in Members(c) : entered[m][c][k].arg = [color |-> 0, key |-> 0]
<1> SUFFICES ASSUME NEW m \in Members(c) PROVE entered[m][c][k].arg = [color |-> 0, key |-> 0]
  OBVIOUS
<1>1. m \in Node /\ SplitAt(entered[m], c, k)
  OBVIOUS
<1>2. FirstZero(m, c)
  BY <1>1, FirstOfMember
<1>3. PICK j \in Turns(entered[m], c) :
        /\ FirstSplit(entered[m], c, j, 0)
        /\ j = Len(entered[m][c]) \/ \A i \in Members(c) : SplitAt(entered[i], c, j)
  BY <1>2 DEF FirstZero
<1>4. Finite(entered[n]) /\ Finite(entered[m])
  BY <1>1, FiniteCalls
<1>5. n \in Members(c)
  BY JobMember DEF Good
<1>6. j = k
  <2>1. CASE \A i \in Members(c) : SplitAt(entered[i], c, j)
    <3>1. SplitAt(entered[n], c, j)
      BY <1>5, <2>1
    <3> QED  BY <1>1, <1>3, <1>4, <3>1, SameTurn DEF FirstSplit
  <2>2. CASE j = Len(entered[m][c])
    <3> DEFINE L == Len(entered[m][c])
    <3>1. L \in Nat /\ k \in 1 .. L
      BY <1>1, <1>4 DEF SplitAt, Turns, Finite
    <3>2. ~SplitAt(entered[m], c, k) \/ k \notin 1 .. L - 1
      BY <1>3, <2>2 DEF FirstSplit, IsFirst
    <3> HIDE DEF L
    <3>3. k = L
      BY <1>1, <3>1, <3>2
    <3> QED  BY <2>2, <3>3 DEF L
  <2> QED  BY <1>3, <2>1, <2>2
<1> QED  BY <1>3, <1>6 DEF FirstSplit

LEMMA InvDefault ==
  ASSUME StartupInv, StageInv
  PROVE  DefaultIsJob
<1> SUFFICES ASSUME NEW n \in Node, Complete(n, "D")
             PROVE  /\ Members(comm[n]["D"].mpicomm) = Members(comm[n]["J"].mpicomm)
                    /\ comm[n]["D"].nodeid = comm[n]["J"].nodeid
  BY DEF DefaultIsJob
<1> DEFINE E == entered
           J == comm[n]["J"]
           D == comm[n]["D"]
           c == J.mpicomm
<1>1. Allots(n) /\ Joins(n) /\ Defaults(n)
  BY Known
<1>2. Good(n, c)
  BY <1>1, JobMember
<1>3. Apart(c)
  BY <1>1, AllocMember, SplitOffApart DEF Joins, Good
<1>4. SplitOff(n, E[n], E, answers, c, D) /\ D.color = 0
  BY <1>1 DEF Defaults
<1>5. J.nodeid = RankIn(n, c)
  BY <1>1 DEF Joins, SplitOff
<1>6. c = comm[n]["J"].mpicomm
  OBVIOUS
<1> HIDE DEF J, D, c
<1>7. PICK k \in Turns(E[n], c) : FirstSplit(E[n], c, k, 0) /\ IsMade(E, c, k, 0, D.mpicomm)
  BY <1>4 DEF SplitOff
<1> DEFINE arg == ArgsOf(E, c, k)
<1>8. \A m \in Members(c) : E[m][c][k].arg = [color |-> 0, key |-> 0]
  BY <1>1, <1>6, <1>7, ZeroArgs DEF IsMade
<1>9. \A m \in Members(c) : arg[m].color = 0 /\ arg[m].key = 0
  BY <1>8 DEF ArgsOf
<1>10. D.mpicomm.group = SplitGroup(c, arg, 0)
  BY <1>7 DEF IsMade
<1> HIDE DEF arg
<1>11. Members(D.mpicomm) = Members(c) /\ RankIn(n, D.mpicomm) = RankIn(n, c)
  BY <1>2, <1>3, <1>9, <1>10, SplitWhole DEF Good
<1>12. D.nodeid = RankIn(n, D.mpicomm)
  BY <1>4 DEF SplitOff
<1> QED  BY <1>5, <1>11, <1>12 DEF J, D, c

-----------------------------------------------------------------------------
(* The theorems.                                                           *)

LEMMA StageSteps ==
  /\ Init => StartupInv /\ StageInv
  /\ StartupInv /\ StageInv /\ [Next]_vars => StartupInv' /\ StageInv'
<1>1. Init => StartupInv /\ StageInv
  BY InitHolds, InitStages
<1>2. StartupInv /\ StageInv /\ [Next]_vars => StartupInv' /\ StageInv'
  BY StepHolds, StagesHold
<1> QED  BY <1>1, <1>2

\* At every point of the start a node knows where its communicators come from: the
\* allocated one from MPI or from -qmp-nmpi, the job from the first split of the allocated
\* one, the default from the first split of the job (QMP_init.c:179-267).
THEOREM StartGoesByStages == Spec => []StageInv
<1>1. Init => StartupInv /\ StageInv
  BY StageSteps
<1>2. (StartupInv /\ StageInv) /\ [Next]_vars => (StartupInv /\ StageInv)'
  BY StageSteps
<1> QED  BY <1>1, <1>2, PTL DEF Spec

\* However the nodes run, whatever the command lines and the programs: the members of a
\* communicator agree about it.  It holds all nodes of its colour and no other, they have
\* different ranks in it, and they count as many nodes and as many jobs
\* (QMP_split.c:48-83, QMP_init.c:179-267).
THEOREM StartMembersAgree == Spec => []MembersAgree
<1>1. Init => StartupInv /\ StageInv
  BY StageSteps
<1>2. (StartupInv /\ StageInv) /\ [Next]_vars => (StartupInv /\ StageInv)'
  BY StageSteps
<1>3. StartupInv /\ StageInv => MembersAgree
  BY InvAgrees
<1> QED  BY <1>1, <1>2, <1>3, PTL DEF Spec

\* The communicator that a program finds as its default is its job, with the same members
\* and the same rank (QMP_init.c:264-267).
THEOREM StartDefaultIsJob == Spec => []DefaultIsJob
<1>1. Init => StartupInv /\ StageInv
  BY StageSteps
<1>2. (StartupInv /\ StageInv) /\ [Next]_vars => (StartupInv /\ StageInv)'
  BY StageSteps
<1>3. StartupInv /\ StageInv => DefaultIsJob
  BY InvDefault
<1> QED  BY <1>1, <1>2, <1>3, PTL DEF Spec
=============================================================================
