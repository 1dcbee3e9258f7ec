------------------------ MODULE BgspiPairing_proofs ------------------------
(***************************************************************************)
(* For every number of nodes and all lists of members that go together:    *)
(* the matching of BgspiPairing pairs each member with its mate, and the   *)
(* two agree whether they use SPI.                                         *)
(*                                                                         *)
(* No node sees another's position.  What keeps the nodes together is that *)
(* both ends of a pair of nodes work through their members in mated order, *)
(* so that the oldest handshake on a channel is that of the mate of the    *)
(* member its receiver has come to.                                        *)
(***************************************************************************)
EXTENDS BgspiPairing, FiniteSetTheorems, SequenceTheorems, WellFoundedInduction, TLAPS

\* How far node e[1] is with its member e[2].
Stage(e) == IF e[2] \in dealt[e[1]] THEN "dealt"
            ELSE IF e[2] = Current(e[1]) THEN step[e[1]]
            ELSE "handshake"
Sends(e) == At(e).kind = "send"

\* Both ends of the pair e can be placed by SPI.
Spi(e) == Placed(At(e).nmsg, At(Mate[e]).nmsg)

\* A member that has come to stage s has sent, and has received, the handshake and
\* the address.
CountOut(e, s) == s \notin IF Sends(e) THEN {"handshake"} ELSE {"handshake", "answer"}
CountIn(e, s)  == s \notin IF Sends(e) THEN {"handshake", "handed", "answer"}
                           ELSE {"handshake"}
AddrOut(e, s)  == \/ s = "dealt" /\ Spi(e)
                  \/ s = "told"
                  \/ s = "learn" /\ ~Sends(e)
AddrIn(e, s)   == \/ s = "dealt" /\ Spi(e)
                  \/ s \in {"prepare", "told"} /\ Sends(e)

CountsOut == {e \in Ends : CountOut(e, Stage(e))}
CountsIn  == {e \in Ends : CountIn(e, Stage(e))}
AddrsOut  == {e \in Ends : AddrOut(e, Stage(e))}
AddrsIn   == {e \in Ends : AddrIn(e, Stage(e))}

\* The members of node a whose message is on its way to node b, when the ends in S have
\* sent and the ends in G have received.
OnWay(S, G, a, b) == {i \in DOMAIN List[a] : /\ At(<<a, i>>).peer = b
                                             /\ <<a, i>> \in S
                                             /\ Mate[<<a, i>>] \notin G}

\* The channel contents c are the messages f[i] of the members i in S of node a, in the
\* order in which a works.
Holds(a, c, S, f) ==
  \E q \in [1 .. Len(c) -> S] :
    /\ \A x, y \in 1 .. Len(c) : x < y => Before(a, q[x], q[y])
    /\ \A i \in S : \E x \in 1 .. Len(c) : q[x] = i
    /\ \A x \in 1 .. Len(c) : c[x] = f[q[x]]

\* The channels c hold the messages F of what has been sent and not received.
Carry(c, S, G, F) == \A a, b \in Node : Holds(a, c[<<a, b>>], OnWay(S, G, a, b), F[a])

Count == [a \in Node |-> [i \in DOMAIN List[a] |-> List[a][i].nmsg]]
Addr  == [a \in Node |-> [i \in DOMAIN List[a] |-> <<a, i>>]]

Shape == /\ TypeOK
         /\ DOMAIN other = Node /\ DOMAIN useSPI = Node
         /\ \A n \in Node : dealt[n] \subseteq DOMAIN List[n]
\* What is dealt with is the beginning of the node's order.
InOrder == \A n \in Node : \A i \in dealt[n], j \in Left(n) : Before(n, i, j)
\* A member exchanges addresses only if both ends can be placed.
Decided == \A e \in Ends : Stage(e) \in {"prepare", "told", "learn"} => Spi(e)
\* A receiving member remembers its mate's handshake until it has answered it.
Heard   == \A e \in Ends : ~Sends(e) /\ Stage(e) \in {"answer", "handed"} =>
             nmsgo[e[1]] = At(Mate[e]).nmsg
Learned == \A e \in Ends : other[e[1]][e[2]] = IF e \in AddrsIn THEN Mate[e] ELSE None
Agreed  == \A e \in Ends : useSPI[e[1]][e[2]] = (Stage(e) = "dealt" /\ Spi(e))
GotSent == \A e \in Ends : /\ e \in CountsIn => Mate[e] \in CountsOut
                           /\ e \in AddrsIn => Mate[e] \in AddrsOut
Counts  == Carry(comm, CountsOut, CountsIn, Count)
Addrs   == Carry(world, AddrsOut, AddrsIn, Addr)

PairInv == /\ Shape /\ InOrder /\ Decided /\ Heard /\ Learned /\ Agreed
           /\ GotSent /\ Counts /\ Addrs

-----------------------------------------------------------------------------
(* Members and their order *)

\* A bounded set of natural numbers has a least element.
LEMMA Least ==
  ASSUME NEW m \in Nat, NEW S \in SUBSET (0 .. m), S # {}
  PROVE  \E i \in S : \A j \in S : i <= j
<1> DEFINE T == {0 .. i : i \in S}
           R == StrictSubsetOrdering(0 .. m)
<1>1. IsFiniteSet(0 .. m)
  BY FS_Interval
<1>2. IsWellFoundedOn(R, SUBSET (0 .. m))
  BY <1>1, FS_StrictSubsetOrderingWellFounded, FS_FiniteSubsetsOfFinite
<1>3. T \subseteq SUBSET (0 .. m) /\ T # {}
  <2>1. PICK i \in S : TRUE
    OBVIOUS
  <2>2. (0 .. i) \in T
    BY <2>1
  <2>3. ASSUME NEW j \in S PROVE 0 .. j \subseteq 0 .. m
    OBVIOUS
  <2> QED  BY <2>2, <2>3
<1>4. \E X \in T : \A Y \in T : ~(<<Y, X>> \in R)
  <2> HIDE DEF T, R
  <2> QED  BY <1>2, <1>3, WFMin
<1>5. PICK i \in S : \A j \in S : ~(<<0 .. j, 0 .. i>> \in R)
  BY <1>4
<1>6. ASSUME NEW j \in S PROVE i <= j
  <2> SUFFICES ASSUME j < i PROVE FALSE
    OBVIOUS
  <2>1. 0 .. j \subseteq 0 .. i /\ i \in 0 .. i /\ i \notin 0 .. j
    OBVIOUS
  <2>2. 0 .. j \in SUBSET (0 .. m) /\ 0 .. i \in SUBSET (0 .. m)
    OBVIOUS
  <2>3. <<0 .. j, 0 .. i>> \in R
    BY <2>1, <2>2 DEF StrictSubsetOrdering
  <2> QED  BY <2>3, <1>5
<1> QED  BY <1>6

\* An end is a member of some node's list.
LEMMA EndFacts ==
  /\ \A e \in Ends : /\ e = <<e[1], e[2]>> /\ e[1] \in Node /\ e[2] \in DOMAIN List[e[1]]
                     /\ e[2] \in Nat \ {0} /\ e \in End
                     /\ At(e) \in Member
  /\ \A n \in Node : \A i \in DOMAIN List[n] : <<n, i>> \in Ends
  <1>1. ASSUME NEW n \in Node PROVE DOMAIN List[n] = 1 .. Len(List[n]) /\ Len(List[n]) \in Nat
    BY ListAssumption
  <1>2. ASSUME NEW n \in Node, NEW i \in DOMAIN List[n]
        PROVE  i \in Nat \ {0} /\ List[n][i] \in Member
    BY ListAssumption, <1>1
  <1>3. \A e \in Ends : \E n \in Node : \E i \in DOMAIN List[n] : e = <<n, i>>
    BY DEF Ends
  <1>4. \A n \in Node : \A i \in DOMAIN List[n] : <<n, i>> \in Ends
    BY DEF Ends
  <1> QED
    BY <1>2, <1>3, <1>4 DEF At, End

\* The two ends of a pair are of the two kinds, at two nodes, and see one another.
LEMMA MateFacts ==
  ASSUME NEW e \in Ends
  PROVE  /\ Mate[e] \in Ends /\ Mate[Mate[e]] = e /\ Mate[e][1] = At(e).peer
         /\ At(Mate[e]).peer = e[1] /\ At(e).peer # e[1] /\ At(e).peer \in Node
         /\ Sends(Mate[e]) <=> ~Sends(e)
         /\ Spi(Mate[e]) <=> Spi(e)
  <1>1. Mate[e] \in Ends /\ Mate[Mate[e]] = e /\ Mate[e][1] = At(e).peer
        /\ At(e).peer # e[1] /\ At(Mate[e]).kind # At(e).kind
    BY MateAssumption
  <1>2. At(Mate[e]).peer = e[1]
    BY <1>1, MateAssumption
  <1>3. At(e) \in Member /\ At(Mate[e]) \in Member
    BY <1>1, EndFacts
  <1> QED
    BY <1>1, <1>2, <1>3 DEF Member, Sends, Spi, Placed

\* A node's order is a total one.
LEMMA BeforeOrder ==
  ASSUME NEW n \in Node, NEW i \in DOMAIN List[n], NEW j \in DOMAIN List[n]
  PROVE  /\ ~(Before(n, i, j) /\ Before(n, j, i))
         /\ i = j \/ Before(n, i, j) \/ Before(n, j, i)
  <1>1. List[n][i] \in Member /\ List[n][j] \in Member /\ i \in Nat /\ j \in Nat
    BY ListAssumption
  <1>2. Source(n, List[n][i]) \in Nat /\ Source(n, List[n][j]) \in Nat
    BY <1>1, ListAssumption DEF Source, Member, Node
  <1> QED
    BY <1>1, <1>2 DEF Before

\* The two ends of a pair of nodes work through what is between them in the same order.
LEMMA MateOrder ==
  ASSUME NEW e \in Ends, NEW f \in Ends, e[1] = f[1], At(e).peer = At(f).peer,
         Before(e[1], e[2], f[2])
  PROVE  Before(At(e).peer, Mate[e][2], Mate[f][2])
  <1>1. /\ Mate[e] \in Ends /\ Mate[f] \in Ends
        /\ Mate[e][1] = At(e).peer /\ Mate[f][1] = At(e).peer
        /\ At(Mate[e]).peer = e[1] /\ At(Mate[f]).peer = e[1] /\ At(e).peer # e[1]
        /\ Sends(Mate[e]) <=> ~Sends(e)
        /\ Sends(Mate[f]) <=> ~Sends(f)
    BY MateFacts
  <1>2. /\ List[e[1]][e[2]] = At(e) /\ List[e[1]][f[2]] = At(f)
        /\ List[At(e).peer][Mate[e][2]] = At(Mate[e])
        /\ List[At(e).peer][Mate[f][2]] = At(Mate[f])
    BY <1>1 DEF At
  <1>3. /\ Source(e[1], At(e)) = IF Sends(e) THEN e[1] ELSE At(e).peer
        /\ Source(e[1], At(f)) = IF Sends(f) THEN e[1] ELSE At(e).peer
        /\ Source(At(e).peer, At(Mate[e])) = IF Sends(e) THEN e[1] ELSE At(e).peer
        /\ Source(At(e).peer, At(Mate[f])) = IF Sends(f) THEN e[1] ELSE At(e).peer
    BY <1>1 DEF Source, Sends
  <1>4. CASE Source(e[1], At(e)) < Source(e[1], At(f))
    BY <1>2, <1>3, <1>4 DEF Before
  <1>5. CASE Source(e[1], At(e)) = Source(e[1], At(f)) /\ e[2] < f[2]
    <2>1. Sends(e) <=> Sends(f)
      BY <1>1, <1>3, <1>5
    <2>2. At(e) \in Member /\ At(f) \in Member
      BY EndFacts
    <2>3. At(e).kind = At(f).kind
      BY <2>1, <2>2 DEF Sends, Member
    <2>4. Mate[e][2] < Mate[f][2]
      BY <1>5, <2>3, MateAssumption
    <2> QED
      BY <1>2, <1>3, <1>5, <2>4 DEF Before
  <1> QED
    BY <1>2, <1>4, <1>5 DEF Before

\* A node that has members left has come to the first of them.
LEMMA FirstLeft ==
  ASSUME NEW n \in Node, ~Done(n)
  PROVE  /\ Current(n) \in Left(n)
         /\ \A j \in Left(n) \ {Current(n)} : Before(n, Current(n), j)
  <1> DEFINE L    == Left(n)
             S(i) == Source(n, List[n][i])
             T    == {S(i) : i \in L}
  <1>1. L # {} /\ L \subseteq DOMAIN List[n]
    BY DEF Done, Left
  <1>2. \A i \in L : i \in 0 .. Len(List[n]) /\ S(i) \in 0 .. NumNodes
    <2> SUFFICES ASSUME NEW i \in L PROVE i \in 0 .. Len(List[n]) /\ S(i) \in 0 .. NumNodes
      OBVIOUS
    <2>1. List[n] \in Seq(Member) /\ i \in DOMAIN List[n]
      BY <1>1, ListAssumption
    <2>2. i \in 0 .. Len(List[n]) /\ List[n][i] \in Member
      BY <2>1
    <2>3. S(i) \in Node
      BY <2>2 DEF Source, Member
    <2> QED
      BY <2>2, <2>3, ListAssumption DEF Node
  <1>3. Len(List[n]) \in Nat /\ NumNodes \in Nat
    BY ListAssumption
  <1> HIDE DEF L, S
  <1>4. PICK s \in T : \A t \in T : s <= t
    <2>1. T \in SUBSET (0 .. NumNodes) /\ T # {}
      BY <1>1, <1>2
    <2> QED
      BY <1>3, <2>1, Least
  <1> DEFINE U == {i \in L : S(i) = s}
  <1>5. PICK i \in U : \A j \in U : i <= j
    <2>1. U \in SUBSET (0 .. Len(List[n])) /\ U # {}
      BY <1>2, <1>4
    <2> HIDE DEF U
    <2> QED
      BY <1>3, <2>1, Least
  <1>6. \A j \in L \ {i} : S(i) < S(j) \/ (S(i) = S(j) /\ i < j)
    <2> SUFFICES ASSUME NEW j \in L \ {i} PROVE S(i) < S(j) \/ (S(i) = S(j) /\ i < j)
      OBVIOUS
    <2>1. S(i) <= S(j) /\ S(i) = s
      BY <1>4, <1>5
    <2>2. S(j) = s => i <= j
      BY <1>5
    <2> QED
      BY <1>2, <1>3, <1>5, <2>1, <2>2
  <1>7. \A j \in L \ {i} : Before(n, i, j)
    BY <1>6 DEF Before, S
  <1>8. \E k \in Left(n) : \A j \in Left(n) \ {k} : Before(n, k, j)
    BY <1>5, <1>7 DEF L
  <1> QED
    BY <1>8 DEF Current

\* What comes before a member that has begun is dealt with.
LEMMA StageOrder ==
  ASSUME Shape, InOrder, NEW n \in Node, NEW i \in DOMAIN List[n], NEW j \in DOMAIN List[n],
         Before(n, i, j), Stage(<<n, j>>) # "handshake"
  PROVE  Stage(<<n, i>>) = "dealt"
  <1> SUFFICES ASSUME i \notin dealt[n] PROVE FALSE
    BY DEF Stage
  <1>1. i \in Left(n) /\ ~Done(n)
    BY DEF Left, Done
  <1>2. j \in dealt[n] \/ j = Current(n)
    BY DEF Stage
  <1>3. ~Before(n, j, i) /\ i # j
    BY BeforeOrder
  <1> QED
    BY <1>1, <1>2, <1>3, FirstLeft DEF InOrder

-----------------------------------------------------------------------------
(* Channels *)

\* A message sent last is the one of the member that comes last.
LEMMA HoldsAppend ==
  ASSUME NEW a, NEW D, NEW c \in Seq(D), NEW S, NEW f, NEW i,
         f[i] \in D, \A j \in S : Before(a, j, i), Holds(a, c, S, f)
  PROVE  Holds(a, Append(c, f[i]), S \cup {i}, f)
  <1> DEFINE l == Len(c)
             d == Append(c, f[i])
  <1>1. /\ l \in Nat /\ Len(d) = l + 1
        /\ \A x \in 1 .. l : d[x] = c[x]
        /\ d[l + 1] = f[i]
    BY AppendProperties
  <1>2. PICK q \in [1 .. l -> S] :
          /\ \A x, y \in 1 .. l : x < y => Before(a, q[x], q[y])
          /\ \A j \in S : \E x \in 1 .. l : q[x] = j
          /\ \A x \in 1 .. l : c[x] = f[q[x]]
    BY DEF Holds
  <1> HIDE DEF l, d
  <1> DEFINE p == [x \in 1 .. l + 1 |-> IF x = l + 1 THEN i ELSE q[x]]
  <1>3. \A x \in 1 .. l : x \in 1 .. l + 1 /\ x # l + 1 /\ p[x] = q[x] /\ q[x] \in S
    BY <1>1, <1>2
  <1>4. l + 1 \in 1 .. l + 1 /\ p[l + 1] = i
    BY <1>1
  <1>5. \A x \in 1 .. l + 1 : x = l + 1 \/ x \in 1 .. l
    BY <1>1
  <1>6. p \in [1 .. l + 1 -> S \cup {i}]
    BY <1>3, <1>5
  <1> HIDE DEF p
  <1>7. \A x, y \in 1 .. l + 1 : x < y => Before(a, p[x], p[y])
    <2> SUFFICES ASSUME NEW x \in 1 .. l + 1, NEW y \in 1 .. l + 1, x < y
                 PROVE  Before(a, p[x], p[y])
      OBVIOUS
    <2>1. x \in 1 .. l
      BY <1>1
    <2>2. CASE y = l + 1
      BY <1>3, <1>4, <2>1, <2>2
    <2>3. CASE y \in 1 .. l
      BY <1>2, <1>3, <2>1, <2>3
    <2> QED
      BY <1>5, <2>2, <2>3
  <1>8. \A j \in S \cup {i} : \E x \in 1 .. l + 1 : p[x] = j
    BY <1>2, <1>3, <1>4
  <1>9. \A x \in 1 .. l + 1 : d[x] = f[p[x]]
    BY <1>1, <1>2, <1>3, <1>4, <1>5
  <1>10. Len(d) = l + 1
    BY <1>1
  <1> DEFINE T == S \cup {i}
  <1>11. p \in [1 .. Len(d) -> T]
    BY <1>6, <1>10
  <1>12. \A j \in T : \E x \in 1 .. l + 1 : p[x] = j
    BY <1>8
  <1> HIDE DEF T
  <1>13. /\ \A x, y \in 1 .. Len(d) : x < y => Before(a, p[x], p[y])
         /\ \A j \in T : \E x \in 1 .. Len(d) : p[x] = j
         /\ \A x \in 1 .. Len(d) : d[x] = f[p[x]]
    BY <1>7, <1>9, <1>10, <1>12
  <1>14. Holds(a, d, T, f)
    BY <1>11, <1>13, Zenon DEF Holds
  <1> QED
    BY <1>14 DEF d, T

\* The oldest message on a channel is that of the first member with one on its way.
LEMMA HoldsTail ==
  ASSUME NEW a, NEW D, NEW c \in Seq(D), c # << >>, NEW S, NEW f,
         \A i \in S : ~Before(a, i, i), Holds(a, c, S, f)
  PROVE  \E i \in S : /\ Head(c) = f[i]
                      /\ \A j \in S \ {i} : Before(a, i, j)
                      /\ Holds(a, Tail(c), S \ {i}, f)
  <1> DEFINE l == Len(c)
             d == Tail(c)
  <1>1. /\ l \in Nat /\ l # 0 /\ Len(d) = l - 1 /\ Head(c) = c[1]
        /\ \A x \in 1 .. l - 1 : d[x] = c[x + 1]
    BY HeadTailProperties, EmptySeq
  <1>2. PICK q \in [1 .. l -> S] :
          /\ \A x, y \in 1 .. l : x < y => Before(a, q[x], q[y])
          /\ \A j \in S : \E x \in 1 .. l : q[x] = j
          /\ \A x \in 1 .. l : c[x] = f[q[x]]
    BY DEF Holds
  <1> HIDE DEF l, d
  <1> DEFINE i == q[1]
             p == [x \in 1 .. l - 1 |-> q[x + 1]]
  <1>3. 1 \in 1 .. l /\ i \in S /\ Head(c) = f[i]
    BY <1>1, <1>2
  <1>4. \A x \in 1 .. l : x # 1 => q[x] # i /\ Before(a, i, q[x])
    <2> SUFFICES ASSUME NEW x \in 1 .. l, x # 1 PROVE q[x] # i /\ Before(a, i, q[x])
      OBVIOUS
    <2>1. 1 < x
      BY <1>1
    <2>2. Before(a, i, q[x])
      BY <1>2, <1>3, <2>1
    <2> QED
      BY <1>3, <2>2
  <1>5. \A j \in S \ {i} : Before(a, i, j)
    BY <1>2, <1>4
  <1>6. \A x \in 1 .. l - 1 : x + 1 \in 1 .. l /\ x + 1 # 1 /\ p[x] = q[x + 1]
    BY <1>1
  <1>7. p \in [1 .. l - 1 -> S \ {i}]
    <2>1. \A x \in 1 .. l - 1 : q[x + 1] \in S \ {i}
      BY <1>2, <1>4, <1>6
    <2> QED
      BY <2>1
  <1>8. \A x \in 1 .. l : x # 1 => x - 1 \in 1 .. l - 1 /\ p[x - 1] = q[x]
    BY <1>1, <1>6
  <1> HIDE DEF p, i
  <1>9. \A x, y \in 1 .. l - 1 : x < y => Before(a, p[x], p[y])
    <2> SUFFICES ASSUME NEW x \in 1 .. l - 1, NEW y \in 1 .. l - 1, x < y
                 PROVE  Before(a, p[x], p[y])
      OBVIOUS
    <2>1. x + 1 < y + 1
      BY <1>1
    <2>2. Before(a, q[x + 1], q[y + 1])
      BY <1>2, <1>6, <2>1
    <2> QED
      BY <1>6, <2>2
  <1>10. \A j \in S \ {i} : \E x \in 1 .. l - 1 : p[x] = j
    <2> SUFFICES ASSUME NEW j \in S \ {i} PROVE \E x \in 1 .. l - 1 : p[x] = j
      OBVIOUS
    <2>1. PICK x \in 1 .. l : q[x] = j
      BY <1>2
    <2>2. x # 1
      BY <2>1 DEF i
    <2> QED
      BY <1>8, <2>1, <2>2
  <1>11. \A x \in 1 .. l - 1 : d[x] = f[p[x]]
    BY <1>1, <1>2, <1>6
  <1>12. Len(d) = l - 1
    BY <1>1
  <1> DEFINE T == S \ {i}
  <1>13. Holds(a, d, S \ {i}, f)
    <2>1. p \in [1 .. Len(d) -> T]
      BY <1>7, <1>12
    <2>2. \A j \in T : \E x \in 1 .. Len(d) : p[x] = j
      BY <1>10, <1>12
    <2> HIDE DEF T
    <2>3. /\ \A x, y \in 1 .. Len(d) : x < y => Before(a, p[x], p[y])
          /\ \A x \in 1 .. Len(d) : d[x] = f[p[x]]
      BY <1>9, <1>11, <1>12
    <2>4. Holds(a, d, T, f)
      BY <2>1, <2>2, <2>3, Zenon DEF Holds
    <2> QED
      BY <2>4 DEF T
  <1> QED
    BY <1>3, <1>5, <1>13 DEF d

\* What node e[1] sends for its member e goes behind what it has sent before.
LEMMA CarrySent ==
  ASSUME NEW D, NEW c \in [Node \X Node -> Seq(D)], NEW S, NEW G, NEW F, Carry(c, S, G, F),
         NEW e \in Ends, Mate[e] \notin G, F[e[1]][e[2]] \in D,
         \A f \in S \cap Ends : f[1] = e[1] => Before(e[1], f[2], e[2])
  PROVE  Carry([c EXCEPT ![<<e[1], At(e).peer>>] = Append(@, F[e[1]][e[2]])], S \cup {e}, G, F)
  <1> DEFINE d == [c EXCEPT ![<<e[1], At(e).peer>>] = Append(@, F[e[1]][e[2]])]
  <1>1. e = <<e[1], e[2]>> /\ e[1] \in Node /\ At(e).peer \in Node /\ e[2] \in DOMAIN List[e[1]]
    BY EndFacts, MateFacts
  <1> SUFFICES ASSUME NEW a \in Node, NEW b \in Node
               PROVE  Holds(a, d[<<a, b>>], OnWay(S \cup {e}, G, a, b), F[a])
    BY DEF Carry
  <1>2. Holds(a, c[<<a, b>>], OnWay(S, G, a, b), F[a])
    BY DEF Carry
  <1>3. CASE a = e[1] /\ b = At(e).peer
    <2>1. d[<<a, b>>] = Append(c[<<a, b>>], F[a][e[2]]) /\ c[<<a, b>>] \in Seq(D)
      BY <1>1, <1>3
    <2>2. OnWay(S \cup {e}, G, a, b) = OnWay(S, G, a, b) \cup {e[2]}
      <3>1. \A i \in DOMAIN List[a] : <<a, i>> = e <=> i = e[2]
        BY <1>1, <1>3
      <3>2. /\ <<a, e[2]>> = e
            /\ e[2] \in DOMAIN List[a] /\ At(e).peer = b /\ Mate[e] \notin G
        BY <1>1, <1>3
      <3>3. e[2] \in OnWay(S \cup {e}, G, a, b)
        <4> DEFINE j == e[2]
        <4>1. j \in DOMAIN List[a] /\ <<a, j>> = e
          BY <3>2
        <4> HIDE DEF j
        <4>2. j \in OnWay(S \cup {e}, G, a, b)
          BY <3>2, <4>1 DEF OnWay
        <4> QED
          BY <4>2 DEF j
      <3>4. \A i \in DOMAIN List[a] : i # e[2] => (<<a, i>> \in S \cup {e} <=> <<a, i>> \in S)
        BY <3>1
      <3> QED
        BY <3>3, <3>4 DEF OnWay
    <2>3. \A j \in OnWay(S, G, a, b) : Before(a, j, e[2])
      BY <1>3, EndFacts DEF OnWay
    <2>4. Holds(a, Append(c[<<a, b>>], F[a][e[2]]), OnWay(S, G, a, b) \cup {e[2]}, F[a])
      BY <1>2, <1>3, <2>1, <2>3, HoldsAppend
    <2> QED
      BY <2>1, <2>2, <2>4
  <1>4. CASE ~(a = e[1] /\ b = At(e).peer)
    <2>1. d[<<a, b>>] = c[<<a, b>>]
      BY <1>1, <1>4
    <2>2. OnWay(S \cup {e}, G, a, b) = OnWay(S, G, a, b)
      <3>1. \A i \in DOMAIN List[a] : <<a, i>> = e => a = e[1]
        BY <1>1
      <3>2. ASSUME NEW i \in DOMAIN List[a], <<a, i>> = e PROVE At(<<a, i>>).peer # b
        BY ONLY <1>4, <3>1, <3>2
      <3> QED
        BY <3>2 DEF OnWay
    <2> QED
      BY <1>2, <2>1, <2>2
  <1> QED
    BY <1>3, <1>4

\* When a message for e's node comes first on its way there, it is that of e's mate.
MateIsFirst(S, G, e) ==
  \A k \in OnWay(S, G, At(e).peer, e[1]) :
    (\A j \in OnWay(S, G, At(e).peer, e[1]) \ {k} : Before(At(e).peer, k, j)) => k = Mate[e][2]

\* What node e[1] receives for its member e is its mate's message, when the mate is the
\* first that has one on its way.
LEMMA CarryReceived ==
  ASSUME NEW D, NEW c \in [Node \X Node -> Seq(D)], NEW S, NEW G, NEW F, Carry(c, S, G, F),
         NEW e \in Ends, c[<<At(e).peer, e[1]>>] # << >>,
         MateIsFirst(S, G, e)
  PROVE  /\ Mate[e] \in S
         /\ Head(c[<<At(e).peer, e[1]>>]) = F[At(e).peer][Mate[e][2]]
         /\ Carry([c EXCEPT ![<<At(e).peer, e[1]>>] = Tail(@)], S, G \cup {e}, F)
  <1> DEFINE d == [c EXCEPT ![<<At(e).peer, e[1]>>] = Tail(@)]
             p == At(e).peer
             n == e[1]
             W == OnWay(S, G, p, n)
  <1>1. e = <<e[1], e[2]>> /\ n \in Node /\ p \in Node
    BY EndFacts, MateFacts
  <1>2. /\ Mate[e] = <<p, Mate[e][2]>> /\ Mate[Mate[e]] = e /\ Mate[e] \in Ends
        /\ At(Mate[e]).peer = n /\ Mate[e][2] \in DOMAIN List[p]
    BY EndFacts, MateFacts
  <1>3. Holds(p, c[<<p, n>>], W, F[p]) /\ c[<<p, n>>] \in Seq(D) /\ c[<<p, n>>] # << >>
    BY <1>1 DEF Carry
  <1>4. \A i \in W : ~Before(p, i, i)
    BY <1>1, BeforeOrder DEF OnWay
  <1>5. PICK k \in W : /\ Head(c[<<p, n>>]) = F[p][k]
                       /\ \A j \in W \ {k} : Before(p, k, j)
                       /\ Holds(p, Tail(c[<<p, n>>]), W \ {k}, F[p])
    <2> HIDE DEF W, p, n
    <2> QED
      BY <1>3, <1>4, HoldsTail
  <1>6. k = Mate[e][2]
    BY <1>5 DEF MateIsFirst
  <1>7. Mate[e] \in S
    BY <1>2, <1>6 DEF OnWay
  <1>8. ASSUME NEW a \in Node, NEW b \in Node
        PROVE  Holds(a, d[<<a, b>>], OnWay(S, G \cup {e}, a, b), F[a])
    <2>1. \A i \in DOMAIN List[a] : Mate[<<a, i>>] = e => a = p /\ i = k /\ At(<<a, i>>).peer = n
      BY <1>2, <1>6, EndFacts, MateFacts
    <2>2. CASE a = p /\ b = n
      <3>1. d[<<a, b>>] = Tail(c[<<a, b>>])
        BY <1>1, <2>2
      <3>2. Mate[<<a, k>>] = e
        BY <1>2, <1>6, <2>2
      <3>3. \A i \in DOMAIN List[a] :
              i \in OnWay(S, G \cup {e}, a, b) <=> i \in OnWay(S, G, a, b) /\ i # k
        BY <2>1, <3>2 DEF OnWay
      <3>4. OnWay(S, G \cup {e}, a, b) = W \ {k}
        BY <2>2, <3>3 DEF OnWay
      <3> QED
        BY <1>5, <2>2, <3>1, <3>4
    <2>3. CASE ~(a = p /\ b = n)
      <3>1. d[<<a, b>>] = c[<<a, b>>]
        BY <1>1, <2>3
      <3>2. OnWay(S, G \cup {e}, a, b) = OnWay(S, G, a, b)
        BY <2>1, <2>3 DEF OnWay
      <3> QED
        BY <3>1, <3>2 DEF Carry
    <2> QED
      BY <2>2, <2>3
  <1> QED
    BY <1>5, <1>6, <1>7, <1>8 DEF Carry

-----------------------------------------------------------------------------
(* What a step does to how far the members are *)

\* Node n has come to the end e.
Working(n, e) == ~Done(n) /\ e = <<n, Current(n)>>
\* The end e comes to stage s, and no other end moves.
Moves(e, s) == \A f \in Ends : Stage(f)' = IF f = e THEN s ELSE Stage(f)

LEMMA WorkingFacts ==
  ASSUME NEW n \in Node, NEW e, Working(n, e)
  PROVE  /\ e \in Ends /\ e = <<n, e[2]>> /\ e[1] = n /\ e[2] = Current(n)
         /\ e[2] \in Left(n) /\ e[2] \in DOMAIN List[n] /\ e[2] \notin dealt[n]
         /\ At(e) = Cur(n) /\ Stage(e) = step[n]
         /\ \A j \in Left(n) \ {e[2]} : Before(n, e[2], j)
         /\ Cur(n) \in Member /\ In(n) = <<At(e).peer, n>> /\ Out(n) = <<n, At(e).peer>>
         /\ Address(n) = e
         /\ Sends(e) <=> Cur(n).kind = "send"
         /\ ~Sends(e) <=> Cur(n).kind = "recv"
  <1>1. /\ Current(n) \in Left(n)
        /\ \A j \in Left(n) \ {Current(n)} : Before(n, Current(n), j)
    BY FirstLeft DEF Working
  <1>2. e[1] = n /\ e[2] = Current(n) /\ e = <<n, e[2]>>
    BY DEF Working
  <1>3. e[2] \in DOMAIN List[n] /\ e[2] \notin dealt[n]
    BY <1>1, <1>2 DEF Left
  <1>4. e \in Ends /\ At(e) = Cur(n) /\ Stage(e) = step[n]
    BY <1>2, <1>3, EndFacts DEF At, Cur, Stage
  <1>5. Cur(n) \in Member
    BY <1>4, EndFacts
  <1> QED
    BY <1>1, <1>2, <1>3, <1>4, <1>5 DEF In, Out, Address, Sends, Member

LEMMA GoneTo ==
  ASSUME Shape, NEW n \in Node, NEW e, Working(n, e), NEW s, Goto(n, s), dealt' = dealt
  PROVE  Moves(e, s)
  <1>1. step' = [step EXCEPT ![n] = s] /\ step \in [Node -> {"handshake", "handed", "answer", "prepare", "told", "learn"}]
    BY DEF Goto, Shape, TypeOK
  <1>2. \A m \in Node : Current(m)' = Current(m)
    BY DEF Current, Left
  <1> SUFFICES ASSUME NEW f \in Ends PROVE Stage(f)' = IF f = e THEN s ELSE Stage(f)
    BY DEF Moves
  <1>3. f[1] \in Node /\ f = <<f[1], f[2]>>
    BY EndFacts
  <1>4. Stage(f)' = IF f[2] \in dealt[f[1]] THEN "dealt"
                    ELSE IF f[2] = Current(f[1]) THEN step'[f[1]] ELSE "handshake"
    BY <1>2, <1>3 DEF Stage
  <1>5. CASE f = e
    BY <1>1, <1>4, <1>5, WorkingFacts
  <1>6. CASE f # e /\ f[1] = n
    BY <1>3, <1>4, <1>6, WorkingFacts DEF Stage
  <1>7. CASE f[1] # n
    BY <1>1, <1>3, <1>4, <1>7, WorkingFacts DEF Stage
  <1> QED
    BY <1>5, <1>6, <1>7

LEMMA DealtWith ==
  ASSUME Shape, InOrder, NEW n \in Node, NEW e, Working(n, e), Goto(n, "handshake"),
         dealt' = [dealt EXCEPT ![n] = @ \cup {Current(n)}]
  PROVE  Moves(e, "dealt") /\ InOrder' /\ \A m \in Node : dealt'[m] \subseteq DOMAIN List[m]
  <1>1. step' = [step EXCEPT ![n] = "handshake"] /\ step \in [Node -> {"handshake", "handed", "answer", "prepare", "told", "learn"}]
        /\ dealt \in [Node -> SUBSET Nat]
    BY DEF Goto, Shape, TypeOK
  <1>2. dealt'[n] = dealt[n] \cup {e[2]} /\ \A m \in Node \ {n} : dealt'[m] = dealt[m]
    BY <1>1, WorkingFacts
  <1>3. \A m \in Node \ {n} : Current(m)' = Current(m) /\ Left(m)' = Left(m)
    BY <1>2 DEF Current, Left
  <1>4. Left(n)' = Left(n) \ {e[2]}
    BY <1>2 DEF Left
  <1>5. InOrder'
    <2> SUFFICES ASSUME NEW m \in Node, NEW i \in dealt'[m], NEW j \in Left(m)'
                 PROVE  Before(m, i, j)
      BY DEF InOrder
    <2>1. CASE m # n
      BY <1>2, <1>3, <2>1 DEF InOrder
    <2>2. CASE m = n /\ i = e[2]
      BY <1>4, <2>2, WorkingFacts
    <2>3. CASE m = n /\ i \in dealt[n]
      BY <1>4, <2>3 DEF InOrder
    <2> QED
      BY <1>2, <2>1, <2>2, <2>3
  <1>6. Moves(e, "dealt")
    <2> SUFFICES ASSUME NEW f \in Ends PROVE Stage(f)' = IF f = e THEN "dealt" ELSE Stage(f)
      BY DEF Moves
    <2>1. f[1] \in Node /\ f = <<f[1], f[2]>>
      BY EndFacts
    <2>2. CASE f = e
      BY <1>2, <2>2, WorkingFacts DEF Stage
    <2>3. CASE f # e /\ f[1] = n
      <3>1. f[2] # e[2] /\ (f[2] \in dealt'[n] <=> f[2] \in dealt[n]) /\ step'[n] = "handshake"
        BY <1>1, <1>2, <2>1, <2>3, WorkingFacts
      <3> QED
        BY <2>3, <3>1, WorkingFacts DEF Stage
    <2>4. CASE f[1] # n
      <3>1. step'[f[1]] = step[f[1]]
        BY <1>1, <2>1, <2>4
      <3> QED
        BY <1>2, <1>3, <2>1, <2>4, <3>1, WorkingFacts DEF Stage
    <2> QED
      BY <2>2, <2>3, <2>4
  <1> QED
    BY <1>2, <1>5, <1>6, WorkingFacts DEF Shape

\* Who has sent and received what, after the step.
LEMMA SetsMove ==
  ASSUME NEW e \in Ends, NEW s, Moves(e, s)
  PROVE  /\ CountsOut' = IF CountOut(e, s) THEN CountsOut \cup {e} ELSE CountsOut \ {e}
         /\ CountsIn'  = IF CountIn(e, s)  THEN CountsIn  \cup {e} ELSE CountsIn  \ {e}
         /\ AddrsOut'  = IF AddrOut(e, s)  THEN AddrsOut  \cup {e} ELSE AddrsOut  \ {e}
         /\ AddrsIn'   = IF AddrIn(e, s)   THEN AddrsIn   \cup {e} ELSE AddrsIn   \ {e}
  <1>1. \A f \in Ends : Stage(f)' = IF f = e THEN s ELSE Stage(f)
    BY DEF Moves
  <1>2. \A f \in Ends : /\ f \in CountsOut' <=> CountOut(f, Stage(f)')
                        /\ f \in CountsIn'  <=> CountIn(f, Stage(f)')
                        /\ f \in AddrsOut'  <=> AddrOut(f, Stage(f)')
                        /\ f \in AddrsIn'   <=> AddrIn(f, Stage(f)')
    BY DEF CountsOut, CountsIn, AddrsOut, AddrsIn, CountOut, CountIn, AddrOut, AddrIn, Spi, Sends, At
  <1>3. CountsOut' \subseteq Ends /\ CountsIn' \subseteq Ends
        /\ AddrsOut' \subseteq Ends /\ AddrsIn' \subseteq Ends
    BY DEF CountsOut, CountsIn, AddrsOut, AddrsIn
  <1> QED
    BY <1>1, <1>2, <1>3 DEF CountsOut, CountsIn, AddrsOut, AddrsIn

\* A node deals with all that comes before a member first.
LEMMA BegunBefore ==
  ASSUME Shape, InOrder, NEW n \in Node, NEW e, Working(n, e),
         NEW f \in Ends, f[1] = n, f # e, Stage(f) # "handshake"
  PROVE  Before(n, f[2], e[2])
  <1>1. f = <<n, f[2]>> /\ f[2] \in DOMAIN List[n] /\ e[2] \in DOMAIN List[n] /\ f[2] # e[2]
    BY EndFacts, WorkingFacts
  <1>2. f[2] \in dealt[n]
    BY <1>1, WorkingFacts DEF Stage
  <1> QED
    BY <1>2, WorkingFacts DEF InOrder

\* An end that has sent has begun, and when its mate is dealt with the mate has received.
Received(S, G) == \A f \in S \cap Ends : /\ Stage(f) # "handshake"
                                         /\ Stage(Mate[f]) = "dealt" => Mate[f] \in G

\* The oldest message for the end e is its mate's.
LEMMA HeadIsMate ==
  ASSUME Shape, InOrder, NEW n \in Node, NEW e, Working(n, e), NEW S, NEW G, e \notin G,
         Received(S, G), Stage(Mate[e]) = "dealt" => Mate[e] \in S
  PROVE  MateIsFirst(S, G, e)
  <1> SUFFICES ASSUME NEW k \in OnWay(S, G, At(e).peer, n),
                      \A j \in OnWay(S, G, At(e).peer, n) \ {k} : Before(At(e).peer, k, j)
               PROVE  k = Mate[e][2]
    BY WorkingFacts DEF MateIsFirst
  <1> USE DEF Received
  <1> DEFINE p == At(e).peer
             g == <<p, k>>
             m == Mate[e]
  <1>1. e \in Ends /\ p \in Node /\ e[1] = n /\ p # n
    BY WorkingFacts, MateFacts
  <1>2. g \in Ends /\ g \in S /\ At(g).peer = n /\ Mate[g] \notin G /\ k \in DOMAIN List[p]
    BY <1>1, EndFacts DEF OnWay
  <1>3. /\ m \in Ends /\ m = <<p, m[2]>> /\ Mate[m] = e /\ At(m).peer = n /\ m[1] = p
        /\ m[2] \in DOMAIN List[p]
    BY <1>1, MateFacts, EndFacts
  <1>4. /\ Mate[g] \in Ends /\ Mate[g][1] = n /\ Mate[g] = <<n, Mate[g][2]>>
        /\ Mate[g][2] \in DOMAIN List[n] /\ Mate[Mate[g]] = g
    BY <1>2, MateFacts, EndFacts
  <1>5. g[1] = p /\ g[2] = k
    OBVIOUS
  <1> HIDE DEF g, m, p
  <1>6. ~Before(p, k, m[2])
    <2> SUFFICES ASSUME Before(p, k, m[2]) PROVE FALSE
      OBVIOUS
    <2>1. Before(n, Mate[g][2], e[2])
      BY <1>2, <1>3, <1>5, MateOrder
    <2>2. ~Before(n, e[2], Mate[g][2]) /\ Mate[g][2] # e[2]
      BY <1>4, <2>1, BeforeOrder, WorkingFacts
    <2>3. Mate[g][2] \in dealt[n]
      BY <1>4, <2>2, WorkingFacts DEF Left
    <2>4. Stage(Mate[g]) = "dealt"
      BY <1>4, <2>3 DEF Stage
    <2> QED
      BY <1>2, <2>4
  <1>7. ~Before(p, m[2], k)
    <2> SUFFICES ASSUME Before(p, m[2], k) PROVE FALSE
      OBVIOUS
    <2>1. Stage(<<p, k>>) # "handshake"
      BY <1>2 DEF g
    <2>2. Stage(m) = "dealt"
      BY <1>1, <1>2, <1>3, <2>1, StageOrder
    <2>3. <<p, m[2]>> \in S /\ At(<<p, m[2]>>).peer = n /\ Mate[<<p, m[2]>>] \notin G
      BY <1>3, <2>2 DEF m
    <2>4. m[2] \in OnWay(S, G, p, n)
      BY <1>3, <2>3 DEF OnWay
    <2>5. m[2] # k
      BY <1>1, <1>2, BeforeOrder
    <2>6. Before(p, k, m[2])
      BY <2>4, <2>5 DEF p
    <2> QED
      BY <1>6, <2>6
  <1>8. k = m[2]
    BY <1>1, <1>2, <1>3, <1>6, <1>7, BeforeOrder
  <1> QED
    BY <1>8 DEF m

\* What the ends hold, when only e moves.
LEMMA EndsHold ==
  ASSUME Shape, Decided, Heard, Learned, Agreed, NEW n \in Node, NEW e, Working(n, e),
         NEW s, Moves(e, s),
         s \in {"prepare", "told", "learn"} => Spi(e),
         \A m \in Node \ {n} : nmsgo'[m] = nmsgo[m],
         ~Sends(e) /\ s \in {"answer", "handed"} => nmsgo'[n] = At(Mate[e]).nmsg,
         \A f \in Ends : other'[f[1]][f[2]] =
           IF f = e THEN IF AddrIn(e, s) THEN Mate[e] ELSE None ELSE other[f[1]][f[2]],
         \A f \in Ends : useSPI'[f[1]][f[2]] =
           IF f = e THEN s = "dealt" /\ Spi(e) ELSE useSPI[f[1]][f[2]]
  PROVE  Decided' /\ Heard' /\ Learned' /\ Agreed'
  <1> USE DEF Moves
  <1>1. \A f \in Ends : f[1] \in Node /\ f = <<f[1], f[2]>>
    BY EndFacts
  <1>2. e \in Ends
    BY WorkingFacts
  <1>3. Decided'
    BY DEF Decided, Spi, Placed, At
  <1>4. Agreed'
    BY DEF Agreed, Spi, Placed, At
  <1>5. Learned'
    <2>1. \A f \in Ends : f # e => (f \in AddrsIn' <=> f \in AddrsIn)
      BY <1>2, SetsMove
    <2>2. e \in AddrsIn' <=> AddrIn(e, s)
      BY <1>2, SetsMove
    <2> QED
      BY <2>1, <2>2 DEF Learned
  <1>6. Heard'
    <2> SUFFICES ASSUME NEW f \in Ends, ~Sends(f), Stage(f)' \in {"answer", "handed"}
                 PROVE  nmsgo'[f[1]] = At(Mate[f]).nmsg
      BY DEF Heard, Sends, At
    <2>1. CASE f = e
      BY <2>1, WorkingFacts
    <2>2. CASE f # e /\ f[1] = n
      BY <1>1, <2>2, WorkingFacts DEF Stage
    <2>3. CASE f[1] # n
      BY <1>1, <2>3, WorkingFacts DEF Heard
    <2> QED
      BY <2>1, <2>2, <2>3
  <1> QED
    BY <1>3, <1>4, <1>5, <1>6

\* The tables the nodes keep of their members have an entry for each.
Table(t, T)  == DOMAIN t = Node /\ \A m \in Node : t[m] \in [1 .. Len(List[m]) -> T]
Put(t, e, v) == [t EXCEPT ![e[1]][e[2]] = v]

LEMMA TableUpdate ==
  ASSUME NEW T, NEW t, Table(t, T), NEW e \in Ends, NEW v \in T
  PROVE  /\ Table(Put(t, e, v), T)
         /\ \A f \in Ends : Put(t, e, v)[f[1]][f[2]] = IF f = e THEN v ELSE t[f[1]][f[2]]
  <1> USE DEF Table
  <1> DEFINE u == Put(t, e, v)
  <1>1. /\ e[1] \in Node /\ e[2] \in 1 .. Len(List[e[1]]) /\ e = <<e[1], e[2]>>
        /\ \A f \in Ends : f = <<f[1], f[2]>> /\ f[1] \in Node /\ f[2] \in 1 .. Len(List[f[1]])
    BY EndFacts, ListAssumption
  <1>2. DOMAIN u = Node /\ u[e[1]] = [t[e[1]] EXCEPT ![e[2]] = v]
        /\ \A m \in Node \ {e[1]} : u[m] = t[m]
    BY <1>1 DEF Put
  <1> HIDE DEF u
  <1>3. u[e[1]] \in [1 .. Len(List[e[1]]) -> T]
    BY <1>1, <1>2
  <1>4. ASSUME NEW f \in Ends PROVE u[f[1]][f[2]] = IF f = e THEN v ELSE t[f[1]][f[2]]
    <2>1. CASE f[1] # e[1]
      BY <1>1, <1>2, <2>1
    <2>2. CASE f[1] = e[1] /\ f[2] # e[2]
      BY <1>1, <1>2, <2>2
    <2>3. CASE f = e
      BY <1>1, <1>2, <2>3
    <2> QED
      BY <1>1, <2>1, <2>2, <2>3
  <1> QED
    BY <1>2, <1>3, <1>4 DEF u

\* A step keeps the tables and the channels well formed.
LEMMA ShapeGoes ==
  ASSUME Shape, NEW n \in Node, NEW e, Working(n, e), NEW s, Goto(n, s),
         s \in {"handshake", "handed", "answer", "prepare", "told", "learn"}, eager' = eager,
         comm' \in [Node \X Node -> Seq(Nat)], world' \in [Node \X Node -> Seq(End)],
         nmsgo' \in [Node -> Nat], dealt' = dealt, useSPI' = useSPI,
         Table(other', End \cup {None})
  PROVE  Shape'
  <1>1. step' \in [Node -> {"handshake", "handed", "answer", "prepare", "told", "learn"}]
    BY DEF Goto, Shape, TypeOK
  <1> QED
    BY <1>1 DEF Shape, TypeOK, Table

LEMMA ShapeDealt ==
  ASSUME Shape, NEW n \in Node, NEW e, Working(n, e), NEW spi \in BOOLEAN, Advance(n, spi),
         eager' = eager,
         comm' \in [Node \X Node -> Seq(Nat)], world' \in [Node \X Node -> Seq(End)],
         nmsgo' \in [Node -> Nat],
         Table(other', End \cup {None})
  PROVE  /\ Shape'
         /\ \A f \in Ends : useSPI'[f[1]][f[2]] = IF f = e THEN spi ELSE useSPI[f[1]][f[2]]
  <1>1. step' \in [Node -> {"handshake", "handed", "answer", "prepare", "told", "learn"}]
    BY DEF Advance, Goto, Shape, TypeOK
  <1>2. /\ Table(useSPI', BOOLEAN)
        /\ \A f \in Ends : useSPI'[f[1]][f[2]] = IF f = e THEN spi ELSE useSPI[f[1]][f[2]]
    <2>1. e \in Ends /\ useSPI' = Put(useSPI, e, spi)
      BY WorkingFacts DEF Advance, Marked, Put
    <2>2. Table(useSPI, BOOLEAN)
      BY DEF Shape, TypeOK, Table
    <2> QED
      BY <2>1, <2>2, TableUpdate
  <1>3. /\ dealt' \in [Node -> SUBSET Nat] /\ \A m \in Node : dealt'[m] \subseteq DOMAIN List[m]
        /\ \A m \in Node : DOMAIN List[m] \subseteq Nat
    <2>1. dealt' = [dealt EXCEPT ![n] = @ \cup {e[2]}] /\ e[2] \in DOMAIN List[n]
      BY WorkingFacts DEF Advance
    <2>2. ASSUME NEW m \in Node PROVE DOMAIN List[m] \subseteq Nat
      <3>1. DOMAIN List[m] = 1 .. Len(List[m])
        BY ListAssumption
      <3> QED
        BY <3>1
    <2>3. e[2] \in Nat
      BY <2>1, <2>2
    <2> QED
      BY <2>1, <2>2, <2>3 DEF Shape, TypeOK
  <1> QED
    BY <1>1, <1>2, <1>3 DEF Shape, TypeOK, Table

-----------------------------------------------------------------------------
(* The steps *)

LEMMA SendCountKeeps ==
  ASSUME PairInv, NEW n \in Node, NEW e, Working(n, e), SendCount(n)
  PROVE  PairInv'
  <1> USE DEF PairInv
  <1>1. Moves(e, "handed")
    BY GoneTo DEF SendCount
  <1>2. e \in Ends /\ e[1] = n /\ Stage(e) = IF Sends(e) THEN "handshake" ELSE "answer"
    BY WorkingFacts DEF SendCount
  <1>3. e \notin CountsOut /\ (e \in CountsIn <=> ~Sends(e)) /\ e \notin AddrsOut /\ e \notin AddrsIn
    BY <1>2 DEF CountsOut, CountsIn, AddrsOut, AddrsIn, CountOut, CountIn, AddrOut, AddrIn
  <1>4. /\ CountOut(e, "handed") /\ (CountIn(e, "handed") <=> ~Sends(e))
        /\ ~AddrOut(e, "handed") /\ ~AddrIn(e, "handed")
    BY DEF CountOut, CountIn, AddrOut, AddrIn
  <1>5. CountsOut' = CountsOut \cup {e} /\ CountsIn' = CountsIn
        /\ AddrsOut' = AddrsOut /\ AddrsIn' = AddrsIn
    BY <1>1, <1>2, <1>3, <1>4, SetsMove
  <1>6. Mate[e] \in Ends /\ Mate[Mate[e]] = e /\ At(e).peer \in Node /\ At(e).nmsg \in Nat
    BY <1>2, MateFacts, EndFacts DEF Member
  <1>7. comm' = [comm EXCEPT ![<<e[1], At(e).peer>>] = Append(@, Count[e[1]][e[2]])]
        /\ Count[e[1]][e[2]] \in Nat
    <2>1. Count[e[1]][e[2]] = At(e).nmsg
      BY <1>2, EndFacts DEF Count, At
    <2>2. Out(n) = <<e[1], At(e).peer>> /\ Cur(n).nmsg = At(e).nmsg
      BY <1>2, WorkingFacts
    <2>3. comm' = [comm EXCEPT ![Out(n)] = Append(@, Cur(n).nmsg)]
      BY DEF SendCount
    <2> QED
      BY <1>6, <2>1, <2>2, <2>3
  <1>8. comm \in [Node \X Node -> Seq(Nat)]
    BY DEF Shape, TypeOK
  <1>9. Counts'
    <2>1. Mate[e] \notin CountsIn
      BY <1>3, <1>6 DEF GotSent
    <2>2. \A f \in CountsOut \cap Ends : f[1] = e[1] => Before(e[1], f[2], e[2])
      BY <1>2, <1>3, BegunBefore DEF CountsOut, CountOut
    <2>3. Carry(comm, CountsOut, CountsIn, Count)
      BY DEF Counts
    <2>4. Carry(comm', CountsOut \cup {e}, CountsIn, Count)
      BY <1>2, <1>7, <1>8, <2>1, <2>2, <2>3, CarrySent
    <2> QED
      BY <1>5, <2>4 DEF Counts
  <1>10. Addrs'
    BY <1>5 DEF Addrs, SendCount
  <1>11. GotSent'
    BY <1>5 DEF GotSent
  <1>12. Shape'
    <2>1. comm' \in [Node \X Node -> Seq(Nat)]
      BY <1>2, <1>6, <1>7, <1>8
    <2> QED
      BY <2>1, ShapeGoes DEF SendCount, Shape, TypeOK, Table
  <1>13. InOrder'
    BY DEF InOrder, Left, SendCount
  <1>14. Decided' /\ Heard' /\ Learned' /\ Agreed'
    <2>1. ~Sends(e) => nmsgo[n] = At(Mate[e]).nmsg
      BY <1>2 DEF Heard
    <2>2. other[e[1]][e[2]] = None /\ useSPI[e[1]][e[2]] = FALSE
      BY <1>2, <1>3 DEF Learned, Agreed
    <2>3. other' = other /\ useSPI' = useSPI /\ nmsgo' = nmsgo
      BY DEF SendCount
    <2>4. \A f \in Ends : /\ other'[f[1]][f[2]] = IF f = e THEN IF AddrIn(e, "handed") THEN Mate[e] ELSE None
                                                  ELSE other[f[1]][f[2]]
                          /\ useSPI'[f[1]][f[2]] = IF f = e THEN "handed" = "dealt" /\ Spi(e)
                                                   ELSE useSPI[f[1]][f[2]]
      BY <1>4, <2>2, <2>3
    <2> QED
      BY <1>1, <1>4, <2>1, <2>3, <2>4, EndsHold
  <1> QED
    BY <1>9, <1>10, <1>11, <1>12, <1>13, <1>14

LEMMA TellKeeps ==
  ASSUME PairInv, NEW n \in Node, NEW e, Working(n, e), Tell(n)
  PROVE  PairInv'
  <1> USE DEF PairInv
  <1>1. Moves(e, "told")
    BY GoneTo DEF Tell
  <1>2. e \in Ends /\ e[1] = n /\ Stage(e) = "prepare"
    BY WorkingFacts DEF Tell
  <1>3. e \in CountsOut /\ e \in CountsIn /\ e \notin AddrsOut /\ (e \in AddrsIn <=> Sends(e))
    BY <1>2 DEF CountsOut, CountsIn, AddrsOut, AddrsIn, CountOut, CountIn, AddrOut, AddrIn
  <1>4. /\ CountOut(e, "told") /\ CountIn(e, "told")
        /\ AddrOut(e, "told") /\ (AddrIn(e, "told") <=> Sends(e))
    BY DEF CountOut, CountIn, AddrOut, AddrIn
  <1>5. CountsOut' = CountsOut /\ CountsIn' = CountsIn
        /\ AddrsOut' = AddrsOut \cup {e} /\ AddrsIn' = AddrsIn
    BY <1>1, <1>2, <1>3, <1>4, SetsMove
  <1>6. Mate[e] \in Ends /\ Mate[Mate[e]] = e /\ At(e).peer \in Node
    BY <1>2, MateFacts
  <1>7. world' = [world EXCEPT ![<<e[1], At(e).peer>>] = Append(@, Addr[e[1]][e[2]])]
        /\ Addr[e[1]][e[2]] \in End
    <2>1. Addr[e[1]][e[2]] = e /\ e \in End
      BY <1>2, EndFacts DEF Addr
    <2>2. Out(n) = <<e[1], At(e).peer>> /\ Address(n) = e
      BY <1>2, WorkingFacts
    <2>3. world' = [world EXCEPT ![Out(n)] = Append(@, Address(n))]
      BY DEF Tell
    <2> QED
      BY <2>1, <2>2, <2>3
  <1>8. world \in [Node \X Node -> Seq(End)]
    BY DEF Shape, TypeOK
  <1>9. Addrs'
    <2>1. Mate[e] \notin AddrsIn
      BY <1>3, <1>6 DEF GotSent
    <2>2. \A f \in AddrsOut \cap Ends : f[1] = e[1] => Before(e[1], f[2], e[2])
      BY <1>2, <1>3, BegunBefore DEF AddrsOut, AddrOut
    <2>3. Carry(world, AddrsOut, AddrsIn, Addr)
      BY DEF Addrs
    <2>4. Carry(world', AddrsOut \cup {e}, AddrsIn, Addr)
      BY <1>2, <1>7, <1>8, <2>1, <2>2, <2>3, CarrySent
    <2> QED
      BY <1>5, <2>4 DEF Addrs
  <1>10. Counts'
    BY <1>5 DEF Counts, Tell
  <1>11. GotSent'
    BY <1>5 DEF GotSent
  <1>12. Shape'
    <2>1. world' \in [Node \X Node -> Seq(End)]
      BY <1>2, <1>6, <1>7, <1>8
    <2> QED
      BY <2>1, ShapeGoes DEF Tell, Shape, TypeOK, Table
  <1>13. InOrder'
    BY DEF InOrder, Left, Tell
  <1>14. Decided' /\ Heard' /\ Learned' /\ Agreed'
    <2>1. Spi(e)
      BY <1>2 DEF Decided
    <2>2. other[e[1]][e[2]] = (IF Sends(e) THEN Mate[e] ELSE None) /\ useSPI[e[1]][e[2]] = FALSE
      BY <1>2, <1>3 DEF Learned, Agreed
    <2>3. other' = other /\ useSPI' = useSPI /\ nmsgo' = nmsgo
      BY DEF Tell
    <2>4. \A f \in Ends : /\ other'[f[1]][f[2]] = IF f = e THEN IF AddrIn(e, "told") THEN Mate[e] ELSE None
                                                  ELSE other[f[1]][f[2]]
                          /\ useSPI'[f[1]][f[2]] = IF f = e THEN "told" = "dealt" /\ Spi(e)
                                                   ELSE useSPI[f[1]][f[2]]
      BY <1>4, <2>2, <2>3
    <2> QED
      BY <1>1, <1>4, <2>1, <2>3, <2>4, EndsHold
  <1> QED
    BY <1>9, <1>10, <1>11, <1>12, <1>13, <1>14

\* Node n takes its member e to stage s, ...
Takes(n, e, s) == \/ s = "dealt" /\ Advance(n, Spi(e))
                  \/ /\ s \in {"handshake", "handed", "answer", "prepare", "told", "learn"}
                     /\ Proceed(n, s)
\* ... the channels and tables stay what they are, ...
Typed == /\ eager' = eager
         /\ comm' \in [Node \X Node -> Seq(Nat)] /\ world' \in [Node \X Node -> Seq(End)]
         /\ nmsgo' \in [Node -> Nat] /\ Table(other', End \cup {None})
\* ... nmsgo[n] is what e's mate sent for as long as e needs it, ...
Hears(n, e, s) == /\ \A m \in Node \ {n} : nmsgo'[m] = nmsgo[m]
                  /\ ~Sends(e) /\ s \in {"answer", "handed"} => nmsgo'[n] = At(Mate[e]).nmsg
\* ... and e learns who its mate is when it receives the address.
Learns(e, s) == \A f \in Ends : other'[f[1]][f[2]] =
  IF f = e THEN IF AddrIn(e, s) THEN Mate[e] ELSE None ELSE other[f[1]][f[2]]

\* A step of this form keeps the part of the invariant that is not about the channels.
LEMMA GoesOn ==
  ASSUME PairInv, NEW n \in Node, NEW e, Working(n, e), NEW s, Takes(n, e, s), Typed,
         Hears(n, e, s), Learns(e, s), s \in {"prepare", "told", "learn"} => Spi(e)
  PROVE  Moves(e, s) /\ Shape' /\ InOrder' /\ Decided' /\ Heard' /\ Learned' /\ Agreed'
  <1> USE DEF PairInv, Takes, Typed, Hears, Learns
  <1>1. /\ Moves(e, s) /\ Shape' /\ InOrder'
        /\ \A f \in Ends : useSPI'[f[1]][f[2]] =
             IF f = e THEN s = "dealt" /\ Spi(e) ELSE useSPI[f[1]][f[2]]
    <2>1. CASE s = "dealt" /\ Advance(n, Spi(e))
      <3>1. Spi(e) \in BOOLEAN
        BY DEF Spi, Placed
      <3>2. /\ Shape'
            /\ \A f \in Ends : useSPI'[f[1]][f[2]] = IF f = e THEN Spi(e) ELSE useSPI[f[1]][f[2]]
        BY <2>1, <3>1, ShapeDealt
      <3>3. Moves(e, "dealt") /\ InOrder'
        BY <2>1, DealtWith DEF Advance
      <3> QED
        BY <2>1, <3>1, <3>2, <3>3
    <2>2. CASE s \in {"handshake", "handed", "answer", "prepare", "told", "learn"} /\ Proceed(n, s)
      <3>1. Goto(n, s) /\ dealt' = dealt /\ useSPI' = useSPI /\ s # "dealt"
        BY <2>2 DEF Proceed
      <3>2. Moves(e, s) /\ Shape'
        BY <2>2, <3>1, GoneTo, ShapeGoes
      <3>3. InOrder'
        BY <3>1 DEF InOrder, Left
      <3>4. useSPI[e[1]][e[2]] = FALSE
        <4>1. e \in Ends /\ Stage(e) # "dealt"
          BY WorkingFacts DEF Shape, TypeOK
        <4> QED
          BY <4>1 DEF Agreed
      <3> QED
        BY <3>1, <3>2, <3>3, <3>4
    <2> QED
      BY <2>1, <2>2
  <1>2. Decided' /\ Heard' /\ Learned' /\ Agreed'
    BY <1>1, EndsHold
  <1> QED
    BY <1>1, <1>2

LEMMA SentCountKeeps ==
  ASSUME PairInv, NEW n \in Node, NEW e, Working(n, e), SentCount(n)
  PROVE  PairInv'
  <1> USE DEF PairInv
  <1> DEFINE s == IF Sends(e) THEN "answer" ELSE IF Spi(e) THEN "prepare" ELSE "dealt"
  <1>1. e \in Ends /\ e[1] = n /\ Stage(e) = "handed"
    BY WorkingFacts DEF SentCount
  <1>2. e \in CountsOut /\ (e \in CountsIn <=> ~Sends(e)) /\ e \notin AddrsOut /\ e \notin AddrsIn
    BY <1>1 DEF CountsOut, CountsIn, AddrsOut, AddrsIn, CountOut, CountIn, AddrOut, AddrIn
  <1>3. /\ CountOut(e, s) /\ (CountIn(e, s) <=> ~Sends(e))
        /\ ~AddrOut(e, s) /\ ~AddrIn(e, s)
    BY DEF CountOut, CountIn, AddrOut, AddrIn
  <1>4. (s = "dealt" /\ Advance(n, Spi(e))) \/ (s \in {"answer", "prepare"} /\ Proceed(n, s))
    <2>1. CASE Sends(e)
      BY <2>1, WorkingFacts DEF SentCount
    <2>2. CASE ~Sends(e)
      <3>1. Placed(Cur(n).nmsg, nmsgo[n]) <=> Spi(e)
        BY <1>1, <2>2, WorkingFacts DEF Heard, Spi
      <3>2. IF Spi(e) THEN Proceed(n, "prepare") ELSE Advance(n, FALSE)
        BY <2>2, <3>1, WorkingFacts DEF SentCount
      <3>3. ~Spi(e) => Advance(n, Spi(e))
        BY <3>2, Zenon DEF Spi, Placed, Advance, Marked
      <3> QED
        BY <2>2, <3>2, <3>3
    <2> QED
      BY <2>1, <2>2
  <1>5. UNCHANGED <<eager, comm, world, nmsgo, other>>
    BY DEF SentCount
  <1>6. ~(~Sends(e) /\ s \in {"answer", "handed"}) /\ (s \in {"prepare", "told", "learn"} => Spi(e))
    OBVIOUS
  <1>7. other[e[1]][e[2]] = None
    BY <1>1, <1>2 DEF Learned
  <1>8. Shape
    OBVIOUS
  <1> HIDE DEF s
  <1>9. Moves(e, s) /\ Shape' /\ InOrder' /\ Decided' /\ Heard' /\ Learned' /\ Agreed'
    <2>1. Typed
      BY <1>5, <1>8 DEF Typed, Shape, TypeOK, Table
    <2>2. Learns(e, s) /\ Hears(n, e, s)
      BY <1>3, <1>5, <1>6, <1>7 DEF Learns, Hears
    <2>3. Takes(n, e, s)
      BY <1>4 DEF Takes
    <2> QED
      BY <1>6, <2>1, <2>2, <2>3, GoesOn
  <1>10. CountsOut' = CountsOut /\ CountsIn' = CountsIn /\ AddrsOut' = AddrsOut /\ AddrsIn' = AddrsIn
    BY <1>1, <1>2, <1>3, <1>9, SetsMove
  <1>11. Counts' /\ Addrs' /\ GotSent'
    BY <1>5, <1>10 DEF Counts, Addrs, GotSent
  <1> QED
    BY <1>9, <1>11

LEMMA RecvCountKeeps ==
  ASSUME PairInv, NEW n \in Node, NEW e, Working(n, e), RecvCount(n)
  PROVE  PairInv'
  <1>0. /\ Shape /\ InOrder /\ Decided /\ Heard /\ Learned /\ Agreed
        /\ GotSent /\ Counts /\ Addrs
    BY DEF PairInv
  <1> USE <1>0
  <1> DEFINE s == IF Sends(e) THEN IF Spi(e) THEN "learn" ELSE "dealt" ELSE "answer"
             p == At(e).peer
  <1>1. e \in Ends /\ e[1] = n /\ Stage(e) = IF Sends(e) THEN "answer" ELSE "handshake"
    BY WorkingFacts DEF RecvCount
  <1>2. (e \in CountsOut <=> Sends(e)) /\ e \notin CountsIn /\ e \notin AddrsOut /\ e \notin AddrsIn
    BY <1>1 DEF CountsOut, CountsIn, AddrsOut, AddrsIn, CountOut, CountIn, AddrOut, AddrIn
  <1>3. /\ (CountOut(e, s) <=> Sends(e)) /\ CountIn(e, s)
        /\ ~AddrOut(e, s) /\ ~AddrIn(e, s)
    BY DEF CountOut, CountIn, AddrOut, AddrIn
  <1>4. /\ comm[<<p, e[1]>>] # << >>
        /\ comm' = [comm EXCEPT ![<<p, e[1]>>] = Tail(@)]
        /\ nmsgo' = [nmsgo EXCEPT ![n] = Head(comm[<<p, e[1]>>])]
    <2>1. In(n) = <<p, e[1]>>
      BY <1>1, WorkingFacts
    <2>2. /\ comm[In(n)] # << >>
          /\ comm' = [comm EXCEPT ![In(n)] = Tail(@)]
          /\ nmsgo' = [nmsgo EXCEPT ![n] = Head(comm[In(n)])]
      BY DEF RecvCount
    <2> QED
      BY <2>1, <2>2, Zenon
  <1>5. comm \in [Node \X Node -> Seq(Nat)] /\ p \in Node /\ Mate[e] \in Ends /\ Mate[Mate[e]] = e
    BY <1>1, MateFacts DEF Shape, TypeOK
  <1>6. /\ Mate[e] \in CountsOut
        /\ Head(comm[<<p, e[1]>>]) = Count[p][Mate[e][2]]
        /\ Carry(comm', CountsOut, CountsIn \cup {e}, Count)
    <2>1. Received(CountsOut, CountsIn)
      BY MateFacts DEF Received, CountsOut, CountsIn, CountOut, CountIn
    <2>2. Stage(Mate[e]) = "dealt" => Mate[e] \in CountsOut
      BY <1>5 DEF CountsOut, CountOut
    <2>3. MateIsFirst(CountsOut, CountsIn, e)
      BY <1>2, <2>1, <2>2, HeadIsMate
    <2>4. Carry(comm, CountsOut, CountsIn, Count)
      BY DEF Counts
    <2>5. /\ Mate[e] \in CountsOut
          /\ Head(comm[<<p, e[1]>>]) = Count[p][Mate[e][2]]
          /\ Carry([comm EXCEPT ![<<p, e[1]>>] = Tail(@)], CountsOut, CountsIn \cup {e}, Count)
      BY <1>1, <1>4, <1>5, <2>3, <2>4, CarryReceived, Zenon
    <2> QED
      BY <1>4, <2>5, Zenon
  <1>7. Head(comm[<<p, e[1]>>]) = At(Mate[e]).nmsg /\ At(Mate[e]).nmsg \in Nat
    <2>1. Mate[e] = <<p, Mate[e][2]>> /\ Mate[e][2] \in DOMAIN List[p] /\ Mate[e][1] = p
      BY <1>1, <1>5, MateFacts, EndFacts
    <2>2. Count[p][Mate[e][2]] = At(Mate[e]).nmsg
      BY <1>5, <2>1 DEF Count, At
    <2> QED
      BY <1>5, <1>6, <2>2, EndFacts DEF Member
  <1>8. (s = "dealt" /\ Advance(n, Spi(e))) \/ (s \in {"answer", "learn"} /\ Proceed(n, s))
    <2>1. CASE ~Sends(e)
      BY <2>1, WorkingFacts DEF RecvCount
    <2>2. CASE Sends(e)
      <3>1. Placed(Cur(n).nmsg, Head(comm[In(n)])) <=> Spi(e)
        BY <1>1, <1>7, WorkingFacts DEF Spi
      <3>2. IF Spi(e) THEN Proceed(n, "learn") ELSE Advance(n, FALSE)
        BY <2>2, <3>1, WorkingFacts DEF RecvCount
      <3>3. ~Spi(e) => Advance(n, Spi(e))
        BY <3>2, Zenon DEF Spi, Placed, Advance, Marked
      <3> QED
        BY <2>2, <3>2, <3>3
    <2> QED
      BY <2>1, <2>2
  <1>9. UNCHANGED <<eager, world, other>>
    BY DEF RecvCount
  <1>10. (s \in {"prepare", "told", "learn"} => Spi(e)) /\ (s = "answer" => ~Sends(e)) /\ s # "handed"
    OBVIOUS
  <1>11. other[e[1]][e[2]] = None /\ Shape
    BY <1>1, <1>2 DEF Learned
  <1> HIDE DEF s
  <1>12. Moves(e, s) /\ Shape' /\ InOrder' /\ Decided' /\ Heard' /\ Learned' /\ Agreed'
    <2>1. comm' \in [Node \X Node -> Seq(Nat)]
      <3>1. comm[<<p, e[1]>>] \in Seq(Nat) /\ comm[<<p, e[1]>>] # << >>
        BY <1>1, <1>4, <1>5
      <3>2. Tail(comm[<<p, e[1]>>]) \in Seq(Nat)
        BY <3>1, HeadTailProperties
      <3> QED
        BY <1>1, <1>4, <1>5, <3>2
    <2>2. /\ world' \in [Node \X Node -> Seq(End)] /\ Table(other', End \cup {None})
          /\ nmsgo \in [Node -> Nat]
      BY <1>9, <1>11 DEF Shape, TypeOK, Table
    <2>3. /\ nmsgo' \in [Node -> Nat] /\ nmsgo'[n] = At(Mate[e]).nmsg
          /\ \A m \in Node \ {n} : nmsgo'[m] = nmsgo[m]
      BY <1>4, <1>7, <2>2
    <2>4. Typed /\ Hears(n, e, s)
      BY <1>9, <2>1, <2>2, <2>3 DEF Typed, Hears
    <2>5. Learns(e, s)
      BY <1>3, <1>9, <1>11 DEF Learns
    <2>6. Takes(n, e, s)
      BY <1>8 DEF Takes
    <2> QED
      BY <1>10, <2>4, <2>5, <2>6, GoesOn
  <1>13. CountsOut' = CountsOut /\ CountsIn' = CountsIn \cup {e}
         /\ AddrsOut' = AddrsOut /\ AddrsIn' = AddrsIn
    <2>1. /\ CountsOut' = IF CountOut(e, s) THEN CountsOut \cup {e} ELSE CountsOut \ {e}
          /\ CountsIn'  = IF CountIn(e, s)  THEN CountsIn  \cup {e} ELSE CountsIn  \ {e}
          /\ AddrsOut'  = IF AddrOut(e, s)  THEN AddrsOut  \cup {e} ELSE AddrsOut  \ {e}
          /\ AddrsIn'   = IF AddrIn(e, s)   THEN AddrsIn   \cup {e} ELSE AddrsIn   \ {e}
      BY <1>1, <1>12, SetsMove
    <2> QED
      BY <1>2, <1>3, <2>1
  <1>14. Counts'
    BY <1>6, <1>13 DEF Counts
  <1>15. Addrs' /\ GotSent'
    BY <1>6, <1>9, <1>13 DEF Addrs, GotSent
  <1> QED
    BY <1>12, <1>14, <1>15 DEF PairInv

LEMMA ToldKeeps ==
  ASSUME PairInv, NEW n \in Node, NEW e, Working(n, e), Told(n)
  PROVE  PairInv'
  <1>0. /\ Shape /\ InOrder /\ Decided /\ Heard /\ Learned /\ Agreed
        /\ GotSent /\ Counts /\ Addrs
    BY DEF PairInv
  <1> USE <1>0
  <1> DEFINE s == IF Sends(e) THEN "dealt" ELSE "learn"
  <1>1. e \in Ends /\ e[1] = n /\ Stage(e) = "told" /\ Spi(e)
    BY WorkingFacts DEF Told, Decided
  <1>2. e \in CountsOut /\ e \in CountsIn /\ e \in AddrsOut /\ (e \in AddrsIn <=> Sends(e))
    BY <1>1 DEF CountsOut, CountsIn, AddrsOut, AddrsIn, CountOut, CountIn, AddrOut, AddrIn
  <1>3. CountOut(e, s) /\ CountIn(e, s) /\ AddrOut(e, s) /\ (AddrIn(e, s) <=> Sends(e))
    BY <1>1 DEF CountOut, CountIn, AddrOut, AddrIn
  <1>4. (s = "dealt" /\ Advance(n, Spi(e))) \/ (s = "learn" /\ Proceed(n, s))
    <2>1. IF Sends(e) THEN Advance(n, TRUE) ELSE Proceed(n, "learn")
      BY WorkingFacts DEF Told
    <2>2. Spi(e) = TRUE
      BY <1>1 DEF Spi, Placed
    <2> QED
      BY <2>1, <2>2
  <1>5. UNCHANGED <<eager, comm, world, nmsgo, other>>
    BY DEF Told
  <1>6. s \notin {"answer", "handed"} /\ Shape
    OBVIOUS
  <1>7. other[e[1]][e[2]] = IF Sends(e) THEN Mate[e] ELSE None
    BY <1>1, <1>2 DEF Learned
  <1> HIDE DEF s
  <1>8. Moves(e, s) /\ Shape' /\ InOrder' /\ Decided' /\ Heard' /\ Learned' /\ Agreed'
    <2>1. Typed
      BY <1>5, <1>6 DEF Typed, Shape, TypeOK, Table
    <2>2. Learns(e, s) /\ Hears(n, e, s)
      BY <1>3, <1>5, <1>6, <1>7 DEF Learns, Hears
    <2>3. Takes(n, e, s)
      BY <1>4 DEF Takes
    <2> QED
      BY <1>1, <2>1, <2>2, <2>3, GoesOn
  <1>9. CountsOut' = CountsOut /\ CountsIn' = CountsIn /\ AddrsOut' = AddrsOut /\ AddrsIn' = AddrsIn
    BY <1>1, <1>2, <1>3, <1>8, SetsMove
  <1>10. Counts' /\ Addrs' /\ GotSent'
    BY <1>5, <1>9 DEF Counts, Addrs, GotSent
  <1> QED
    BY <1>8, <1>10 DEF PairInv

LEMMA LearnKeeps ==
  ASSUME PairInv, NEW n \in Node, NEW e, Working(n, e), Learn(n)
  PROVE  PairInv'
  <1>0. /\ Shape /\ InOrder /\ Decided /\ Heard /\ Learned /\ Agreed
        /\ GotSent /\ Counts /\ Addrs
    BY DEF PairInv
  <1> USE <1>0
  <1> DEFINE s == IF Sends(e) THEN "prepare" ELSE "dealt"
             p == At(e).peer
  <1>1. e \in Ends /\ e[1] = n /\ Stage(e) = "learn" /\ Spi(e)
    BY WorkingFacts DEF Learn, Decided
  <1>2. e \in CountsOut /\ e \in CountsIn /\ (e \in AddrsOut <=> ~Sends(e)) /\ e \notin AddrsIn
    BY <1>1 DEF CountsOut, CountsIn, AddrsOut, AddrsIn, CountOut, CountIn, AddrOut, AddrIn
  <1>3. CountOut(e, s) /\ CountIn(e, s) /\ (AddrOut(e, s) <=> ~Sends(e)) /\ AddrIn(e, s)
    BY <1>1 DEF CountOut, CountIn, AddrOut, AddrIn
  <1>4. /\ world[<<p, e[1]>>] # << >>
        /\ world' = [world EXCEPT ![<<p, e[1]>>] = Tail(@)]
        /\ other' = Put(other, e, Head(world[<<p, e[1]>>]))
    <2>1. In(n) = <<p, e[1]>> /\ e[1] = n /\ e[2] = Current(n)
      BY <1>1, WorkingFacts
    <2>2. /\ world[In(n)] # << >>
          /\ world' = [world EXCEPT ![In(n)] = Tail(@)]
          /\ other' = [other EXCEPT ![n][Current(n)] = Head(world[In(n)])]
      BY DEF Learn
    <2> QED
      BY <2>1, <2>2, Zenon DEF Put
  <1>5. world \in [Node \X Node -> Seq(End)] /\ p \in Node /\ Mate[e] \in Ends /\ Mate[Mate[e]] = e
    BY <1>1, MateFacts DEF Shape, TypeOK
  <1>6. /\ Mate[e] \in AddrsOut
        /\ Head(world[<<p, e[1]>>]) = Addr[p][Mate[e][2]]
        /\ Carry(world', AddrsOut, AddrsIn \cup {e}, Addr)
    <2>1. Received(AddrsOut, AddrsIn)
      <3> SUFFICES ASSUME NEW f \in Ends, AddrOut(f, Stage(f))
                   PROVE  /\ Stage(f) # "handshake"
                          /\ Stage(Mate[f]) = "dealt" => Mate[f] \in AddrsIn
        BY DEF Received, AddrsOut
      <3>1. Stage(f) # "handshake" /\ Spi(f)
        BY DEF AddrOut, Decided
      <3>2. Mate[f] \in Ends /\ Spi(Mate[f])
        BY <3>1, MateFacts
      <3> QED
        BY <3>1, <3>2 DEF AddrsIn, AddrIn
    <2>2. Stage(Mate[e]) = "dealt" => Mate[e] \in AddrsOut
      <3>1. Spi(Mate[e])
        BY <1>1, MateFacts
      <3> QED
        BY <1>5, <3>1 DEF AddrsOut, AddrOut
    <2>3. MateIsFirst(AddrsOut, AddrsIn, e)
      BY <1>2, <2>1, <2>2, HeadIsMate
    <2>4. Carry(world, AddrsOut, AddrsIn, Addr)
      BY DEF Addrs
    <2>5. /\ Mate[e] \in AddrsOut
          /\ Head(world[<<p, e[1]>>]) = Addr[p][Mate[e][2]]
          /\ Carry([world EXCEPT ![<<p, e[1]>>] = Tail(@)], AddrsOut, AddrsIn \cup {e}, Addr)
      BY <1>1, <1>4, <1>5, <2>3, <2>4, CarryReceived, Zenon
    <2> QED
      BY <1>4, <2>5, Zenon
  <1>7. Head(world[<<p, e[1]>>]) = Mate[e] /\ Mate[e] \in End
    <2>1. Mate[e] = <<p, Mate[e][2]>> /\ Mate[e][2] \in DOMAIN List[p]
      BY <1>1, <1>5, MateFacts, EndFacts
    <2>2. Addr[p][Mate[e][2]] = Mate[e]
      BY <1>5, <2>1 DEF Addr
    <2> QED
      BY <1>5, <1>6, <2>2, EndFacts
  <1>8. (s = "dealt" /\ Advance(n, Spi(e))) \/ (s = "prepare" /\ Proceed(n, s))
    <2>1. IF Sends(e) THEN Proceed(n, "prepare") ELSE Advance(n, TRUE)
      BY WorkingFacts DEF Learn
    <2>2. Spi(e) = TRUE
      BY <1>1 DEF Spi, Placed
    <2> QED
      BY <2>1, <2>2
  <1>9. UNCHANGED <<eager, comm, nmsgo>>
    BY DEF Learn
  <1>10. s \notin {"answer", "handed"} /\ Shape
    OBVIOUS
  <1> HIDE DEF s
  <1>11. Moves(e, s) /\ Shape' /\ InOrder' /\ Decided' /\ Heard' /\ Learned' /\ Agreed'
    <2>1. world' \in [Node \X Node -> Seq(End)]
      <3>1. world[<<p, e[1]>>] \in Seq(End) /\ world[<<p, e[1]>>] # << >>
        BY <1>1, <1>4, <1>5
      <3>2. Tail(world[<<p, e[1]>>]) \in Seq(End)
        BY <3>1, HeadTailProperties
      <3> QED
        BY <1>1, <1>4, <1>5, <3>2
    <2>2. comm' \in [Node \X Node -> Seq(Nat)] /\ nmsgo' \in [Node -> Nat] /\ nmsgo' = nmsgo
          /\ Table(other, End \cup {None})
      BY <1>9, <1>10 DEF Shape, TypeOK, Table
    <2>3. /\ Table(other', End \cup {None})
          /\ \A f \in Ends : other'[f[1]][f[2]] = IF f = e THEN Mate[e] ELSE other[f[1]][f[2]]
      <3> DEFINE T == End \cup {None}
      <3>1. other' = Put(other, e, Mate[e]) /\ Mate[e] \in T /\ Table(other, T)
        BY <1>4, <1>7, <2>2
      <3> HIDE DEF T
      <3>2. /\ Table(other', T)
            /\ \A f \in Ends : other'[f[1]][f[2]] = IF f = e THEN Mate[e] ELSE other[f[1]][f[2]]
        BY <1>1, <3>1, TableUpdate
      <3> QED
        BY <3>2 DEF T
    <2>4. Typed /\ Hears(n, e, s)
      BY <1>9, <1>10, <2>1, <2>2, <2>3 DEF Typed, Hears
    <2>5. Learns(e, s)
      BY <1>3, <2>3 DEF Learns
    <2>6. Takes(n, e, s)
      BY <1>8 DEF Takes
    <2> QED
      BY <1>1, <2>4, <2>5, <2>6, GoesOn
  <1>12. CountsOut' = CountsOut /\ CountsIn' = CountsIn
         /\ AddrsOut' = AddrsOut /\ AddrsIn' = AddrsIn \cup {e}
    BY <1>1, <1>2, <1>3, <1>11, SetsMove
  <1>13. Addrs'
    BY <1>6, <1>12 DEF Addrs
  <1>14. Counts' /\ GotSent'
    BY <1>6, <1>9, <1>12 DEF Counts, GotSent
  <1> QED
    BY <1>11, <1>13, <1>14 DEF PairInv

-----------------------------------------------------------------------------
(* The theorems *)

LEMMA NothingOnWay ==
  ASSUME NEW a, NEW f
  PROVE  Holds(a, << >>, {}, f)
  <1>1. Len(<< >>) = 0 /\ 1 .. 0 = {}
    BY EmptySeq
  <1> DEFINE q == [x \in {} |-> 0]
  <1>2. q \in [1 .. Len(<< >>) -> {}]
    BY <1>1
  <1>3. 1 .. Len(<< >>) = {}
    BY <1>1
  <1> HIDE DEF q
  <1> QED
    BY <1>2, <1>3, Zenon DEF Holds

LEMMA PairInit ==
  ASSUME Init
  PROVE  PairInv
  <1>1. \A e \in Ends : Stage(e) = "handshake"
    BY EndFacts DEF Init, Stage
  <1>2. CountsOut = {} /\ CountsIn = {} /\ AddrsOut = {} /\ AddrsIn = {}
    BY <1>1 DEF CountsOut, CountsIn, AddrsOut, AddrsIn, CountOut, CountIn, AddrOut, AddrIn
  <1>3. \A a, b \in Node : OnWay({}, {}, a, b) = {}
    BY DEF OnWay
  <1>4. Counts /\ Addrs
    <2>1. \A a, b \in Node : comm[<<a, b>>] = << >> /\ world[<<a, b>>] = << >>
      BY DEF Init
    <2> QED
      BY <1>2, <1>3, <2>1, NothingOnWay DEF Counts, Addrs, Carry
  <1>5. Shape
    BY ListAssumption DEF Init, Shape, TypeOK
  <1>6. InOrder /\ Decided /\ Heard /\ GotSent
    BY <1>1, <1>2 DEF Init, InOrder, Decided, Heard, GotSent
  <1>7. Learned /\ Agreed
    <2>1. \A e \in Ends : e[1] \in Node /\ e[2] \in 1 .. Len(List[e[1]])
      BY EndFacts, ListAssumption
    <2> QED
      BY <1>1, <1>2, <2>1 DEF Init, Learned, Agreed
  <1> QED
    BY <1>4, <1>5, <1>6, <1>7 DEF PairInv

LEMMA PairStep ==
  ASSUME PairInv, [Next]_vars
  PROVE  PairInv'
  <1>1. CASE UNCHANGED vars
    <2>1. \A n \in Node : Left(n)' = Left(n) /\ Current(n)' = Current(n)
      BY <1>1 DEF vars, Left, Current
    <2>2. \A e \in Ends : Stage(e)' = Stage(e)
      BY <1>1, <2>1, EndFacts DEF vars, Stage
    <2>3. CountsOut' = CountsOut /\ CountsIn' = CountsIn /\ AddrsOut' = AddrsOut /\ AddrsIn' = AddrsIn
      BY <2>2 DEF CountsOut, CountsIn, AddrsOut, AddrsIn, CountOut, CountIn, AddrOut, AddrIn,
                  Spi, Sends, At
    <2>4. Shape' /\ InOrder'
      BY <1>1, <2>1 DEF PairInv, vars, Shape, TypeOK, InOrder
    <2>5. Decided' /\ Heard' /\ Learned' /\ Agreed'
      BY <1>1, <2>2, <2>3 DEF PairInv, vars, Decided, Heard, Learned, Agreed, Spi, Sends, At
    <2>6. GotSent' /\ Counts' /\ Addrs'
      BY <1>1, <2>3 DEF PairInv, vars, GotSent, Counts, Addrs
    <2> QED
      BY <2>4, <2>5, <2>6 DEF PairInv
  <1>2. ASSUME NEW n \in Node, Step(n) PROVE PairInv'
    <2>1. Working(n, <<n, Current(n)>>)
      BY <1>2 DEF Step, SendCount, SentCount, RecvCount, Tell, Told, Learn, Working
    <2>2. PICK e : Working(n, e)
      BY <2>1
    <2>3. CASE SendCount(n)
      BY <2>2, <2>3, SendCountKeeps
    <2>4. CASE SentCount(n)
      BY <2>2, <2>4, SentCountKeeps
    <2>5. CASE RecvCount(n)
      BY <2>2, <2>5, RecvCountKeeps
    <2>6. CASE Tell(n)
      BY <2>2, <2>6, TellKeeps
    <2>7. CASE Told(n)
      BY <2>2, <2>7, ToldKeeps
    <2>8. CASE Learn(n)
      BY <2>2, <2>8, LearnKeeps
    <2> QED
      BY <1>2, <2>3, <2>4, <2>5, <2>6, <2>7, <2>8 DEF Step
  <1> QED
    BY <1>1, <1>2 DEF Next

\* The matching of every program keeps its state well formed.
THEOREM PairingTypeCorrect == Spec => []TypeOK
  <1>1. Init => PairInv
    BY PairInit
  <1>2. PairInv /\ [Next]_vars => PairInv'
    BY PairStep
  <1>3. PairInv => TypeOK
    BY DEF PairInv, Shape
  <1> QED
    BY <1>1, <1>2, <1>3, PTL DEF Spec

\* Whatever order the nodes declare their members in, and however the handshakes and
\* addresses are delayed: the two ends of a pair learn each other's address, and never
\* that of a third member.
THEOREM PairsMutual == Spec => []PairsAreMutual
  <1>1. Init => PairInv
    BY PairInit
  <1>2. PairInv /\ [Next]_vars => PairInv'
    BY PairStep
  <1>3. ASSUME PairInv PROVE PairsAreMutual
    <2>1. ASSUME NEW e \in Ends, useSPI[e[1]][e[2]] PROVE other[e[1]][e[2]] = Mate[e]
      BY <1>3, <2>1 DEF PairInv, Agreed, Learned, AddrsIn, AddrIn
    <2> SUFFICES ASSUME NEW n \in Node, NEW i \in DOMAIN List[n], useSPI[n][i]
                 PROVE  LET e == other[n][i]
                        IN /\ e \in Node \X Nat /\ e[2] \in DOMAIN List[e[1]]
                           /\ List[e[1]][e[2]].kind # List[n][i].kind
                           /\ e[1] = List[n][i].peer /\ List[e[1]][e[2]].peer = n
                           /\ other[e[1]][e[2]] = <<n, i>> \/ ~useSPI[e[1]][e[2]]
      BY DEF PairsAreMutual
    <2> DEFINE d == <<n, i>>
    <2>2. d \in Ends /\ d[1] = n /\ d[2] = i
      BY EndFacts
    <2>3. other[n][i] = Mate[d]
      BY <2>1, <2>2
    <2>4. /\ Mate[d] \in Ends /\ Mate[Mate[d]] = d /\ Mate[d][1] = At(d).peer
          /\ At(Mate[d]).peer = n /\ At(Mate[d]).kind # At(d).kind
      BY <2>2, MateFacts, MateAssumption
    <2>5. /\ Mate[d] \in Node \X Nat /\ Mate[d][2] \in DOMAIN List[Mate[d][1]]
      BY <2>4, EndFacts
    <2>6. other[Mate[d][1]][Mate[d][2]] = d \/ ~useSPI[Mate[d][1]][Mate[d][2]]
      BY <2>1, <2>4
    <2>7. At(d) = List[n][i] /\ At(Mate[d]) = List[Mate[d][1]][Mate[d][2]]
      BY <2>2 DEF At
    <2> DEFINE m == Mate[d]
    <2> HIDE DEF d
    <2>8. /\ List[Mate[d][1]][Mate[d][2]].kind # List[n][i].kind
          /\ Mate[d][1] = List[n][i].peer /\ List[Mate[d][1]][Mate[d][2]].peer = n
      BY <2>4, <2>7
    <2>9. /\ other[n][i] = m /\ m \in Node \X Nat /\ m[2] \in DOMAIN List[m[1]]
          /\ List[m[1]][m[2]].kind # List[n][i].kind
          /\ m[1] = List[n][i].peer /\ List[m[1]][m[2]].peer = n
          /\ other[m[1]][m[2]] = <<n, i>> \/ ~useSPI[m[1]][m[2]]
      BY <2>3, <2>5, <2>6, <2>8 DEF d
    <2> HIDE DEF m
    <2> QED
      BY <2>9
  <1> QED
    BY <1>1, <1>2, <1>3, PTL DEF Spec

\* When the matching is over, an end that puts through SPI has a mate that awaits it there,
\* and an end that uses MPI has one that uses MPI.
THEOREM EndsAgreeAfter == Spec => []EndsAgree
  <1>1. Init => PairInv
    BY PairInit
  <1>2. PairInv /\ [Next]_vars => PairInv'
    BY PairStep
  <1>3. ASSUME PairInv PROVE EndsAgree
    <2> SUFFICES ASSUME AllDone, NEW n \in Node, NEW i \in DOMAIN List[n]
                 PROVE  IF useSPI[n][i]
                        THEN other[n][i] # None /\ useSPI[other[n][i][1]][other[n][i][2]]
                        ELSE other[n][i] = None
      BY DEF EndsAgree
    <2> DEFINE d == <<n, i>>
    <2>1. \A e \in Ends : Stage(e) = "dealt"
      BY EndFacts DEF AllDone, Done, Left, Stage
    <2>2. \A e \in Ends : /\ useSPI[e[1]][e[2]] = Spi(e)
                          /\ other[e[1]][e[2]] = IF Spi(e) THEN Mate[e] ELSE None
      BY <1>3, <2>1 DEF PairInv, Agreed, Learned, AddrsIn, AddrIn, Spi, Placed
    <2>3. d \in Ends /\ d[1] = n /\ d[2] = i
      BY EndFacts
    <2>4. Mate[d] \in Ends /\ Spi(Mate[d]) = Spi(d) /\ Mate[d] # None
      <3>1. Mate[d] \in Ends /\ (Spi(Mate[d]) <=> Spi(d)) /\ Mate[d] \in End
        BY <2>3, MateFacts, EndFacts
      <3> QED
        BY <3>1, ListAssumption DEF Spi, Placed
    <2> HIDE DEF d
    <2>5. useSPI[n][i] = Spi(d) /\ other[n][i] = IF Spi(d) THEN Mate[d] ELSE None
      BY <2>2, <2>3
    <2>6. useSPI[Mate[d][1]][Mate[d][2]] = Spi(d)
      BY <2>2, <2>4
    <2> QED
      BY <2>4, <2>5, <2>6
  <1> QED
    BY <1>1, <1>2, <1>3, PTL DEF Spec
=============================================================================
