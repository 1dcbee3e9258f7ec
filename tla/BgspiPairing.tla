---------------------------- MODULE BgspiPairing ----------------------------
(***************************************************************************)
(* Matching the members of send-receive pairs on Blue Gene/Q:              *)
(* QMP_declare_multiple_bgspi with the qspi_prepare it calls               *)
(* (lib/bgspi/QMP_comm_bgspi.c, lib/bgspi/qspi.c), run by the second        *)
(* QMP_start of a multiple on every node.                                  *)
(*                                                                         *)
(* The nodes exchange one handshake per member over MPI, in an order each   *)
(* works out for itself, and then the addresses of the two ends.           *)
(***************************************************************************)
EXTENDS Integers, Sequences, FiniteSets

CONSTANTS
  NumNodes,   \* nodes are 0 .. NumNodes - 1
  List,       \* List[n]: the members of node n's multiple, in list order
  Mate,       \* Mate[e]: the end that goes with end e
  None

Node   == 0 .. NumNodes - 1
\* A member: its kind, the node at the other end, the link of the logical grid
\* it was declared for, and the pieces it is in (0: SPI cannot place it).
Member == [kind : {"send", "recv"}, peer : Node, nmsg : Nat,
           link : Node \X Node \X {"fwd", "bwd"}]

\* A member as its node and its place in the node's list.
End   == Node \X (Nat \ {0})
Ends  == UNION {{n} \X DOMAIN List[n] : n \in Node}
At(e) == List[e[1]][e[2]]

ASSUME ListAssumption ==
  /\ NumNodes \in Nat \ {0}
  /\ DOMAIN List = Node /\ \A n \in Node : List[n] \in Seq(Member)
  /\ None \notin End

\* The program declares a receive for every send, the k-th from one node to another
\* going with the k-th there from it, and no node sends to itself: the matching of
\* any other program waits for a handshake that nobody sends.
ASSUME MateAssumption ==
  /\ Mate \in [Ends -> Ends]
  /\ \A e \in Ends : /\ Mate[Mate[e]] = e
                     /\ Mate[e][1] = At(e).peer /\ At(e).peer # e[1]
                     /\ At(Mate[e]).kind # At(e).kind
  /\ \A e, f \in Ends :
       /\ e[1] = f[1] /\ At(e).peer = At(f).peer /\ At(e).kind = At(f).kind
       /\ e[2] < f[2]
       => Mate[e][2] < Mate[f][2]

Source(n, m) == IF m.kind = "send" THEN n ELSE m.peer

\* The order node n works in: it looks for the smallest node a message of its
\* list comes from, goes through the members with that source in list order,
\* and looks for the next larger source.
MutantListOrder(n, i, j) == i < j
Before(n, i, j) ==
  \/ Source(n, List[n][i]) < Source(n, List[n][j])
  \/ Source(n, List[n][i]) = Source(n, List[n][j]) /\ i < j

VARIABLES
  eager,   \* MPI copies these small messages: a send does not wait
  dealt,   \* dealt[n]: the members node n has dealt with, by their index
  step,    \* step[n]: where it is with the current one
  comm,    \* comm[<<a, b>>]: handshakes on the wire
  world,   \* world[<<a, b>>]: addresses on the wire (MPI_COMM_WORLD)
  nmsgo,   \* nmsgo[n]: pieces at the other end of the current member
  other,   \* other[n][i]: where member i puts its data, or its clear-to-send
  useSPI   \* useSPI[n][i]: m->useSPI

vars == <<eager, dealt, step, comm, world, nmsgo, other, useSPI>>

TypeOK ==
  /\ eager \in BOOLEAN
  /\ dealt \in [Node -> SUBSET Nat]
  /\ step \in [Node -> {"handshake", "handed", "answer", "prepare", "told", "learn"}]
  /\ comm \in [Node \X Node -> Seq(Nat)]
  /\ world \in [Node \X Node -> Seq(End)]
  /\ nmsgo \in [Node -> Nat]
  /\ \A n \in Node : other[n] \in [1 .. Len(List[n]) -> End \cup {None}]
  /\ \A n \in Node : useSPI[n] \in [1 .. Len(List[n]) -> BOOLEAN]

Init ==
  /\ eager \in BOOLEAN
  /\ dealt = [n \in Node |-> {}]
  /\ step = [n \in Node |-> "handshake"]
  /\ comm = [c \in Node \X Node |-> << >>]
  /\ world = [c \in Node \X Node |-> << >>]
  /\ nmsgo = [n \in Node |-> 0]
  /\ other = [n \in Node |-> [i \in 1 .. Len(List[n]) |-> None]]
  /\ useSPI = [n \in Node |-> [i \in 1 .. Len(List[n]) |-> FALSE]]

Left(n)    == DOMAIN List[n] \ dealt[n]
Done(n)    == Left(n) = {}
Current(n) == CHOOSE i \in Left(n) : \A j \in Left(n) \ {i} : Before(n, i, j)
Cur(n)     == List[n][Current(n)]
In(n)      == <<Cur(n).peer, n>>
Out(n)     == <<n, Cur(n).peer>>
Goto(n, s) == step' = [step EXCEPT ![n] = s]

\* What tells the other end where to put: the address of the current member.
MutantPosition(n) == <<n, Cardinality(dealt[n]) + 1>>
Address(n) == <<n, Current(n)>>

\* Both ends can place the pieces: nmsg > 0 && nmsgo > 0.
Placed(mine, theirs) == mine > 0 /\ theirs > 0

MutantAlwaysMarked(spi) == TRUE
Marked(spi) == spi

\* The member is dealt with, through SPI or not.
Advance(n, spi) == /\ dealt' = [dealt EXCEPT ![n] = @ \cup {Current(n)}]
                   /\ useSPI' = [useSPI EXCEPT ![n][Current(n)] = Marked(spi)]
                   /\ Goto(n, "handshake")
Proceed(n, s) == Goto(n, s) /\ UNCHANGED <<dealt, useSPI>>

\* MPI_Send of nmsg: by the sender before it receives, by the receiver after.
SendCount(n) ==
  /\ ~Done(n)
  /\ step[n] = IF Cur(n).kind = "send" THEN "handshake" ELSE "answer"
  /\ comm' = [comm EXCEPT ![Out(n)] = Append(@, Cur(n).nmsg)]
  /\ Goto(n, "handed")
  /\ UNCHANGED <<eager, dealt, world, nmsgo, other, useSPI>>

\* MPI_Send has returned.
SentCount(n) ==
  /\ ~Done(n) /\ step[n] = "handed"
  /\ eager \/ comm[Out(n)] = << >>
  /\ IF Cur(n).kind = "send" THEN Proceed(n, "answer")
     ELSE IF Placed(Cur(n).nmsg, nmsgo[n]) THEN Proceed(n, "prepare")
     ELSE Advance(n, FALSE)
  /\ UNCHANGED <<eager, comm, world, nmsgo, other>>

\* MPI_Recv of the other end's nmsg.
RecvCount(n) ==
  /\ ~Done(n)
  /\ step[n] = IF Cur(n).kind = "send" THEN "answer" ELSE "handshake"
  /\ comm[In(n)] # << >>
  /\ nmsgo' = [nmsgo EXCEPT ![n] = Head(comm[In(n)])]
  /\ comm' = [comm EXCEPT ![In(n)] = Tail(@)]
  /\ IF Cur(n).kind = "recv" THEN Proceed(n, "answer")
     ELSE IF Placed(Cur(n).nmsg, Head(comm[In(n)])) THEN Proceed(n, "learn")
     ELSE Advance(n, FALSE)
  /\ UNCHANGED <<eager, world, other>>

\* qspi_prepare of the end that is put into, for the data and for the
\* clear-to-send: MPI_Isend of its address...
Tell(n) ==
  /\ ~Done(n) /\ step[n] = "prepare"
  /\ world' = [world EXCEPT ![Out(n)] = Append(@, Address(n))]
  /\ Goto(n, "told")
  /\ UNCHANGED <<eager, dealt, comm, nmsgo, other, useSPI>>

\* ... and MPI_Wait.
Told(n) ==
  /\ ~Done(n) /\ step[n] = "told"
  /\ eager \/ world[Out(n)] = << >>
  /\ IF Cur(n).kind = "recv" THEN Proceed(n, "learn") ELSE Advance(n, TRUE)
  /\ UNCHANGED <<eager, comm, world, nmsgo, other>>

\* qspi_prepare of the putting end: MPI_Irecv and MPI_Wait for the address.
Learn(n) ==
  /\ ~Done(n) /\ step[n] = "learn"
  /\ world[In(n)] # << >>
  /\ other' = [other EXCEPT ![n][Current(n)] = Head(world[In(n)])]
  /\ world' = [world EXCEPT ![In(n)] = Tail(@)]
  /\ IF Cur(n).kind = "send" THEN Proceed(n, "prepare") ELSE Advance(n, TRUE)
  /\ UNCHANGED <<eager, comm, nmsgo>>

Step(n) == SendCount(n) \/ SentCount(n) \/ RecvCount(n) \/ Tell(n) \/ Told(n) \/ Learn(n)
AllDone == \A n \in Node : Done(n)
Next == \E n \in Node : Step(n)
Spec == Init /\ [][Next]_vars /\ \A n \in Node : WF_vars(Step(n))

-----------------------------------------------------------------------------
(* What makes this correct *)

\* The two ends of a pair are each other's: the member that was told where to put
\* the data of j is the one that j's clear-to-send goes to.
PairsAreMutual ==
  \A n \in Node : \A i \in DOMAIN List[n] : useSPI[n][i] =>
    LET e == other[n][i]
    IN /\ e \in Node \X Nat /\ e[2] \in DOMAIN List[e[1]]
       /\ List[e[1]][e[2]].kind # List[n][i].kind
       /\ e[1] = List[n][i].peer /\ List[e[1]][e[2]].peer = n
       /\ other[e[1]][e[2]] = <<n, i>> \/ ~useSPI[e[1]][e[2]]

\* After the matching the two ends agree which members go through SPI: a message
\* that one end puts and the other awaits from MPI would never be seen.
EndsAgree ==
  AllDone => \A n \in Node : \A i \in DOMAIN List[n] :
    IF useSPI[n][i]
    THEN other[n][i] # None /\ useSPI[other[n][i][1]][other[n][i][2]]
    ELSE other[n][i] = None

\* The matching ends on every node, though MPI may make every send wait.
MatchingEnds == <>[]AllDone

\* A receive declared for a link is matched with the send declared for that link.
LinksMatch ==
  \A n \in Node : \A i \in DOMAIN List[n] : useSPI[n][i] =>
    List[other[n][i][1]][other[n][i][2]].link = List[n][i].link
=============================================================================
