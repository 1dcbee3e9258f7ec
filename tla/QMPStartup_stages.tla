------------------------- MODULE QMPStartup_stages ---------------------------
(***************************************************************************)
(* Where a node is in the start of its job, and what has been settled       *)
(* there: what its communicators are, and which calls it has made that say  *)
(* so.  QMPStartup_proofs proves that StageInv is an invariant.             *)
(***************************************************************************)
EXTENDS QMPStartup

\* The items that split a communicator off, in their order.
Splitting == {"split", "count", "colors", "made"}

-----------------------------------------------------------------------------
(* What the nodes have called: the job and the default communicator are     *)
(* what the first split of each node on a communicator gave.                *)

\* The turns of a node on communicator c, of which it has made the calls ent.
Turns(ent, c) == IF c \in DOMAIN ent THEN 1 .. Len(ent[c]) ELSE {}
SplitAt(ent, c, k) == k \in Turns(ent, c) /\ ent[c][k].op = "split"
NoSplit(ent, c) == \A k \in Turns(ent, c) : ent[c][k].op # "split"
\* The first split of the node on c is its k-th call, with this colour.
IsFirst(ent, c, k) == SplitAt(ent, c, k) /\ \A j \in 1 .. k - 1 : ~SplitAt(ent, c, j)
FirstIn(ent, c, k, color) == IsFirst(ent, c, k) /\ ent[c][k].arg.color = color
FirstSplit(ent, c, k, color) == IsFirst(ent, c, k) /\ ent[c][k].arg = [color |-> color, key |-> 0]

\* x is what the k-th call of the members of c, a split, made of those of a colour; E is
\* what all nodes have called.
ArgsOf(E, c, k) == [m \in Members(c) |-> E[m][c][k].arg]
IsMade(E, c, k, color, x) ==
  /\ \A m \in Members(c) : m \in Node /\ SplitAt(E[m], c, k)
  /\ x = [name |-> Append(c.name, <<k, color>>), group |-> SplitGroup(c, ArgsOf(E, c, k), color)]
\* The colours of x are those of the answer to the k-th call.
Counted(W, c, k, x) == <<c, k>> \in DOMAIN W /\ x.ncolors = Distinct(W[<<c, k>>])

Parts == {"mpicomm", "num_nodes", "nodeid", "ncolors", "color"}
\* The communicator x of node n was split off c.
SplitOff(n, ent, E, W, c, x) ==
  /\ Parts \subseteq DOMAIN x
  /\ x.num_nodes = Len(x.mpicomm.group) /\ x.nodeid = RankIn(n, x.mpicomm)
  /\ \E k \in Turns(ent, c) : /\ FirstSplit(ent, c, k, x.color)
                             /\ IsMade(E, c, k, x.color, x.mpicomm) /\ Counted(W, c, k - 1, x)
NotYet(x) == x = None \/ x.mpicomm = None

-----------------------------------------------------------------------------
(* The command line s.                                                     *)

Line(s) == <<"qmp">> \o s.args
Count0(s) == GetIntArray(Line(s), "-qmp-nmpi").a
Reduces(s) == Count0(s) # NULL
Size(s) == IF Reduces(s) THEN Count0(s)[1] ELSE Cardinality(Node)
\* The length of the name of the allocated communicator, once it is settled.
Depth(s) == IF Reduces(s) THEN 1 ELSE 0
Shallow(s, ent) == \A c \in DOMAIN ent : Len(c.name) <= Depth(s)

-----------------------------------------------------------------------------
(* Where a node is in the start.                                           *)

Then(it, rest) == <<it>> \o rest
CallTo(it, o, op) == it.do = "mpi" /\ it.comm = o /\ it.op = op

\* What declaring a topology consists of; it comes before rest.
Mild(it) == it.do \in {"declare", "settopo", "neighbours"} \/ CallTo(it, "def", "barrier")
Leads(ag, rest) ==
  \E i \in 0 .. Len(ag) : SubSeq(ag, i + 1, Len(ag)) = rest /\ \A j \in 1 .. i : Mild(ag[j])

\* A communicator x is being split off c, the communicator of object o; q is where its
\* pointer points to.
Part(do, o, color, into) == [do |-> do, comm |-> o, color |-> color, key |-> 0, into |-> into]
Begun(x, q, color, into) ==
  Parts \subseteq DOMAIN x /\ x.mpicomm = None /\ x.color = color /\ q = ObjectOf(into)

Asked(ent, ag, x, c, from, color, into, rest) ==
  ag = Then(Part("split", from, color, into), rest) /\ NoSplit(ent, c) /\ NotYet(x)
AtMax(ent, ag, x, q, c, color, into, o, rest) ==
  /\ CallTo(ag[1], o, "max") /\ ag = Then(ag[1], Then(Part("count", o, color, into), rest))
  /\ NoSplit(ent, c) /\ Begun(x, q, color, into)
AtCount(ent, ag, x, q, c, color, into, o, rest) ==
  ag = Then(Part("count", o, color, into), rest) /\ NoSplit(ent, c) /\ Begun(x, q, color, into)
AtSum(ent, ag, x, q, c, color, into, o, rest) ==
  /\ CallTo(ag[1], o, "sum") /\ ag = Then(ag[1], Then(Part("colors", o, color, into), rest))
  /\ NoSplit(ent, c) /\ Begun(x, q, color, into)
AtColors(ent, W, ag, rg, x, q, c, color, into, o, rest) ==
  /\ ag = Then(Part("colors", o, color, into), rest)
  /\ NoSplit(ent, c) /\ Begun(x, q, color, into)
  /\ c \in DOMAIN ent /\ <<c, Len(ent[c])>> \in DOMAIN W /\ rg.data = W[<<c, Len(ent[c])>>]
AtSplit(ent, W, ag, ins, x, q, c, color, into, o, rest) ==
  /\ ag = Then(Mpi(o, "split", None, [color |-> color, key |-> 0]),
               Then(Part("made", o, color, into), rest))
  /\ Begun(x, q, color, into) /\ c \in DOMAIN ent
  /\ IF ins THEN FirstSplit(ent, c, Len(ent[c]), color) /\ Counted(W, c, Len(ent[c]) - 1, x)
     ELSE NoSplit(ent, c) /\ Counted(W, c, Len(ent[c]), x)
AtMade(ent, E, W, ag, rg, x, q, c, color, into, o, rest) ==
  /\ ag = Then(Part("made", o, color, into), rest) /\ Begun(x, q, color, into)
  /\ \E k \in Turns(ent, c) : /\ FirstSplit(ent, c, k, color)
                             /\ IsMade(E, c, k, color, rg.comm) /\ Counted(W, c, k - 1, x)
Dividing(ent, E, W, ag, ins, rg, x, q, c, from, color, into, o, rest) ==
  ag # <<>> /\ \/ Asked(ent, ag, x, c, from, color, into, rest)
               \/ AtMax(ent, ag, x, q, c, color, into, o, rest)
               \/ AtCount(ent, ag, x, q, c, color, into, o, rest)
               \/ AtSum(ent, ag, x, q, c, color, into, o, rest)
               \/ AtColors(ent, W, ag, rg, x, q, c, color, into, o, rest)
               \/ AtSplit(ent, W, ag, ins, x, q, c, color, into, o, rest)
               \/ AtMade(ent, E, W, ag, rg, x, q, c, color, into, o, rest)

\* What is left to do, program p included.
Last(p)   == Then(Barrier("def"), p)
Fourth(p) == Then(Part("split", "job", 0, "def"), Last(p))
Third(p)  == Then([do |-> "geometry"], Fourth(p))
Second(p) == Then([do |-> "job"], Third(p))
First(p)  == Then([do |-> "parse"], Second(p))

\* The allocated communicator a is settled.
AllocRight(s, ent, E, a) ==
  /\ a.num_nodes = Size(s)
  /\ IF Reduces(s)
     THEN \E k \in Turns(ent, World) : FirstIn(ent, World, k, 0) /\ IsMade(E, World, k, 0, a.mpicomm)
     ELSE a.mpicomm = World
Young(cm, pt) == NotYet(cm["J"]) /\ NotYet(cm["D"]) /\ pt["def"] = "A"

LeftOver(s, ent, ag, cm, ar) ==
  ag = <<>> /\ ar = None /\ NotYet(cm["J"]) /\ NotYet(cm["D"]) /\ Shallow(s, ent)
Starting(n, s, ent, ag, cm, pt, av) ==
  /\ ag = Then([do |-> "nmpi"], First(s.prog[n])) /\ DOMAIN ent = {} /\ av = Line(s)
  /\ cm["A"].mpicomm = World /\ cm["A"].num_nodes = Cardinality(Node) /\ Young(cm, pt)
AtReduce(n, s, ent, ag, ins, color) ==
  /\ ag = Then(Mpi("alloc", "split", None, [color |-> color, key |-> n]),
               Then([do |-> "reduced", nmpi |-> Count0(s)[1]], First(s.prog[n])))
  /\ IF ins THEN /\ World \in DOMAIN ent /\ IsFirst(ent, World, Len(ent[World]))
                 /\ ent[World][Len(ent[World])].arg.color = color
     ELSE NoSplit(ent, World)
AtReduced(n, s, ent, E, ag, rg, color) ==
  /\ ag = Then([do |-> "reduced", nmpi |-> Count0(s)[1]], First(s.prog[n]))
  /\ \E k \in Turns(ent, World) : FirstIn(ent, World, k, color) /\ IsMade(E, World, k, color, rg.comm)
Reducing(n, s, ent, E, ag, ins, rg, cm, pt) ==
  /\ Reduces(s) /\ cm["A"].mpicomm = World /\ Young(cm, pt) /\ DOMAIN ent \subseteq {World}
  /\ \E color \in {IF n < Count0(s)[1] THEN 0 ELSE 1} :
       AtReduce(n, s, ent, ag, ins, color) \/ AtReduced(n, s, ent, E, ag, rg, color)
Reading(n, s, ent, E, ag, cm, pt) ==
  /\ ag = First(s.prog[n]) \/ Leads(ag, Second(s.prog[n]))
  /\ AllocRight(s, ent, E, cm["A"]) /\ Young(cm, pt) /\ Shallow(s, ent)
  /\ NoSplit(ent, cm["A"].mpicomm)
Colour(it, x) == IF it.do = "split" THEN it.color ELSE x.color
DividingJob(n, s, ent, E, W, ag, ins, rg, cm, pt) ==
  /\ AllocRight(s, ent, E, cm["A"]) /\ NotYet(cm["D"]) /\ pt["def"] = "A" /\ Shallow(s, ent)
  /\ ag # <<>>
  /\ Dividing(ent, E, W, ag, ins, rg, cm["J"], pt["job"], cm["A"].mpicomm,
              "alloc", Colour(ag[1], cm["J"]), "job", "A", Third(s.prog[n]))
Placing(n, s, ent, E, W, ag, cm, pt) ==
  /\ AllocRight(s, ent, E, cm["A"]) /\ SplitOff(n, ent, E, W, cm["A"].mpicomm, cm["J"])
  /\ NotYet(cm["D"]) /\ NoSplit(ent, cm["J"].mpicomm) /\ pt["job"] = "J" /\ pt["def"] = "A"
  /\ ag = Third(s.prog[n]) \/ Leads(ag, Fourth(s.prog[n]))
DividingDef(n, s, ent, E, W, ag, ins, rg, cm, pt) ==
  /\ AllocRight(s, ent, E, cm["A"]) /\ SplitOff(n, ent, E, W, cm["A"].mpicomm, cm["J"])
  /\ pt["job"] = "J"
  /\ Dividing(ent, E, W, ag, ins, rg, cm["D"], pt["def"], cm["J"].mpicomm,
              "job", 0, "def", "J", Last(s.prog[n]))

\* What the program does: its splits are into its own communicator.
Tame(it) == /\ it.do \notin {"nmpi", "reduced", "parse", "job", "geometry"}
            /\ it.do \in Splitting => it.into = "sub"
Running(n, s, ent, E, W, ag, cm) ==
  /\ AllocRight(s, ent, E, cm["A"]) /\ SplitOff(n, ent, E, W, cm["A"].mpicomm, cm["J"])
  /\ SplitOff(n, ent, E, W, cm["J"].mpicomm, cm["D"]) /\ cm["D"].color = 0
  /\ \A i \in 1 .. Len(ag) : Tame(ag[i])

StageOf(n, s, ent, E, W, ag, ins, rg, cm, pt, ar, av) ==
  \/ LeftOver(s, ent, ag, cm, ar)
  \/ Starting(n, s, ent, ag, cm, pt, av)
  \/ Reducing(n, s, ent, E, ag, ins, rg, cm, pt)
  \/ Reading(n, s, ent, E, ag, cm, pt)
  \/ DividingJob(n, s, ent, E, W, ag, ins, rg, cm, pt)
  \/ Placing(n, s, ent, E, W, ag, cm, pt)
  \/ DividingDef(n, s, ent, E, W, ag, ins, rg, cm, pt)
  \/ Running(n, s, ent, E, W, ag, cm)

Stage(n) == StageOf(n, scenario, entered[n], entered, answers, agenda[n], inside[n], reg[n],
                    comm[n], ptr[n], args[n], argv[n])
StageInv == \A n \in Node : Stage(n)
=============================================================================
