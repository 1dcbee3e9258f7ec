----------------------------- MODULE QMPStartup -----------------------------
(***************************************************************************)
(* QMP_init_msg_passing with its command line (QMP_init.c), the             *)
(* communicators and topologies it sets up (QMP_split.c, QMP_topology.c),   *)
(* and a program that then declares topologies, lays out a lattice          *)
(* (QMP_grid.c), splits communicators and reduces over them.                *)
(*                                                                         *)
(* The items of a node's agenda are the calls of QMP; those that            *)
(* synchronise are replaced by the collective calls of QMPCollective.       *)
(***************************************************************************)
EXTENDS QMPCollective, QMPTopology, Functions

CONSTANT Scenarios   \* command lines and programs: [args, user, prog]

Objects == {"A", "J", "D", "S"}

Names == {"alloc", "job", "def"} \cup Objects

\* What a program calls once QMP is there: of the communicators it splits only S off.
ProgramCall(it) ==
  \/ it \in [do : {"reduce"}, call : DOMAIN Calls, comm : Names, arg : Seq(Int)]
  \/ it \in [do : {"exchange"}, call : {"bcast", "alltoall"}, comm : Names, arg : Seq(Int)]
  \/ it \in [do : {"binary_reduction"}, call : {"binary_reduction"}, comm : Names,
             bfunc : {"product"}, arg : Seq(Int)]
  \/ it \in [do : {"split"}, comm : Names, color : Int, key : Int, into : {"sub"}]
  \/ it \in [do : {"freecomm"}]
  \/ it \in [do : {"setdefault"}, to : Objects]
  \/ it \in [do : {"declare"}, comm : Names, dims : Seq(Int), ndim : Int, map : Seq(Int), nmap : Int]
  \/ it \in [do : {"declare_logical"}, dims : Seq(Int), ndim : Int]
  \/ it \in [do : {"layout"}, dims : Seq(Int)]

\* s is a sequence, whatever its elements are.
IsSequence(s) == s \in Seq({s[i] : i \in DOMAIN s})

ASSUME StartupAssumption ==
  /\ IsFiniteSet(Node) /\ Node = 0 .. Cardinality(Node) - 1
  /\ \A s \in Scenarios :
       /\ IsSequence(s.args)
       /\ \A n \in Node : /\ IsSequence(s.prog[n])
                         /\ \A i \in DOMAIN s.prog[n] : ProgramCall(s.prog[n][i])

VARIABLES
  scenario, \* the scenario of this job
  argv,     \* argv[n]: the arguments that are left
  args,     \* args[n]: QMP_args
  ictype,   \* ictype[n]: QMP_machine->ic_type
  status,   \* status[n]: what the last declare or layout returned
  subgrid   \* subgrid[n]: the node's subgrid: its lengths, and (history) the lattice
            \* and the communicator that it was laid out for

startVars == <<scenario, argv, args, ictype, status, subgrid>>
vars == <<collVars, comm, ptr, aborted, startVars>>

-----------------------------------------------------------------------------
(* Arguments: a token is a string, Value gives the number of a token whose  *)
(* first character is a digit.                                              *)

Value == [tok \in {"0", "1", "2", "3", "4"} |->
  CASE tok = "0" -> 0 [] tok = "1" -> 1 [] tok = "2" -> 2 [] tok = "3" -> 3 [] tok = "4" -> 4]
IsDigit(tok) == tok \in DOMAIN Value

Latest(S) == CHOOSE i \in S : \A j \in S : j <= i

\* What follows tag i: a word, or the numbers up to End(av, i).
Word(av, i) == i < Len(av) /\ ~IsDigit(av[i + 1])
End(av, i) == CHOOSE e \in i .. Len(av) : /\ \A k \in i + 1 .. e : IsDigit(av[k])
                                          /\ e = Len(av) \/ ~IsDigit(av[e + 1])

\* The places where the loop of get_arg finds the tag: it does not look at the
\* argument that ends a row of numbers.
Found(av, tag) ==
  LET seen[i \in 2 .. Len(av)] ==
        av[i] = tag /\ ~\E j \in 2 .. i - 1 :
          av[j] = tag /\ ~Word(av, j) /\ End(av, j) + 1 = i /\ seen[j]
  IN {i \in 2 .. Len(av) : seen[i]}

\* get_arg: the last place counts, but a word from one place and numbers from
\* another are both kept.
GetArg(av, tag) ==
  LET found == Found(av, tag)
      words == {i \in found : Word(av, i)}
      lists == {i \in found : ~Word(av, i) /\ End(av, i) > i}
      i == Latest(found)
      l == Latest(lists)
  IN [first |-> IF found = {} THEN -1 ELSE i,
      last  |-> IF found = {} THEN -1 ELSE IF i \in words THEN i + 1 ELSE End(av, i),
      c |-> IF words = {} THEN None ELSE av[Latest(words) + 1],
      a |-> IF lists = {} THEN NULL ELSE [k \in 1 .. End(av, l) - l |-> Value[av[l + k]]]]

\* Mutant: one argument too few is removed.
MutantLeavesOne(av, first, last) ==
  IF first < 0 THEN av ELSE SubSeq(av, 1, first - 1) \o SubSeq(av, last, Len(av))

RemoveFromArgs(av, first, last) ==
  IF first < 0 THEN av ELSE SubSeq(av, 1, first - 1) \o SubSeq(av, last + 1, Len(av))

GetIntArray(av, tag) ==
  LET g == GetArg(av, tag)
  IN [len  |-> IF g.c = "native" THEN -1 ELSE g.last - g.first,
      a    |-> g.a,
      rest |-> RemoveFromArgs(av, g.first, g.last)]

-----------------------------------------------------------------------------
(* Machine queries.                                                        *)

Declared(n, o)   == Struct(n, o).topo # None
Dimensions(n, o) == IF Declared(n, o) THEN Struct(n, o).topo.dims ELSE NULL
NumberOfDimensions(n, o) == IF Declared(n, o) THEN Len(Struct(n, o).topo.dims) ELSE 0

Blank == [mpicomm |-> None, num_nodes |-> 0, nodeid |-> 0, ncolors |-> 0,
          color |-> 0, key |-> 0, topo |-> None]

Goes(n, items) == Instead(n, items) /\ UNCHANGED <<inside, entered, answers, reg, log, hook, opInited, aborted>>
SetComm(n, o, s) == comm' = [comm EXCEPT ![n][o] = s]

DeclareItem(o, dims, ndim, map, nmap) ==
  [do |-> "declare", comm |-> o, dims |-> dims, ndim |-> ndim, map |-> map, nmap |-> nmap]
SplitItem(o, color, key, into) ==
  [do |-> "split", comm |-> o, color |-> color, key |-> key, into |-> into]

-----------------------------------------------------------------------------
(* QMP_init_msg_passing.                                                   *)

\* Mutant: the default communicator is split off the allocated one.
MutantFromAlloc ==
  <<[do |-> "nmpi"], [do |-> "parse"], [do |-> "job"],
    [do |-> "geometry"], SplitItem("alloc", 0, 0, "def"), Barrier("def")>>

InitItems ==
  <<[do |-> "nmpi"], [do |-> "parse"], [do |-> "job"],
    [do |-> "geometry"], SplitItem("job", 0, 0, "def"), Barrier("def")>>

NewScenario(s) ==
  /\ scenario = s
  /\ agenda = [n \in Node |-> InitItems \o s.prog[n]]
  /\ argv = [n \in Node |-> <<"qmp">> \o s.args]

\* QMP_allocated_comm_s: all processes of the job.
Allocated(n) == [Blank EXCEPT !.mpicomm = World, !.num_nodes = Cardinality(Node),
                              !.nodeid = n, !.ncolors = 1, !.key = n]

Init ==
  /\ \E s \in Scenarios : NewScenario(s)
  /\ inside = [n \in Node |-> FALSE] /\ aborted = FALSE
  /\ entered = [n \in Node |-> <<>>] /\ answers = <<>>
  /\ reg = [n \in Node |-> [data |-> <<>>, comm |-> None]] /\ log = [n \in Node |-> <<>>]
  /\ hook = [n \in Node |-> None] /\ opInited = [n \in Node |-> FALSE]
  /\ comm = [n \in Node |-> [o \in Objects |-> IF o = "A" THEN Allocated(n) ELSE None]]
  /\ ptr = [n \in Node |-> [alloc |-> "A", job |-> "A", def |-> "A"]]
  /\ args = [n \in Node |-> None] /\ ictype = [n \in Node |-> "switch"]
  /\ status = [n \in Node |-> "success"] /\ subgrid = [n \in Node |-> None]

\* Mutant: the processes that are left over exit without splitting.
MutantExitFirst(nodeid, nmpi) ==
  IF nodeid < nmpi THEN <<Mpi("alloc", "split", None, [color |-> 0, key |-> nodeid]),
                          [do |-> "reduced", nmpi |-> nmpi]>>
  ELSE <<[do |-> "reduced", nmpi |-> nmpi]>>

ReduceItems(nodeid, nmpi) ==
  <<Mpi("alloc", "split", None, [color |-> IF nodeid < nmpi THEN 0 ELSE 1, key |-> nodeid]),
    [do |-> "reduced", nmpi |-> nmpi]>>

\* process_args: -qmp-nmpi.
Nmpi(n) ==
  /\ IsAt(n, "nmpi")
  /\ \E g \in {GetIntArray(argv[n], "-qmp-nmpi")} :
        /\ argv' = [argv EXCEPT ![n] = g.rest]
        /\ Goes(n, IF g.a = NULL THEN <<>> ELSE ReduceItems(Struct(n, "alloc").nodeid, g.a[1]))
  /\ UNCHANGED <<comm, ptr, scenario, args, ictype, status, subgrid>>

\* The communicator is replaced; the processes that are left over exit.
Reduced(n) ==
  /\ IsAt(n, "reduced")
  /\ LET c == Struct(n, "alloc")
     IN /\ SetComm(n, "A", [c EXCEPT !.mpicomm = reg[n].comm, !.num_nodes = Todo(n).nmpi])
        /\ IF c.nodeid < Todo(n).nmpi THEN Instead(n, <<>>)
           ELSE agenda' = [agenda EXCEPT ![n] = <<>>]
  /\ UNCHANGED <<inside, entered, answers, reg, log, hook, opInited, aborted, ptr, startVars>>

\* process_args: the other arguments, and the topology of the allocated nodes.
Parse(n) ==
  /\ IsAt(n, "parse")
  /\ \E g \in {GetIntArray(argv[n], "-qmp-geom")} :
     \E a \in {GetIntArray(g.rest, "-qmp-alloc-map")} :
     \E l \in {GetIntArray(a.rest, "-qmp-logic-map")} :
     \E j \in {GetIntArray(l.rest, "-qmp-job")} :
        IF a.len < 0 \/ l.len < 0
        THEN Abort /\ UNCHANGED startVars
        ELSE /\ argv' = [argv EXCEPT ![n] = j.rest]
             /\ args' = [args EXCEPT ![n] =
                  [geom |-> g.a, geomlen |-> g.len, amap |-> a.a, amaplen |-> a.len,
                   lmap |-> l.a, lmaplen |-> l.len, jobgeom |-> j.a, njobdim |-> j.len]]
             /\ Goes(n, <<DeclareItem("alloc", g.a, g.len, a.a, a.len)>>)
             /\ UNCHANGED <<comm, ptr, scenario, ictype, status, subgrid>>

\* get_color: the asserts it makes, and the partition a node belongs to.
ColorAsserts(n) ==
  LET q == args[n]
      ad == Dimensions(n, "alloc")
  IN q.jobgeom = NULL \/
     IF ad # NULL
     THEN /\ q.njobdim = Len(ad)
          /\ \A i \in DOMAIN ad : q.jobgeom[i] > 0 /\ ad[i] % q.jobgeom[i] = 0
     ELSE /\ q.njobdim = 1 /\ q.jobgeom[1] > 0
          /\ Struct(n, "alloc").num_nodes % q.jobgeom[1] = 0

\* Mutant: the nodes are dealt out to the jobs in turn.
MutantDealt(n) ==
  LET q == args[n]
      ad == Dimensions(n, "alloc")
      lc == Struct(n, "alloc").topo.coord
  IN IF q.jobgeom = NULL THEN 0
     ELSE IF ad # NULL
     THEN LexRank([i \in DOMAIN ad |-> lc[i] % q.jobgeom[i]], q.jobgeom)
     ELSE (Struct(n, "alloc").nodeid * q.jobgeom[1]) \div Struct(n, "alloc").num_nodes

GetColor(n) ==
  LET q == args[n]
      ad == Dimensions(n, "alloc")
      lc == Struct(n, "alloc").topo.coord
  IN IF q.jobgeom = NULL THEN 0
     ELSE IF ad # NULL
     THEN LexRank([i \in DOMAIN ad |-> (lc[i] * q.jobgeom[i]) \div ad[i]], q.jobgeom)
     ELSE (Struct(n, "alloc").nodeid * q.jobgeom[1]) \div Struct(n, "alloc").num_nodes

\* The machine is a mesh if the topology was declared; then the jobs split off.
Job(n) ==
  /\ IsAt(n, "job")
  /\ ictype' = [ictype EXCEPT ![n] = IF Declared(n, "alloc") THEN "mesh" ELSE @]
  /\ IF ColorAsserts(n)
     THEN Goes(n, <<SplitItem("alloc", GetColor(n), 0, "job")>>) /\ UNCHANGED <<comm, ptr>>
     ELSE Abort
  /\ UNCHANGED <<scenario, argv, args, status, subgrid>>

\* The topology of the job.
Geometry(n) ==
  /\ IsAt(n, "geometry")
  /\ LET q == args[n]
         ad == Dimensions(n, "alloc")
     IN Goes(n, IF q.jobgeom = NULL \/ ictype[n] # "mesh" THEN <<>>
                ELSE <<DeclareItem("job", [i \in 1 .. q.njobdim |-> ad[i] \div q.jobgeom[i]],
                                   q.njobdim, q.amap, q.amaplen)>>)
  /\ UNCHANGED <<comm, ptr, startVars>>

-----------------------------------------------------------------------------
(* QMP_comm_split and QMP_comm_free.                                       *)

ObjectOf(into) == CASE into = "job" -> "J" [] into = "def" -> "D" [] OTHER -> "S"

\* The new communicator is there, and what points to it, before it is complete.
Split(n) ==
  /\ IsAt(n, "split")
  /\ LET it == Todo(n)
         o  == ObjectOf(it.into)
     IN /\ SetComm(n, o, [Blank EXCEPT !.color = it.color, !.key = it.key])
        /\ ptr' = IF it.into = "sub" THEN ptr ELSE [ptr EXCEPT ![n][it.into] = o]
        /\ Goes(n, <<Mpi(Object(n, it.comm), "max", "double", <<it.color>>),
                     [it EXCEPT !.do = "count", !.comm = Object(n, it.comm)]>>)
  /\ UNCHANGED startVars

Count(n) ==
  /\ IsAt(n, "count")
  /\ LET it == Todo(n)
         cmax == 1 + reg[n].data[1]
     IN IF cmax <= 0 THEN Abort
        ELSE /\ Goes(n, <<Mpi(it.comm, "sum", "double",
                              [i \in 1 .. cmax |-> IF i - 1 = it.color THEN 1 ELSE 0]),
                          [it EXCEPT !.do = "colors"]>>)
             /\ UNCHANGED <<comm, ptr>>
  /\ UNCHANGED startVars

\* Mutant: it counts members.
MutantMembers(ca) == FoldFunction(LAMBDA a, b : a + b, 0, ca)

Distinct(ca) == Cardinality({i \in DOMAIN ca : ca[i] # 0})

Colors(n) ==
  /\ IsAt(n, "colors")
  /\ LET it == Todo(n)
     IN IF it.color < 0 THEN Abort   \* MPI_Comm_split refuses it
        ELSE /\ comm' = [comm EXCEPT ![n][ObjectOf(it.into)].ncolors = Distinct(reg[n].data)]
             /\ Goes(n, <<Mpi(it.comm, "split", None, [color |-> it.color, key |-> it.key]),
                          [it EXCEPT !.do = "made"]>>)
             /\ UNCHANGED ptr
  /\ UNCHANGED startVars

\* Mutant: the node keeps its number in the whole machine.
MutantOldNumber(n, c, new) ==
  [c EXCEPT !.mpicomm = new, !.num_nodes = Len(new.group), !.nodeid = comm[n]["A"].nodeid]

\* Mutant: the node does not ask for its rank.
MutantNoRank(n, c, new) == [c EXCEPT !.mpicomm = new, !.num_nodes = Len(new.group)]

\* The struct c of node n with the communicator that MPI has made.
Completed(n, c, new) ==
  [c EXCEPT !.mpicomm = new, !.num_nodes = Len(new.group), !.nodeid = RankIn(n, new)]

Made(n) ==
  /\ IsAt(n, "made")
  /\ LET o == ObjectOf(Todo(n).into)
     IN SetComm(n, o, Completed(n, comm[n][o], reg[n].comm))
  /\ Goes(n, <<>>)
  /\ UNCHANGED <<ptr, startVars>>

FreeComm(n) ==
  /\ IsAt(n, "freecomm")
  /\ SetComm(n, "S", None)
  /\ Goes(n, <<>>)
  /\ UNCHANGED <<ptr, startVars>>

\* QMP_comm_set_default.
SetDefault(n) ==
  /\ IsAt(n, "setdefault")
  /\ ptr' = [ptr EXCEPT ![n].def = Todo(n).to]
  /\ Goes(n, <<>>)
  /\ UNCHANGED <<comm, startVars>>

-----------------------------------------------------------------------------
(* Topologies.                                                             *)

\* QMP_comm_declare_logical_topology_map: the barrier is on the default
\* communicator, whatever the communicator of the topology.
Declare(n) ==
  /\ IsAt(n, "declare")
  /\ Goes(n, <<Barrier("def"), [Todo(n) EXCEPT !.do = "settopo"]>>)
  /\ UNCHANGED <<comm, ptr, startVars>>

\* QMP_declare_logical_topology: on the default communicator, with -qmp-logic-map.
DeclareLogical(n) ==
  /\ IsAt(n, "declare_logical")
  /\ LET it == Todo(n)
     IN Goes(n, <<DeclareItem("def", it.dims, it.ndim, args[n].lmap, args[n].lmaplen)>>)
  /\ UNCHANGED <<comm, ptr, startVars>>

\* The asserts on the arguments; QMP_set_topo_native is fatal over MPI.
Accepted(n, it) ==
  /\ it.nmap >= 0 /\ (it.nmap = 0 <=> it.map = NULL)
  /\ it.ndim > 0 => it.dims # NULL
  /\ it.ndim # -1

\* The part of an array that is read: a program's array may be longer, and so is the
\* one that get_arg kept when the tag comes again with fewer numbers.
Leading(array, n) == SubSeq(array, 1, n)

SetTopo(n) ==
  /\ IsAt(n, "settopo") /\ Usable(n, Todo(n).comm)
  /\ LET it == Todo(n)
         o  == Object(n, it.comm)
         c  == comm[n][o]
     IN CASE ~Accepted(n, it) -> Abort /\ UNCHANGED startVars
          [] Accepted(n, it) /\ it.ndim <= 0 ->
               /\ Goes(n, <<>>)
               /\ status' = [status EXCEPT ![n] = IF it.ndim = 0 THEN "success" ELSE "invalid"]
               /\ UNCHANGED <<comm, ptr, scenario, argv, args, ictype, subgrid>>
          [] Accepted(n, it) /\ it.ndim > 0 /\ ~Fits(Leading(it.dims, it.ndim), c.num_nodes) ->
               /\ Goes(n, <<>>)
               /\ status' = [status EXCEPT ![n] = "invalid"]
               /\ UNCHANGED <<comm, ptr, scenario, argv, args, ictype, subgrid>>
          [] OTHER ->
               IF c.topo # None \/ (it.map # NULL /\ it.nmap # it.ndim)
               THEN Abort /\ UNCHANGED startVars
               ELSE /\ SetComm(n, o, [c EXCEPT !.topo =
                         [dims |-> Leading(it.dims, it.ndim), map |-> Leading(it.map, it.nmap),
                          coord |-> None, neigh |-> None]])
                    /\ Goes(n, <<Barrier("def"), [do |-> "neighbours", comm |-> it.comm], Barrier("def")>>)
                    /\ status' = [status EXCEPT ![n] = "success"]
                    /\ UNCHANGED <<ptr, scenario, argv, args, ictype, subgrid>>

\* The rest of QMP_set_topo.
Neighbours(n) ==
  /\ IsAt(n, "neighbours") /\ Usable(n, Todo(n).comm)
  /\ LET o == Object(n, Todo(n).comm)
         t == comm[n][o].topo
         x == Coordinates(t, comm[n][o].nodeid)
     IN SetComm(n, o, [comm[n][o] EXCEPT !.topo = [t EXCEPT
          !.coord = x,
          !.neigh = [s \in {-1, 1} |-> [i \in DOMAIN t.dims |-> Neighbour(t, x, i, s)]]]])
  /\ Goes(n, <<>>)
  /\ UNCHANGED <<ptr, startVars>>

-----------------------------------------------------------------------------
(* QMP_layout_grid.                                                        *)

\* The while loop: the number of squares on each axis, NULL if it gives up.
Squares[n \in Nat, k \in Nat, size \in Seq(Int), nsq \in Seq(Int)] ==
  IF n <= 1 THEN nsq
  ELSE LET i == PrimeFrom(n, k)
           p == Primes[i]
           j == AxisToDivide(p, size, nsq)
       IN IF GivesUp(j) THEN NULL
          ELSE Squares[n \div p, i, [size EXCEPT ![j] = @ \div p], [nsq EXCEPT ![j] = @ * p]]

Layout(dims, n) == Squares[n, Len(Primes), dims, [i \in DOMAIN dims |-> 1]]

LayoutGrid(n) ==
  /\ IsAt(n, "layout")
  /\ LET after == [Todo(n) EXCEPT !.do = "search"]
     IN Goes(n, IF ictype[n] = "switch" THEN <<after>>
                ELSE <<[do |-> "declare_logical", dims |-> Dimensions(n, "job"),
                        ndim |-> NumberOfDimensions(n, "job")], after>>)
  /\ UNCHANGED <<comm, ptr, startVars>>

\* The topology is not declared yet: the layout is searched and declared.
Search(n) ==
  /\ IsAt(n, "search") /\ ~Declared(n, "def")
  /\ LET it == Todo(n)
         nsq == Layout(it.dims, Struct(n, "def").num_nodes)
     IN IF nsq = NULL
        THEN Goes(n, <<>>) /\ status' = [status EXCEPT ![n] = "error"]
        ELSE /\ Goes(n, <<[do |-> "declare_logical", dims |-> nsq, ndim |-> Len(nsq)],
                          [do |-> "subgrid", dims |-> it.dims, nsq |-> nsq]>>)
             /\ UNCHANGED status
  /\ UNCHANGED <<comm, ptr, scenario, argv, args, ictype, subgrid>>

\* It is declared: the lattice must fit on it.
UseDeclared(n) ==
  /\ IsAt(n, "search") /\ Declared(n, "def")
  /\ LET dims == Todo(n).dims
         ld  == Dimensions(n, "def")
         nsq == [i \in DOMAIN dims |-> IF i <= Len(ld) THEN ld[i] ELSE 1]
         ok  == Len(dims) >= Len(ld) /\ Divided(dims, nsq)
     IN /\ Goes(n, IF ok THEN <<[do |-> "subgrid", dims |-> dims, nsq |-> nsq]>> ELSE <<>>)
        /\ status' = [status EXCEPT ![n] = IF ok THEN "success" ELSE "error"]
  /\ UNCHANGED <<comm, ptr, scenario, argv, args, ictype, subgrid>>

SetSubgrid(n) ==
  /\ IsAt(n, "subgrid")
  /\ LET it == Todo(n)
     IN subgrid' = IF status[n] # "success" THEN subgrid
                   ELSE [subgrid EXCEPT ![n] = [of |-> ptr[n].def, lattice |-> it.dims,
                          length |-> [i \in DOMAIN it.dims |-> it.dims[i] \div it.nsq[i]]]]
  /\ Goes(n, <<>>)
  /\ UNCHANGED <<comm, ptr, scenario, argv, args, ictype, status>>

-----------------------------------------------------------------------------
Step(n) ==
  \/ CollStep(n) /\ UNCHANGED startVars
  \/ Nmpi(n) \/ Reduced(n) \/ Parse(n) \/ Job(n) \/ Geometry(n)
  \/ Split(n) \/ Count(n) \/ Colors(n) \/ Made(n) \/ FreeComm(n) \/ SetDefault(n)
  \/ Declare(n) \/ DeclareLogical(n) \/ SetTopo(n) \/ Neighbours(n)
  \/ LayoutGrid(n) \/ Search(n) \/ UseDeclared(n) \/ SetSubgrid(n)

Next == \E n \in Node : Step(n)

Spec == Init /\ [][Next]_vars
\* Some process that can go on does: the processes run, and MPI completes a call
\* that all who matter to it have made.
FairSpec == Spec /\ WF_vars(Next)

-----------------------------------------------------------------------------
(* Properties.                                                             *)

Complete(n, o) == comm[n][o] # None /\ comm[n][o].mpicomm # None
\* A process that is left over by -qmp-nmpi never gets there.
Parsed(n) == args[n] # None

\* Every node has a communicator of each kind that it has got to, and a rank in it.
TypeOK ==
  /\ scenario \in Scenarios
  /\ inside \in [Node -> BOOLEAN] /\ opInited \in [Node -> BOOLEAN] /\ aborted \in BOOLEAN
  /\ ptr \in [Node -> [{"alloc", "job", "def"} -> Objects]]
  /\ ictype \in [Node -> {"switch", "mesh"}]
  /\ status \in [Node -> {"success", "invalid", "error"}]
  /\ \A n \in Node, o \in Objects : Complete(n, o) /\ Parsed(n) =>
       comm[n][o].nodeid \in 0 .. comm[n][o].num_nodes - 1

\* QMP takes its own arguments out of the command line, wherever they stand and however
\* many numbers follow each, and leaves the program's in their order, when each tag is
\* given once (QMP_init.c:114-162).
ArgsKept == \A n \in Node : Parsed(n) => argv[n] = <<"qmp">> \o scenario.user

\* The members of a communicator agree about it: it holds all nodes of its colour
\* and no other, they have different ranks, and they count as many nodes and as many
\* colours (QMP_split.c:48-83, QMP_init.c:179-267).
MembersAgree ==
  \A o \in {"A", "J", "D"} :
    \A n, m \in {k \in Node : Complete(k, o) /\ Parsed(k)} :
      LET c == comm[n][o]
          d == comm[m][o]
      IN /\ n \in Members(c.mpicomm)
         /\ (m \in Members(c.mpicomm)) <=> (c.mpicomm = d.mpicomm)
         /\ o = "J" => c.ncolors = d.ncolors /\ (c.mpicomm = d.mpicomm <=> c.color = d.color)
         /\ c.mpicomm = d.mpicomm => /\ c.num_nodes = d.num_nodes
                                     /\ c.nodeid = d.nodeid <=> n = m

\* The number of colours that the nodes count is the number of jobs
\* (QMP_split.c:61-72).
ColoursCounted ==
  (\A n \in Node : Complete(n, "J") /\ Parsed(n)) =>
    \A n \in Node : comm[n]["J"].ncolors = Cardinality({comm[m]["J"].color : m \in Node})

\* The communicator that a program finds is its job, with the job's ranks
\* (QMP_init.c:264-267).
DefaultIsJob ==
  \A n \in Node : Complete(n, "D") =>
    /\ Members(comm[n]["D"].mpicomm) = Members(comm[n]["J"].mpicomm)
    /\ comm[n]["D"].nodeid = comm[n]["J"].nodeid

\* The members of a communicator have the same topology, and a node is the backward
\* neighbour of its forward neighbour along every axis (QMP_topology.c:51-71): a send
\* and a receive that each names the other's direction meet.
NeighboursMutual ==
  \A n, m \in Node, o \in Objects :
    LET t == comm[n][o].topo
        u == comm[m][o].topo
        declared(k) == Complete(k, o) /\ comm[k][o].topo # None
    IN declared(n) /\ declared(m) /\ comm[n][o].mpicomm = comm[m][o].mpicomm =>
         /\ t.dims = u.dims /\ t.map = u.map
         /\ t.coord # None /\ u.coord # None =>
              \A i \in DOMAIN t.dims : \A s \in {-1, 1} :
                t.neigh[s][i] = comm[m][o].nodeid <=> u.neigh[-s][i] = comm[n][o].nodeid

\* The jobs are blocks of the allocated machine: a node's place in its job is its
\* place in the machine, counted from the corner of the block (QMP_init.c:184-199,
\* 255-263).
JobsAreBlocks ==
  \A n \in Node :
    LET a == comm[n]["A"].topo
        j == comm[n]["J"].topo
    IN Complete(n, "J") /\ a # None /\ j # None /\ j.coord # None =>
         j.coord = [i \in DOMAIN a.dims |-> a.coord[i] % j.dims[i]]

\* A subgrid that QMP_layout_grid hands out is the lattice divided by the topology of
\* the communicator that was the default, without remainder (QMP_grid.c:40-151).
LayoutSound ==
  \A n \in Node : subgrid[n] # None =>
    LET d == Dimensions(n, subgrid[n].of)
        lattice == subgrid[n].lattice
    IN Complete(n, subgrid[n].of) =>
       /\ Declared(n, subgrid[n].of)
       /\ lattice = [i \in DOMAIN lattice |->
                       subgrid[n].length[i] * (IF i <= Len(d) THEN d[i] ELSE 1)]

Results(c) == {e \in UNION {{log[n][i] : i \in DOMAIN log[n]} : n \in Node} : e.call \in c}
\* The i-th numbers that the members gave the call with result e, and their sum.
Given(e, i) == [m \in Members(e.comm) |-> CallOf(m, e.comm, e.at).arg[i]]
Total(f) == FoldFunction(LAMBDA a, b : a + b, 0, f)

\* A sum that was added in type t and then handed back: what the conversion to the
\* caller's type makes of a number that is as near the exact sum as adding in t allows,
\* in any order.  It is the exact sum if no addition in t can have rounded; otherwise
\* the error of each addition, of at most one part in 2^Bits[t], adds up.
AddedIn(t, e) ==
  \A i \in DOMAIN e.got :
    LET x == Given(e, i)
        a == Total([m \in DOMAIN x |-> Magnitude(x[m])])
        additions == Cardinality(DOMAIN x) - 1
        slack == IF a < Power(Bits[t]) THEN 0 ELSE (additions * a) \div (Power(Bits[t]) - additions)
    IN \E d \in Total(x) - slack .. Total(x) + slack : e.got[i] \in Converted(d, t, Calls[e.call].buf)

\* Every addition of a sum rounds, in an order that MPI chooses; what a node gets is
\* as near the exact sum as the wider type that the numbers are added in allows, after
\* one rounding to the caller's type: sums of floats and ints are added in doubles,
\* the extended one of a communicator in long doubles, that of the default communicator
\* (QMP_comm.c:335, against qmp.h:977) in doubles, arrays of floats and doubles in their
\* own type.  Sums of uint64_t wrap, and extremes are exact (QMP_comm.c:183-417).
\* Arrays of long doubles are left out: what they give is no sum.
SumsAreClose ==
  /\ \A e \in Results({"sum_float", "sum_int", "sum_double", "sum_double_array",
                          "sum_double_extended"}) : AddedIn("double", e)
  /\ \A e \in Results({"comm_sum_double_extended"}) : AddedIn("long_double", e)
  /\ \A e \in Results({"sum_float_array"}) : AddedIn("float", e)
  /\ \A e \in Results({"sum_uint64_t"}) : \A i \in DOMAIN e.got :
       e.got[i] = Total(Given(e, i)) % Power(Bits["uint64_t"])
  /\ \A e \in Results({"max_float", "min_float"}) : \A i \in DOMAIN e.got :
       LET x == Given(e, i)
       IN /\ \E m \in DOMAIN x : e.got[i] = x[m]
          /\ \A m \in DOMAIN x : IF e.call = "max_float" THEN x[m] <= e.got[i] ELSE e.got[i] <= x[m]

Ended == aborted \/ \A n \in Node : agenda[n] = <<>>
\* n waits in the barrier of a declaration on a communicator of some of the nodes.
PartialDeclare(n) ==
  /\ inside[n] /\ Len(agenda[n]) >= 2
  /\ agenda[n][2].do \in {"settopo", "neighbours"} /\ agenda[n][2].comm = "S"

\* Every job ends, whatever its command line; only a topology that the members of a
\* communicator of a program's own declare for themselves may hang it
\* (QMP_topology.c:96-123).
OnlyPartialDeclareHangs == <>[](Ended \/ \E n \in Node : PartialDeclare(n))
=============================================================================
