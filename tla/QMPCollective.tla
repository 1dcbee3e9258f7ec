--------------------------- MODULE QMPCollective ----------------------------
(***************************************************************************)
(* Barriers, broadcasts, reductions and the binary reduction (QMP_comm.c    *)
(* 118-589, mpi/QMP_comm_mpi.c 84-342): every call of a node is a few local *)
(* steps around one collective call of MPI on the MPI communicator of a QMP *)
(* communicator.                                                            *)
(*                                                                         *)
(* A node carries out its agenda, a sequence of items: a call of QMP is an  *)
(* item that is replaced by the items it consists of, down to the           *)
(* collective calls of MPI.  A node enters such a call and leaves it later: *)
(* MPI matches the k-th calls of the members of a communicator, whatever    *)
(* they are, and lets a member leave when the others have come as far as    *)
(* the call needs.                                                          *)
(*                                                                         *)
(* Numbers are integers that a type holds to so many significant bits:      *)
(* what a conversion or an addition cannot hold is rounded to even, a       *)
(* uint64_t wraps.                                                          *)
(***************************************************************************)
EXTENDS Integers, Sequences, FiniteSets, TLC

CONSTANTS
  Node,       \* the nodes
  None,
  Garbage,    \* memory read as a type that it does not hold
  Bits        \* Bits[t]: the significant bits of type t

Types == {"int", "uint64_t", "float", "double", "long_double", "ulong"}

ASSUME BitsAssumption ==
  /\ Bits \in [Types -> Nat \ {0}]
  /\ Bits["int"] <= Bits["double"] /\ Bits["float"] <= Bits["double"]
  /\ Bits["double"] <= Bits["long_double"]

VARIABLES
  agenda,   \* agenda[n]: what node n has to do, the present item first
  inside,   \* inside[n]: n is in the MPI call of its first item
  entered,  \* entered[n][c]: the MPI calls n has made on communicator c
  answers,  \* the result of the k-th call on an MPI communicator, once known
  reg,      \* reg[n]: what the last MPI call gave n
  log,      \* log[n]: the results the program on n has got
  hook,     \* hook[n]: qmp_user_bfunc
  opInited, \* opInited[n]: op_inited
  comm,     \* comm[n][o]: the QMP_comm_struct o of node n
  ptr,      \* ptr[n]: QMP_allocated_comm, QMP_job_comm, QMP_default_comm of n
  aborted   \* a node has called QMP_abort, which ends the job

collVars == <<agenda, inside, entered, answers, reg, log, hook, opInited>>

-----------------------------------------------------------------------------
(* Numbers.                                                                *)

Power(b) == 2 ^ b
Magnitude(v) == IF v < 0 THEN -v ELSE v

\* v to b significant bits, to even where it is half way.
Rounded(v, b) ==
  LET a == Magnitude(v)
      s == CHOOSE k \in 0 .. 30 : a \div Power(k) < Power(b)
                                  /\ (k = 0 \/ a \div Power(k - 1) >= Power(b))
      q == a \div Power(s)
      r == a % Power(s)
      up == s > 0 /\ (2 * r > Power(s) \/ (2 * r = Power(s) /\ q % 2 = 1))
      m == (IF up THEN q + 1 ELSE q) * Power(s)
  IN IF v < 0 THEN -m ELSE m

InRange(v) == -Power(Bits["int"]) <= v /\ v < Power(Bits["int"])

\* What a v of type from becomes as a type to.
Converted(v, from, to) ==
  CASE v = Garbage -> {Garbage}
    [] from = to -> {v}
    [] to = "int" /\ ~InRange(v) -> {Garbage}
    [] to \in {"float", "double", "long_double"} -> {Rounded(v, Bits[to])}
    [] OTHER -> {v}

Sum(t, a, b) ==
  CASE Garbage \in {a, b} -> Garbage
    [] t = "uint64_t" -> (a + b) % Power(Bits[t])
    [] OTHER -> Rounded(a + b, Bits[t])

\* The bits of two unsigned numbers, exclusive or.
Xor(a, b) ==
  LET bit(v, k) == (v \div Power(k)) % 2
      f[k \in 0 .. Bits["ulong"]] ==
        IF k = 0 THEN 0
        ELSE f[k - 1] + (IF bit(a, k - 1) # bit(b, k - 1) THEN Power(k - 1) ELSE 0)
  IN f[Bits["ulong"]]

\* A user's binary function: the product.
Product(a, b) == a * b

Combined(op, t, a, b) ==
  CASE op = "sum" -> Sum(t, a, b)
    [] op = "max" -> IF a > b THEN a ELSE b
    [] op = "min" -> IF a < b THEN a ELSE b
    [] op = "xor" -> Xor(a, b)
    [] op = "user" -> Product(a, b)

-----------------------------------------------------------------------------
(* MPI: communicators and their collective calls.  An MPI communicator is   *)
(* its members in order and the name of the call that made it, of which     *)
(* there is one after the name of the communicator that was split.          *)

World == [name |-> <<>>, group |-> [i \in 1 .. Cardinality(Node) |-> i - 1]]
Members(c) == {c.group[i] : i \in DOMAIN c.group}
RankIn(n, c) == (CHOOSE i \in DOMAIN c.group : c.group[i] = n) - 1

OnComm(n, c) == IF c \in DOMAIN entered[n] THEN entered[n][c] ELSE <<>>
\* The position on c of the call n is in.
Position(n, c) == Len(OnComm(n, c))
CallOf(n, c, k) == OnComm(n, c)[k]
HasCome(n, c, k) == Position(n, c) >= k

Args(c, k) == [n \in Members(c) |-> CallOf(n, c, k).arg]

\* The results an MPI_Allreduce of these numbers may give: MPI combines them two by
\* two, in any order, each combination rounded.
Reductions(op, t, arg) ==
  LET add(a, b) == [i \in DOMAIN a |-> Combined(op, t, a[i], b[i])]
      f[S \in SUBSET DOMAIN arg] ==
        IF Cardinality(S) = 1 THEN {arg[n] : n \in S}
        ELSE UNION {{add(a, b) : a \in f[T], b \in f[S \ T]} : T \in SUBSET S \ {{}, S}}
  IN f[DOMAIN arg]

\* MPI may call a user's function for pieces of several elements; this one takes no
\* length, and works on the whole length from the beginning of every piece.
UserReductions(arg) ==
  Reductions("user", "byte", arg)
    \cup {[i \in DOMAIN a |-> Garbage] : a \in {arg[n] : n \in {m \in DOMAIN arg : Len(arg[m]) > 1}}}

\* MPI_Comm_split: the members of a colour, by key and then by rank.
SplitGroup(c, arg, color) ==
  LET S == {n \in Members(c) : arg[n].color = color}
      before(n, m) == \/ arg[n].key < arg[m].key
                      \/ arg[n].key = arg[m].key /\ RankIn(n, c) < RankIn(m, c)
      rank(n) == Cardinality({m \in S : before(m, n)})
  IN [i \in 1 .. Cardinality(S) |-> CHOOSE n \in S : rank(n) = i - 1]

\* The results the k-th call on c may give, the same for all its members.
Outcomes(c, k) ==
  LET e == CallOf(c.group[1], c, k)
  IN CASE e.op \in {"sum", "max", "min", "xor"} -> Reductions(e.op, e.type, Args(c, k))
       [] e.op = "user" -> UserReductions(Args(c, k))
       [] e.op = "bcast" -> {e.arg}
       [] OTHER -> {<<>>}

\* What the result is for member n: numbers, or a new communicator.
Share(n, c, k, v) ==
  LET e == CallOf(n, c, k)
  IN [data |-> IF e.op = "alltoall"
               THEN [i \in DOMAIN c.group |-> CallOf(c.group[i], c, k).arg[RankIn(n, c) + 1]]
               ELSE v,
      comm |-> IF e.op = "split"
               THEN [name |-> Append(c.name, <<k, e.arg.color>>),
                     group |-> SplitGroup(c, Args(c, k), e.arg.color)]
               ELSE None]

\* A member leaves a broadcast when the root has come, the root at once, and
\* every other call when all have come.  Calls that do not match are erroneous and
\* hang.
Needed(n, c, op) == IF op = "bcast" THEN {c.group[1]} ELSE Members(c)

-----------------------------------------------------------------------------
(* QMP over MPI.                                                           *)

\* The MPI communicator that a call on o, a predefined communicator or one of
\* the node's own, goes to.
Object(n, o) == IF o \in DOMAIN ptr[n] THEN ptr[n][o] ELSE o
Struct(n, o) == comm[n][Object(n, o)]
\* Programs use the communicators that they have.
Usable(n, o) == Struct(n, o) # None /\ Struct(n, o).mpicomm # None

Mpi(o, op, type, arg) == [do |-> "mpi", comm |-> o, op |-> op, type |-> type, arg |-> arg]
Barrier(o) == Mpi(o, "barrier", None, None)

\* A reduction hands MPI a copy of the value in a type via, tells MPI that it
\* has type mpi and converts the result back to the type buf of the caller.
R(buf, via, mpi, op) == [buf |-> buf, via |-> via, mpi |-> mpi, op |-> op]

\* Mutant: float sums are taken in floats.
MutantFloatSums ==
  [sum_int         |-> R("int", "double", "double", "sum"),
   sum_uint64_t    |-> R("uint64_t", "uint64_t", "uint64_t", "sum"),
   sum_float       |-> R("float", "float", "float", "sum"),
   sum_double      |-> R("double", "double", "double", "sum"),
   sum_long_double |-> R("long_double", "long_double", "long_double", "sum")]

SumCalls ==
  [sum_int         |-> R("int", "double", "double", "sum"),
   sum_uint64_t    |-> R("uint64_t", "uint64_t", "uint64_t", "sum"),
   sum_float       |-> R("float", "double", "double", "sum"),
   sum_double      |-> R("double", "double", "double", "sum"),
   sum_long_double |-> R("long_double", "long_double", "long_double", "sum")]

ExtendedCalls ==
  [comm_sum_double_extended |-> R("double", "long_double", "long_double", "sum"),
   sum_double_extended      |-> R("double", "double", "double", "sum")]

ArrayCalls ==
  [sum_float_array       |-> R("float", "float", "float", "sum"),
   sum_double_array      |-> R("double", "double", "double", "sum"),
   sum_long_double_array |-> R("long_double", "long_double", "double", "sum")]

FloatExtremes ==
  [max_float  |-> R("float", "double", "double", "max"),
   min_float  |-> R("float", "double", "double", "min")]
DoubleExtremes ==
  [max_double |-> R("double", "double", "double", "max"),
   min_double |-> R("double", "double", "double", "min")]

XorCall == [xor_ulong |-> R("ulong", "ulong", "ulong", "xor")]

Calls ==
  LET tables == {SumCalls, ExtendedCalls, ArrayCalls, FloatExtremes, DoubleExtremes, XorCall}
  IN [c \in UNION {DOMAIN t : t \in tables} |-> (CHOOSE t \in tables : c \in DOMAIN t)[c]]

\* A wider type holds every value of a narrower one.
Widened(v, r) == [i \in DOMAIN v |-> CHOOSE w \in Converted(v[i], r.buf, r.via) : TRUE]
\* A buffer of one type that MPI takes for an array of another.
AsMpi(v, r) == IF r.via = r.mpi THEN v ELSE [i \in DOMAIN v |-> Garbage]

Todo(n) == agenda[n][1]
Instead(n, items) == agenda' = [agenda EXCEPT ![n] = items \o Tail(@)]
IsAt(n, kind) == ~aborted /\ ~inside[n] /\ agenda[n] # <<>> /\ Todo(n).do = kind

\* QMP_FATAL, QMP_assert: QMP_abort ends the job.
Abort == aborted' = TRUE /\ UNCHANGED <<collVars, comm, ptr>>

\* A call of a reduction: the item and its two halves.
Reduce(n) ==
  /\ IsAt(n, "reduce")
  /\ LET it == Todo(n)
         r  == Calls[it.call]
     IN Instead(n, <<Mpi(it.comm, r.op, r.mpi, AsMpi(Widened(it.arg, r), r)),
                     [it EXCEPT !.do = "back"]>>)
  /\ UNCHANGED <<inside, entered, answers, reg, log, hook, opInited, comm, ptr, aborted>>

Logged(n, v) ==
  log' = [log EXCEPT ![n] = Append(@, [call |-> Todo(n).call, got |-> v,
            comm |-> Struct(n, Todo(n).comm).mpicomm,
            at |-> Position(n, Struct(n, Todo(n).comm).mpicomm)])]

\* The conversion after it.
Back(n) ==
  /\ IsAt(n, "back")
  /\ LET r == Calls[Todo(n).call]
     IN Logged(n, [i \in DOMAIN reg[n].data |->
                     CHOOSE w \in Converted(reg[n].data[i], r.via, r.buf) : TRUE])
  /\ Instead(n, <<>>)
  /\ UNCHANGED <<inside, entered, answers, reg, hook, opInited, comm, ptr, aborted>>

\* QMP_comm_broadcast, QMP_comm_alltoall.
Exchange(n) ==
  /\ IsAt(n, "exchange")
  /\ LET it == Todo(n)
     IN Instead(n, <<Mpi(it.comm, it.call, "byte", it.arg), [it EXCEPT !.do = "copied"]>>)
  /\ UNCHANGED <<inside, entered, answers, reg, log, hook, opInited, comm, ptr, aborted>>

\* The buffer holds what MPI left there.
Copied(n) ==
  /\ IsAt(n, "copied")
  /\ Logged(n, reg[n].data)
  /\ Instead(n, <<>>)
  /\ UNCHANGED <<inside, entered, answers, reg, hook, opInited, comm, ptr, aborted>>

\* QMP_comm_binary_reduction up to its MPI_Allreduce.
BinaryReduction(n) ==
  /\ IsAt(n, "binary_reduction")
  /\ LET it == Todo(n)
     IN IF hook[n] # None THEN Abort
        ELSE /\ hook' = [hook EXCEPT ![n] = it.bfunc]
             /\ opInited' = [opInited EXCEPT ![n] = TRUE]
             /\ Instead(n, <<Mpi(it.comm, "user", "byte", it.arg), [it EXCEPT !.do = "unhook"]>>)
             /\ UNCHANGED <<inside, entered, answers, reg, log, comm, ptr, aborted>>

\* The end of the binary reduction session.
Unhook(n) ==
  /\ IsAt(n, "unhook")
  /\ Logged(n, reg[n].data)
  /\ hook' = [hook EXCEPT ![n] = None]
  /\ Instead(n, <<>>)
  /\ UNCHANGED <<inside, entered, answers, reg, opInited, comm, ptr, aborted>>

Enter(n) ==
  /\ IsAt(n, "mpi") /\ Usable(n, Todo(n).comm)
  /\ LET it == Todo(n)
         c  == Struct(n, it.comm).mpicomm
         call == [op |-> it.op, type |-> it.type, arg |-> it.arg]
     IN entered' = [entered EXCEPT ![n] =
          [d \in DOMAIN @ \cup {c} |-> IF d = c THEN Append(OnComm(n, c), call) ELSE @[d]]]
  /\ inside' = [inside EXCEPT ![n] = TRUE]
  /\ UNCHANGED <<agenda, answers, reg, log, hook, opInited, comm, ptr, aborted>>

Leave(n) ==
  /\ ~aborted /\ inside[n]
  /\ LET c == Struct(n, Todo(n).comm).mpicomm
         k == Position(n, c)
         op == CallOf(n, c, k).op
     IN /\ \A m \in Needed(n, c, op) : HasCome(m, c, k) /\ CallOf(m, c, k).op = op
        /\ \E v \in IF <<c, k>> \in DOMAIN answers THEN {answers[<<c, k>>]} ELSE Outcomes(c, k) :
             /\ answers' = [p \in DOMAIN answers \cup {<<c, k>>} |->
                              IF p = <<c, k>> THEN v ELSE answers[p]]
             /\ reg' = [reg EXCEPT ![n] = Share(n, c, k, v)]
  /\ inside' = [inside EXCEPT ![n] = FALSE]
  /\ Instead(n, <<>>)
  /\ UNCHANGED <<entered, log, hook, opInited, comm, ptr, aborted>>

CollStep(n) ==
  \/ Reduce(n) \/ Back(n) \/ Exchange(n) \/ Copied(n)
  \/ BinaryReduction(n) \/ Unhook(n) \/ Enter(n) \/ Leave(n)
=============================================================================
