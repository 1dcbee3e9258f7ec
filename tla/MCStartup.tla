------------------------------ MODULE MCStartup -----------------------------
(* Jobs of four nodes: command lines, and programs that follow.            *)
EXTENDS QMPStartup_stages

MCBits == "int" :> 5 @@ "uint64_t" :> 4 @@ "float" :> 3 @@ "double" :> 6
          @@ "long_double" :> 8 @@ "ulong" :> 3

\* The same program on every node.
All(items) == [n \in Node |-> items]
\* Only the nodes of one job go on.
Only(S, items) == [n \in Node |-> IF n \in S THEN items ELSE <<>>]
JobOf(qmp, user, prog) == [args |-> qmp, user |-> user, prog |-> prog]
Plain(qmp, prog) == JobOf(qmp, <<>>, prog)

Lay(dims) == [do |-> "layout", dims |-> dims]
Red(call, o, arg) == [do |-> "reduce", call |-> call, comm |-> o, arg |-> arg]
Exch(call, o, arg) == [do |-> "exchange", call |-> call, comm |-> o, arg |-> arg]
User(o, arg) == [do |-> "binary_reduction", call |-> "binary_reduction", comm |-> o,
                 bfunc |-> "product", arg |-> arg]
\* A number of each node, which its type holds: floats whose sum doubles hold and
\* floats do not, floats whose sum doubles round, doubles whose sum long doubles hold.
Val  == <<7, -12, 20, 10>>
Wide == <<96, 1, -80, 3>>
Long == <<160, 1, -80, 2>>
Of(n) == Val[n + 1]
Half(n) == SplitItem("def", n % 2, -n, "sub")
SetDef(o) == [do |-> "setdefault", to |-> o]
Free == [do |-> "freecomm"]

Halves == [n \in Node |-> <<Half(n), Red("sum_float", "S", <<Of(n)>>)>>
             \o (IF n % 2 = 1 THEN <<>> ELSE <<SetDef("S"), Lay(<<2, 2>>), SetDef("D"), Free>>)]
MembersDeclare == [n \in Node |->
  <<Half(n)>> \o (IF n % 2 = 0 THEN <<DeclareItem("S", <<2>>, 1, NULL, 0)>> ELSE <<>>)]
Sums == [n \in Node |->
  <<Red("sum_int", "def", <<Of(n)>>), Red("sum_float", "def", <<Of(n)>>),
    Red("sum_uint64_t", "def", <<9 + n>>), Red("xor_ulong", "def", <<n, 5>>),
    Red("comm_sum_double_extended", "def", <<Long[n + 1]>>),
    Red("max_float", "def", <<n>>), Red("min_float", "def", <<n>>),
    Exch("bcast", "def", <<Of(n)>>), Exch("alltoall", "def", <<10 + n, 20 + n, 30 + n, 40 + n>>),
    User("def", <<1 + n>>), User("def", <<1 + n, 2>>)>>]
WideSums == [n \in Node |->
  <<Red("sum_long_double_array", "def", <<n>>), Red("sum_double_array", "def", <<Of(n), n>>),
    Red("sum_float_array", "def", <<n>>), Red("sum_double_extended", "def", <<Long[n + 1]>>),
    Red("sum_float", "def", <<Wide[n + 1]>>)>>]

MCScenarios == {
  JobOf(<<"-qmp-geom", "4", "in", "-qmp-job", "2", "-i", "3">>, <<"in", "-i", "3">>, Only({0, 1}, <<Lay(<<4, 3>>)>>)),
  Plain(<<"-qmp-alloc-map", "1", "0", "-qmp-job", "2", "1", "-qmp-geom", "2", "2">>, Only({2, 3}, <<Lay(<<4, 4>>)>>)),
  Plain(<<"-qmp-geom", "2", "2", "-qmp-logic-map", "1", "0", "-qmp-job", "1", "1">>, All(<<Lay(<<4, 4>>)>>)),
  Plain(<<"-qmp-job", "2">>, Only({0, 1}, <<Lay(<<2, 3>>)>>)),
  Plain(<<"-qmp-job", "3">>, All(<<>>)),
  Plain(<<"-qmp-geom", "3">>, All(<<Lay(<<3, 3>>)>>)),
  Plain(<<"-qmp-geom", "native">>, All(<<>>)),
  Plain(<<"-qmp-geom", "2", "2", "-qmp-job", "1", "1">>, All(<<Lay(<<4, 4>>), Lay(<<4, 4>>)>>)),
  JobOf(<<"-v", "-qmp-nmpi", "2">>, <<"-v">>,
        All(<<DeclareItem("def", <<2, 3>>, 1, NULL, 0), Lay(<<2, 2>>)>>)),
  Plain(<<>>, Halves), Plain(<<>>, MembersDeclare), Plain(<<>>, Sums), Plain(<<>>, WideSums),
  Plain(<<>>, [n \in Node |-> <<SplitItem("def", -1, 0, "sub")>>])
}
=============================================================================
