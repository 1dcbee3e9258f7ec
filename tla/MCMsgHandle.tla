---------------------------- MODULE MCMsgHandle ----------------------------
(***************************************************************************)
(* Instances of QMPMsgHandle for TLC: programs on one or two nodes.        *)
(***************************************************************************)
EXTENDS QMPMsgHandle, TLC

CONSTANTS n1, n2, h1, h2, h3, h4, r1, r2, r3, r4, b1, b2,
          v1, v2

TwoHandles  == h1 :> n1 @@ h2 :> n1 @@ h3 :> n2 @@ h4 :> n2
TwoRequests == r1 :> n1 @@ r2 :> n1 @@ r3 :> n2 @@ r4 :> n2
NoNeigh     == << >>

\* Absolute sends of n1 to n2 from either buffer.
To(kind, n, p, b) ==
  [kind |-> kind, node |-> n, to |-> p, axis |-> -1, dir |-> 0, base |-> b]
OneWay == {To("send", n1, n2, b) : b \in {b1, b2}}
            \cup {To("recv", n2, n1, b1)}

\* Relative calls.
Rel(kind, n, axis, dir, b) ==
  [kind |-> kind, node |-> n, to |-> n, axis |-> axis, dir |-> dir, base |-> b]

\* One node, its own neighbour both ways on an axis of one; two sends
\* on the same channel, as in examples/QMP_test.c.
Ring1 == [x \in {n1} \X {0} \X {-1, 1} |-> n1]
SelfRing == {Rel("send", n1, 0, 1, b1), Rel("send", n1, 0, 1, b2),
             Rel("recv", n1, 0, -1, b2)}

\* The same node: a send forward and receives from both sides.
BothSides == {Rel("send", n1, 0, 1, b1), Rel("recv", n1, 0, -1, b2),
              Rel("recv", n1, 0, 1, b2)}
AllHandles  == [h \in {h1, h2, h3, h4} |-> n1]
AllRequests == [r \in {r1, r2, r3} |-> n1]

SelfSymmetry == Permutations({h1, h2, h3, h4}) \cup Permutations({r1, r2, r3})
PairSymmetry == Permutations({h1, h2}) \cup Permutations({h3, h4})
                  \cup Permutations({r1, r2}) \cup Permutations({r3, r4})
                  \cup Permutations({v1, v2})
=============================================================================
