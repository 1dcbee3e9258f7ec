--------------------------- MODULE MCBgspiPairing ---------------------------
(* Small instances of BgspiPairing for TLC. *)
EXTENDS BgspiPairing, SequencesExt

Send(n, to, dir, k)   == [kind |-> "send", peer |-> to, nmsg |-> k,
                          link |-> <<n, to, dir>>]
Recv(n, from, dir, k) == [kind |-> "recv", peer |-> from, nmsg |-> k,
                          link |-> <<from, n, dir>>]

\* A ring: every node sends and receives in both directions.  The nodes declare
\* in different orders, and one receive is strided.
Fwd(n, size) == (n + 1) % size
Bwd(n, size) == (n + size - 1) % size
Both(n, size, k) == <<Send(n, Fwd(n, size), "fwd", 1), Send(n, Bwd(n, size), "bwd", 2),
                      Recv(n, Fwd(n, size), "bwd", 1), Recv(n, Bwd(n, size), "fwd", k)>>
Ring3 == [n \in 0 .. 2 |-> CASE n = 0 -> Both(0, 3, 1)
                             [] n = 1 -> Reverse(Both(1, 3, 0))
                             [] n = 2 -> Both(2, 3, 1)]
Ring2 == [n \in 0 .. 1 |-> Both(n, 2, 1)]

\* The k-th send to a node goes with the k-th receive there.
Place(e) == Cardinality({i \in 1 .. e[2] : /\ List[e[1]][i].peer = At(e).peer
                                          /\ List[e[1]][i].kind = At(e).kind})
Pairs == [e \in Ends |-> CHOOSE f \in Ends : /\ f[1] = At(e).peer /\ At(f).peer = e[1]
                                            /\ At(f).kind # At(e).kind
                                            /\ Place(f) = Place(e)]
=============================================================================
