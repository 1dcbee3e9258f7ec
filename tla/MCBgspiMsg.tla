----------------------------- MODULE MCBgspiMsg -----------------------------
(* Small instances of BgspiMsg for TLC. *)
EXTENDS BgspiMsg

\* Two nodes that exchange: each multiple has a send and a receive.
ExchangePair == {"ab", "ba"}
ExchangeSrc  == [p \in ExchangePair |-> IF p = "ab" THEN "a" ELSE "b"]
ExchangeDst  == [p \in ExchangePair |-> IF p = "ab" THEN "b" ELSE "a"]

\* One direction: a multiple of one send, a multiple of one receive.
OneSrc == [p \in {"ab"} |-> "a"]
OneDst == [p \in {"ab"} |-> "b"]
=============================================================================
