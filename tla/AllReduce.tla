----------------------------- MODULE AllReduce ------------------------------
(***************************************************************************)
(* What a sum over all ranks promises, in a job that may be restarted: a    *)
(* rank that calls it gets, once every rank has called it as often, the     *)
(* numbers all ranks gave in that call, each added exactly once, and none   *)
(* of another call or of an earlier job.                                    *)
(*                                                                         *)
(* A number is abstracted to the contributions that were added up to get    *)
(* it: "of" holds those added at least once and "twice" those added more    *)
(* than once.  What is shown holds for every value of the numbers, up to    *)
(* the rounding that the order of the additions changes.                    *)
(***************************************************************************)
EXTENDS Integers

CONSTANTS Rank, None

VARIABLES
  job,    \* the jobs so far
  given,  \* given[p]: the calls p has made in this job
  got,    \* got[p]: the calls that have returned
  res     \* res[p]: what the last call returned, None during a call

\* The number p passes to its k-th call in job j.
Own(j, p, k) == [of |-> {<<j, p, k>>}, twice |-> {}]

\* The sum over the ranks of P of what they passed to the k-th call.
Total(j, P, k) == [of |-> {<<j, p, k>> : p \in P}, twice |-> {}]

Init ==
  /\ job = 1
  /\ given = [p \in Rank |-> 0]
  /\ got   = [p \in Rank |-> 0]
  /\ res   = [p \in Rank |-> None]

Give(p) ==
  /\ got[p] = given[p]
  /\ given' = [given EXCEPT ![p] = @ + 1]
  /\ res' = [res EXCEPT ![p] = None]
  /\ UNCHANGED <<job, got>>

Get(p) ==
  /\ got[p] # given[p]
  /\ \A q \in Rank : given[q] >= given[p]
  /\ got' = [got EXCEPT ![p] = given[p]]
  /\ res' = [res EXCEPT ![p] = Total(job, Rank, given[p])]
  /\ UNCHANGED <<job, given>>

Restart ==
  /\ job' = job + 1
  /\ given' = [p \in Rank |-> 0]
  /\ got'   = [p \in Rank |-> 0]
  /\ res'   = [p \in Rank |-> None]

Next == Restart \/ \E p \in Rank : Give(p) \/ Get(p)

vars == <<job, given, got, res>>

Spec == Init /\ [][Next]_vars
=============================================================================
