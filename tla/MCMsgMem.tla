------------------------------ MODULE MCMsgMem ------------------------------
(* Small layouts, with ints of four bits.                                  *)
EXTENDS QMPMsgMem

Block == [blksize : 1 .. 3, nblocks : 0 .. 3, stride : {-2, 1, 2, 3, 5, 7}]
At(b, base) == [base |-> base, blksize |-> b.blksize, nblocks |-> b.nblocks, stride |-> b.stride]

MCCalls ==
  {[op |-> "user", base |-> 0, nbytes |-> n] : n \in {0, 1, 7, 8, 15}}
  \cup {[op |-> "strided", base |-> 4, blksize |-> b.blksize, nblocks |-> b.nblocks,
         stride |-> b.stride] : b \in Block}
  \cup {[op |-> "array", part |-> <<At(b, 3)>>] : b \in Block}
  \cup {[op |-> "array", part |-> <<At(b, 1), At(c, base)>>] : base \in {0, 12},
          b \in [blksize : 1 .. 2, nblocks : 0 .. 2, stride : {-2, 2, 3}],
          c \in [blksize : 1 .. 2, nblocks : {1, 2}, stride : {1, 3}]}
  \cup {[op |-> "indexed", base |-> 2, blocklen |-> l, index |-> x, elemsize |-> e] :
          l \in [1 .. 2 -> 0 .. 2], x \in [1 .. 2 -> 0 .. 3], e \in 1 .. 2}
=============================================================================
