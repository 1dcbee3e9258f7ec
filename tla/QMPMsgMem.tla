----------------------------- MODULE QMPMsgMem ------------------------------
(***************************************************************************)
(* Memory and message memory (QMP_mem.c 9-255): aligned memory, and the     *)
(* descriptions of what a message consists of, which mpi/QMP_mem_mpi.c      *)
(* turns into MPI datatypes and bgspi/QMP_comm_bgspi.c into pieces for the  *)
(* messaging unit.                                                         *)
(*                                                                         *)
(* An address is an integer; an int of C has IntBits bits and wraps when a  *)
(* wider number is stored in it.  The program has one memory or message     *)
(* memory at a time: they share nothing.                                   *)
(***************************************************************************)
EXTENDS Integers, Sequences, FiniteSets

CONSTANTS
  IntBits,    \* the width of an int
  Addresses,  \* what malloc may return
  Sizes,      \* sizes of memory the program asks for
  Alignments, \* and its alignments; 0 for none
  Calls,      \* the declarations of message memory that the program makes
  None

ASSUME SizesAssumption ==
  /\ Sizes \subseteq Nat /\ Alignments \subseteq Nat /\ Addresses \subseteq Nat
  /\ 2 ^ IntBits \in Nat \ {0}

VARIABLES
  mem,   \* a QMP_mem_t, None for NULL: the address malloc gave and the aligned one
  asked, \* history: the size and the alignment asked for
  mm,    \* a QMP_msgmem_t
  call,  \* history: the call that declared it
  heap   \* what is allocated for it

vars == <<mem, asked, mm, call, heap>>

-----------------------------------------------------------------------------
(* Aligned memory.                                                         *)

\* Mutant: the address is rounded down.
MutantRoundedDown(p, a) == IF a = 0 THEN p ELSE (p \div a) * a

Aligned(p, a) == IF a = 0 THEN p ELSE ((p + a - 1) \div a) * a

\* QMP_allocate_aligned_memory; QMP_allocate_memory asks for an alignment of 64.
Allocate(nbytes, alignment) ==
  /\ mem = None /\ mm = None
  /\ \/ \E p \in Addresses :
          /\ mem' = [allocated |-> p, size |-> nbytes + alignment, aligned |-> Aligned(p, alignment)]
          /\ asked' = [size |-> nbytes, alignment |-> alignment]
     \/ UNCHANGED <<mem, asked>>       \* either malloc fails
  /\ UNCHANGED <<mm, call, heap>>

\* QMP_free_memory.
FreeMemory ==
  /\ mem # None
  /\ mem' = None /\ asked' = None
  /\ UNCHANGED <<mm, call, heap>>

-----------------------------------------------------------------------------
(* Message memory.                                                         *)

\* A number stored in an int.
ToInt(x) ==
  LET m == 2 ^ IntBits
      r == x % m
  IN IF 2 * r < m THEN r ELSE r - m

Total(s) == LET f[i \in 0 .. Len(s)] == IF i = 0 THEN 0 ELSE f[i - 1] + s[i] IN f[Len(s)]
Joined(s) ==
  LET f[i \in 0 .. Len(s)] == IF i = 0 THEN <<>> ELSE f[i - 1] \o s[i] IN f[Len(s)]
Interval(first, n) == [i \in 1 .. n |-> first + i - 1]

\* QMP_declare_msgmem.
UserBuf(base, nbytes) == [type |-> "user", mem |-> base, nbytes |-> ToInt(nbytes)]

\* Mutant: blocks that touch are not told from blocks that overlap.
MutantTouching(base, blksize, nblocks, stride) ==
  IF stride <= blksize \/ nblocks = 1 THEN UserBuf(base, blksize * nblocks)
  ELSE [type |-> "strided", mem |-> base, nbytes |-> ToInt(blksize * nblocks),
        blksize |-> blksize, nblocks |-> nblocks, stride |-> stride]

\* QMP_declare_strided_msgmem.
Strided(base, blksize, nblocks, stride) ==
  IF stride = blksize \/ nblocks = 1 THEN UserBuf(base, blksize * nblocks)
  ELSE [type |-> "strided", mem |-> base, nbytes |-> ToInt(blksize * nblocks),
        blksize |-> blksize, nblocks |-> nblocks, stride |-> stride]

\* QMP_declare_strided_array_msgmem: each part has base, blksize, nblocks, stride.
StridedArray(part) ==
  IF Len(part) = 1
  THEN Strided(part[1].base, part[1].blksize, part[1].nblocks, part[1].stride)
  ELSE [type |-> "array", mem |-> part[1].base,
        nbytes |-> ToInt(Total([i \in DOMAIN part |-> part[i].blksize * part[i].nblocks])),
        disp |-> [i \in DOMAIN part |-> part[i].base - part[1].base], part |-> part]

\* QMP_declare_indexed_msgmem.
Indexed(base, blocklen, index, elemsize) ==
  [type |-> "indexed", mem |-> base,
   nbytes |-> ToInt(Total([i \in DOMAIN blocklen |-> elemsize * blocklen[i]])),
   blocklen |-> blocklen, index |-> index, elemsize |-> elemsize]

Msgmem(c) ==
  CASE c.op = "user"    -> UserBuf(c.base, c.nbytes)
    [] c.op = "strided" -> Strided(c.base, c.blksize, c.nblocks, c.stride)
    [] c.op = "array"   -> StridedArray(c.part)
    [] c.op = "indexed" -> Indexed(c.base, c.blocklen, c.index, c.elemsize)

\* A declaration is one of the four kinds, and NULL is neither a message memory nor bytes.
Part == [base : Nat, blksize : Nat, nblocks : Nat, stride : Int]
ASSUME CallsAssumption ==
  /\ \A c \in Calls :
       /\ \/ c \in [op : {"user"}, base : Nat, nbytes : Nat]
          \/ c \in [op : {"strided"}, base : Nat, blksize : Nat, nblocks : Nat, stride : Int]
          \/ c \in [op : {"array"}, part : Seq(Part) \ {<<>>}]
          \/ /\ c \in [op : {"indexed"}, base : Nat, blocklen : Seq(Nat), index : Seq(Int), elemsize : Nat]
             /\ Len(c.blocklen) = Len(c.index)
       /\ Msgmem(c) # None
  /\ None \notin Seq(Int)

\* What is allocated with a message memory of a type, and what QMP_free_msgmem frees.
Blocks(type) ==
  {"struct"} \cup (CASE type = "user" -> {}
                     [] type = "strided" -> {"mpi_type"}
                     [] type = "array" -> {"mpi_type", "disp", "blksize", "nblocks", "stride"}
                     [] type = "indexed" -> {"mpi_type", "blocklen", "index"})

\* Mutant: the datatype of a strided array is forgotten.
MutantKeepsType(type) ==
  {"struct"} \cup (CASE type = "user" -> {}
                     [] type = "strided" -> {"mpi_type"}
                     [] type = "array" -> {"disp", "blksize", "nblocks", "stride"}
                     [] type = "indexed" -> {"mpi_type", "index"})

Freed(type) ==
  {"struct"} \cup (CASE type = "user" -> {}
                     [] type = "strided" -> {"mpi_type"}
                     [] type = "array" -> {"mpi_type", "disp", "blksize", "nblocks", "stride"}
                     [] type = "indexed" -> {"mpi_type", "index"})

Declare(c) ==
  /\ mem = None /\ mm = None
  /\ \/ /\ mm' = Msgmem(c)
        /\ heap' = heap \cup Blocks(Msgmem(c).type)
        /\ call' = c
     \/ UNCHANGED <<mm, heap, call>>     \* malloc fails
  /\ UNCHANGED <<mem, asked>>

FreeMsgmem ==
  /\ mm # None
  /\ mm' = None /\ call' = None
  /\ heap' = heap \ Freed(mm.type)
  /\ UNCHANGED <<mem, asked>>

Init == mem = None /\ asked = None /\ mm = None /\ call = None /\ heap = {}

Next ==
  \/ \E n \in Sizes, a \in Alignments : Allocate(n, a)
  \/ FreeMemory
  \/ \E c \in Calls : Declare(c)
  \/ FreeMsgmem

Spec == Init /\ [][Next]_vars

-----------------------------------------------------------------------------
(* MPI: a datatype is the displacements of its bytes in the order in which  *)
(* they are sent; None is one that MPI refuses.  Lengths, strides and       *)
(* counts are ints.                                                        *)

Vector(nblocks, blksize, stride) ==
  IF ToInt(blksize) < 0 THEN None
  ELSE [k \in 1 .. nblocks * ToInt(blksize) |->
          ((k - 1) \div ToInt(blksize)) * ToInt(stride) + ((k - 1) % ToInt(blksize))]

\* QMP_declare_msgmem_mpi.
Datatype(m) ==
  CASE m.type = "strided" -> Vector(m.nblocks, m.blksize, m.stride)
    [] m.type = "array" ->
         LET vector(i) == Vector(m.part[i].nblocks, m.part[i].blksize, m.part[i].stride)
             shifted(i) == [k \in DOMAIN vector(i) |-> m.disp[i] + vector(i)[k]]
         IN IF \E i \in DOMAIN m.part : vector(i) = None THEN None
            ELSE Joined([i \in DOMAIN m.part |-> shifted(i)])
    [] m.type = "indexed" ->
         Joined([i \in DOMAIN m.index |->
                   Interval(m.elemsize * m.index[i], m.elemsize * m.blocklen[i])])

\* The bytes that a request for the memory transfers (QMP_declare_send_mpi): so
\* many bytes of a user's buffer, one of any other datatype.
Transferred(m) ==
  IF m.type = "user" THEN IF m.nbytes < 0 THEN None ELSE Interval(m.mem, m.nbytes)
  ELSE IF Datatype(m) = None THEN None
  ELSE [k \in DOMAIN Datatype(m) |-> m.mem + Datatype(m)[k]]

-----------------------------------------------------------------------------
(* Blue Gene/Q: the pieces that a paired send hands to the messaging unit   *)
(* (QMP_declare_multiple_bgspi); an offset is an int.                      *)

Piece(base, size) == [base |-> base, size |-> size]

\* Mutant: the offset goes on from part to part.
MutantOneOffset(base, blksize, nblocks, stride) ==
  [j \in 1 .. nblocks |-> Piece(base + j * stride, blksize)]

\* The offset of a block is the one before it and the stride, stored in an int.
StridedPieces(base, blksize, nblocks, stride) ==
  LET offset[j \in 1 .. nblocks] == IF j = 1 THEN 0 ELSE ToInt(offset[j - 1] + stride)
  IN [j \in 1 .. nblocks |-> Piece(base + offset[j], blksize)]

Pieces(m) ==
  CASE m.type = "user"    -> <<Piece(m.mem, m.nbytes)>>
    [] m.type = "strided" -> StridedPieces(m.mem, m.blksize, m.nblocks, m.stride)
    [] m.type = "array"   ->
         Joined([i \in DOMAIN m.part |->
                   StridedPieces(m.mem + m.disp[i], m.part[i].blksize, m.part[i].nblocks, m.part[i].stride)])
    [] m.type = "indexed" ->
         [i \in DOMAIN m.index |-> Piece(m.mem + ToInt(m.elemsize * m.index[i]),
                                         ToInt(m.elemsize * m.blocklen[i]))]

PutBytes(m) ==
  LET p == Pieces(m) IN Joined([i \in DOMAIN p |-> Interval(p[i].base, p[i].size)])

-----------------------------------------------------------------------------
(* Properties.                                                             *)

\* The bytes a declaration asks for, in order.
BlocksOf(b) == Joined([j \in 1 .. b.nblocks |-> Interval(b.base + (j - 1) * b.stride, b.blksize)])
Wanted(c) ==
  CASE c.op = "user"    -> Interval(c.base, c.nbytes)
    [] c.op = "strided" -> BlocksOf(c)
    [] c.op = "array"   -> Joined([i \in DOMAIN c.part |-> BlocksOf(c.part[i])])
    [] c.op = "indexed" ->
         Joined([i \in DOMAIN c.index |-> Interval(c.base + c.elemsize * c.index[i],
                                                   c.elemsize * c.blocklen[i])])

FitsInt(x) == ToInt(x) = x
Strides(c) == CASE c.op = "strided" -> {c.stride}
                [] c.op = "array" -> {c.part[i].stride : i \in DOMAIN c.part}
                [] OTHER -> {}

\* A message memory is of the type of its description, which a description of one
\* block or of one part may lose.
TypeOK ==
  /\ mem # None => mem.allocated \in Addresses /\ mem.size \in Nat
  /\ heap \subseteq {"struct", "mpi_type", "disp", "blksize", "nblocks", "stride", "blocklen", "index"}
  /\ mm # None => /\ mm.type \in {"user", call.op} \cup (IF call.op = "array" THEN {"strided"} ELSE {})
                  /\ FitsInt(mm.nbytes)
                  /\ Blocks(mm.type) \subseteq heap

\* The memory a program gets has the size and the alignment that it asked for, inside
\* what malloc gave (QMP_mem.c:30-54).
AlignedInside ==
  mem # None =>
    /\ asked.alignment # 0 => mem.aligned % asked.alignment = 0
    /\ mem.allocated <= mem.aligned
    /\ mem.aligned + asked.size <= mem.allocated + mem.size

\* A message carries the bytes that its memory describes, in that order, whatever the
\* shortcuts for one part, one block or touching blocks do; where they are more than
\* an int counts, MPI refuses them, as long as they are less than two to the power of
\* its bits (QMP_mem.c:96, 116-131; mpi/QMP_mem_mpi.c:8-75).
WholeOrRefused ==
  mm # None /\ Len(Wanted(call)) < 2 ^ IntBits /\ (\A s \in Strides(call) : FitsInt(s)) =>
    Transferred(mm) \in {Wanted(call), None}

\* How far the blocks begin from the beginning of their part, in an int.
Near(b) == \A j \in 1 .. b.nblocks : FitsInt((j - 1) * b.stride)
Reached(c) ==
  CASE c.op = "user"    -> TRUE
    [] c.op = "strided" -> Near(c)
    [] c.op = "array"   -> \A i \in DOMAIN c.part : Near(c.part[i])
    [] c.op = "indexed" -> \A i \in DOMAIN c.index : /\ FitsInt(c.elemsize * c.index[i])
                                                    /\ FitsInt(c.elemsize * c.blocklen[i])

\* A paired send puts the bytes that it would send with MPI, as long as every block
\* begins where an int reaches from the beginning of its part (QMP_comm_bgspi.c:58-98).
SpiSendsTheSame ==
  mm # None /\ Transferred(mm) = Wanted(call) /\ Reached(call) => PutBytes(mm) = Wanted(call)

\* QMP_free_msgmem gives back all that declaring allocated, except the block lengths
\* of an indexed memory (QMP_mem.c:234-255).
OnlyBlocklenLeaks == mm = None => heap \subseteq {"blocklen"}
=============================================================================
