# QMP: TLA+ models and proofs

QMP is the message-passing library of lattice QCD programs: a small uniform API
(`include/qmp.h`) over MPI (`lib/mpi/`), over MPI with the SPI messaging layer
of Blue Gene/Q (`lib/bgspi/`), or over nothing (a single node).  This directory
holds TLA+ models of the library, the TLC runs that check them and theorems
checked by TLAPS.

## The system

| Part | State | Operations | What is hard, what makes it correct |
|---|---|---|---|
| Message handles (`lib/QMP_mem.c`, `QMP_comm.c`, `lib/mpi/QMP_mem_mpi.c`, `QMP_comm_mpi.c`) | per handle: type, `num`, `activeP`, peer, address, `next` list, the MPI request and, for a multiple, a copy of its members' requests | declare send/receive, combine, change address, start, test, wait, free | several nodes start and wait in any order; MPI may copy a message early or late; copies of requests must stay in step with their handles; a buffer may be handed back only when its transfer is over |
| Message memory (`QMP_mem.c` 9-255, `lib/mpi/QMP_mem_mpi.c`) | aligned blocks; contiguous, strided, strided-array and indexed layouts, each with an MPI datatype and arrays of its own | allocate, declare, free | sizes and offsets kept in an `int`; the same bytes must be sent whatever shortcut a declaration takes and whichever transport carries them; every part must be freed |
| Logical topology (`QMP_topology.c`, `QMP_topology_mpi.c`) | dimensions, map of axes, coordinates, neighbour tables of a communicator | declare, convert coordinates and node numbers | collective, with barriers on the default communicator whatever communicator is declared; conversions inverse to each other; neighbours mutual, also on axes of one or two nodes |
| Grid layout (`QMP_grid.c`) | the subgrid, a static of the library; the search's squares and remaining nodes | lay a lattice out on the machine | greedy factorisation with a table of primes; gives up only when it must; declares a topology, or has to fit one that is there |
| Communicators (`QMP_split.c`, `QMP_init.c`) | allocated, job and default communicators, those of the program | split, free, set default | three collective calls; the struct is pointed to before it is complete; members must agree about ranks, colours and topology |
| Collectives (`QMP_comm.c`, `QMP_comm_mpi.c`) | the user's binary reduction function | barrier, broadcast, all-to-all, sums, extrema, exclusive or, binary reduction | some are taken in a wider type and converted back; MPI adds in any order, and every addition rounds; the user's function is called without a length |
| Initialisation (`QMP_init.c`) | the command line, `QMP_args`, the machine description | take arguments out, `-qmp-nmpi`, `-qmp-geom`, `-qmp-job`, maps, abort | options of variable length between the program's own arguments; processes that are left over must take part in a split before they exit; jobs must be blocks of the machine |
| Blue Gene/Q matching (`QMP_declare_multiple_bgspi`, `qspi_prepare`) | per member: whether it goes through SPI and where its other end is | exchange handshakes and addresses over MPI, at the second `QMP_start` | blocking sends and receives in an order every node works out for itself; both ends must agree who is paired with whom |
| Blue Gene/Q messages (`lib/bgspi/QMP_comm_bgspi.c`, `QMP_mem_bgspi.c`, `qspi_start` and `qspi_wait` of `qspi.c`) | per member: the SPI message and its counter, the clear-to-send message and its last value | clear to send, start, test, wait, free | a remote write of the clear-to-send word races with the sender's reset of it; data may be put only into a buffer its owner has offered |
| Blue Gene/Q node-local reduction (`lib/bgspi/qspi.c`) | a shared-memory object per node: `count`, `ranksonnode`, `done[]`, `sum[]`; the collective counter and result of rank 0 | start-up token, sum, shutdown token | busy-waiting on plain flags over many rounds; a round counter that wraps; an object that a job which was cut off leaves behind |
| Errors, timing, profiling, machine queries, C++ wrapper | - | - | formatting and getters |

The program calls the handles' operations on each node; handles name their peer
by rank or by the topology's neighbour table; MPI matches what the nodes
started.  Handles of different nodes interact only through MPI.  Start-up,
splitting, topologies and layout are local steps between collective calls: what
they interact through is the order in which every node makes those calls.  The
node-local reduction of Blue Gene/Q is apart from both: it uses shared memory and the
messaging unit instead of MPI.  `QMP_init_msg_passing` and `QMP_finalize_msg_passing`
set it up and take it down, but no hook of `QMP_P_BGSPI.h` refers to
`qspi_sum_double` and nothing in the library calls it, so that the sums of
`QMP_comm.c` go through MPI on Blue Gene/Q too: what is modelled is the function as
a program that includes `qspi.h` may call it.

## Modules

| Module | What it is |
|---|---|
| `QMPMsgHandle` | the message handles of all the nodes of a communicator, over MPI; the program is arbitrary: any node may at any time make any call whose use the library allows |
| `QMPMsgHandle_proofs` | theorems about it, for every program of library calls |
| `QMPMsgHandle_calls` | theorems about programs that leave out certain calls: the state of the handles, and what the messages carry |
| `BgspiMsg` | starting, testing, waiting, clear-to-send and freeing of paired messages that go through the messaging unit of Blue Gene/Q |
| `BgspiMsg_proofs` | theorems about it, for any number of nodes, pairs and rounds |
| `BgspiPairing` | how the two ends of those messages find each other |
| `BgspiPairing_proofs` | theorems about it, for any number of nodes and members |
| `AllReduce` | what a sum over all ranks promises, in a job that may be restarted |
| `QspiSum` | the sum of Blue Gene/Q through shared memory and the messaging unit, with the two tokens around it; implements `AllReduce` |
| `QspiSum_proofs` | theorems about it, the refinement among them |
| `QMPTopology` | coordinates, node numbers, neighbours and the choices of the layout search, as operators |
| `QMPLayout` | the layout search as it runs, on the operators of `QMPTopology` |
| `QMPLayout_proofs` | theorems about it and about `QMPTopology` |
| `QMPCollective` | the collective calls of all nodes over MPI, as the items of an agenda |
| `QMPStartup` | `QMP_init_msg_passing` of all nodes with its command line, communicators, topologies, and a program after it; extends `QMPCollective` and `QMPTopology` |
| `QMPStartup_stages` | where a node is in the start and what has been settled there: the invariant `StageInv` |
| `QMPStartup_proofs` | theorems about all three, for any number of processes, command lines and programs |
| `QMPMsgMem` | memory and message memory, the MPI datatypes and the Blue Gene/Q pieces made of it |
| `QMPMsgMem_proofs` | theorems about it |
| `MCMsgHandle`, `MCBgspiMsg`, `MCBgspiPairing`, `MCQspiSum`, `MCStartup`, `MCMsgMem`, `MCLayout` with `MC*.cfg` | small instances for TLC |

The two Blue Gene/Q modules follow each other: `BgspiPairing` ends where
`Init` of `BgspiMsg` begins, in the second `QMP_start` of every node, with each
send member matched with one receive member.  A member that is not matched
stays with MPI and is a handle of `QMPMsgHandle`.  What such a member transfers
is one of the message memories of `QMPMsgMem`, whose `SpiSendsTheSame` says that
the two transports carry the same bytes.  `QMPStartup` runs the layout search of
a job as one step; `QMPLayout` takes it apart.

### QMPMsgHandle

| Variable | In the code |
|---|---|
| `mh[h]` | the `QMP_msghandle_struct` at address `h`: `type`, `num`, `activeP`, peer node (`srce_node` or `dest_node`), `axis`, `dir`, `base`; type "free" when nothing is allocated there |
| `chain[h]` | the handles on the `next` list of a multiple (the order of the list is irrelevant to MPI_Startall and MPI_Waitall, and a set is kept) |
| `request[h]` | `mh->request` |
| `request_array[h][k]` | the entry of `mh->request_array` copied from member `k` |
| `req`, `sent`, `posted`, `wire` | MPI: persistent requests; per channel (source, destination, tag) what each started send carried and which receives were started; messages copied out of the sender's buffer and not delivered yet |
| `mem`, `lent`, `waiting` | the program: buffers, those it may not touch because QMP has them, and the handle whose `QMP_wait` blocks |
| `stop` | whether an assertion or an MPI error has ended the job |

Each action is one call of the library with the MPI hooks it runs:
`Declare`, `DeclareMultiple`, `Free`, `ChangeAddress`, `ChangeAddressMultiple`,
`Start`, `IsComplete`, `BeginWait`/`EndWait`, `WaitMember` (QMP_wait of a member
of a started multiple), `Misuse` (calls whose assertion fails).  `Write` is the
program storing into a buffer it owns.  `Buffer`, `Deliver` and `Transfer` are
MPI's progress: a standard-mode send may be copied out before the receive is
started or go across when both are, and the n-th send of a channel meets its
n-th receive.  MPI is not under `src/`; these actions are modelled from the
calls the hooks make and are marked external.

What the library leaves to its callers is in the guards: idle handles are freed,
re-addressed and combined; the members of a multiple are not started one by one
while the multiple is active; a buffer in use is not used again.

Links: `LinkOf` records, as a ghost, the link of the logical grid (source,
destination, axis, direction of travel) that a declare call meant, so that
`RightDirection` can say that the MPI tag told two links apart.

### BgspiMsg

| Variable | In the code |
|---|---|
| `pc[m]`, `cur[m]`, `testing[m]` | where node `m`'s program is: between two calls (`started`, `idle`, `freed`) or in the loops of `QMP_start_bgspi` (`recvs`, `sends`, `reap`, `lower`) and `QMP_wait_bgspi` (`members`, `drain`) and at which member; in `QMP_is_complete_bgspi` rather than `QMP_wait` |
| `mcts[m]` | `mh->clear_to_send` of the multiple |
| `sact[p]`, `ract[p]`, `scts[p]`, `rcts[p]` | `m->activeP` and `m->clear_to_send` of the send and the receive member |
| `scnt[p]`, `rcnt[p]` | the counters that `qspi_wait` of the sender's `qspicts` and the receiver's `qspimsg` poll |
| `ctsOut`, `ctsNet`, `ctsLanded`, `dataOut`, `dataNet` | the messaging unit: descriptors injected, packets in the network, stores not counted yet |
| `sbuf[p]`, `rbuf[p]` | which round's data the two buffers hold |
| `offered[p]` | whether the receive buffer is QMP's: from the clear-to-send or the start to the return of `QMP_wait` |

A put is three steps of the unit: it reads memory (`CtsRead`, `DataRead`), the
packet is stored (`CtsStore`, `DataStore`), and a counter is decremented
(`CtsCount`; for data the store and the count are one step, because nothing
reads the buffer before the count).  The unit is external.  The steps of the
library are those between which the other node or the unit can interfere:
`StartRecvs`, `SendData`, `Reap` (qspi_wait of the sender's clear-to-send),
`Lower`, `EndStart`, `BeginWait`, `WaitRecv`, `DrainRecv`, `WaitSend`,
`EndWait`, `ClearToSend`, `Free`.  The polling order of the members is free, as
the loops skip members that are not ready; `qspi_wait` inside a member is not
left until its counter is down.

`clear_to_send` is a plain `int` that the unit writes and the loop at
`QMP_comm_bgspi.c:213` polls; the model takes it to be read afresh, which the
call of `qspi_start` or `qspi_wait` in the loop does not force.

The program is fixed up to its choices: `Rounds` rounds of start and wait or
test, `QMP_clear_to_send` after the rounds in `early`, then free; all handles
or none with clear-to-send disabled.  With it disabled the program has to keep
a sender from overtaking its receiver by itself (`Promised`).

### BgspiPairing

`List[n]` is the list of members of node `n`'s multiple.  The loops over senders and
list (`QMP_comm_bgspi.c:18-25`) go through them in the order `Before`: `dealt[n]` are
those behind node `n`, `Left(n)` the others, of which it is at the first, `Current(n)`.
`Mate` says which member goes with which, and `MateAssumption` what the program has
to declare for the matching to end: a receive for every send, the k-th send from one
node to another going with the k-th receive there, and no node sending to itself.
For any other list some node waits for a handshake that nobody sends.  Nothing in the
steps refers to `Mate`: the nodes find it out.  Per member a node
goes through `SendCount`/`RecvCount` (MPI_Send and MPI_Recv of the number of
pieces; a send member sends first, a receive member receives first) and, when
both ends can place their pieces, two `qspi_prepare`: `Tell` (MPI_Isend of the
address) and `Told` (its MPI_Wait) on the side that is put into, `Learn` on the
other, once for the data and once for the clear-to-send.  `comm` and `world` are
the messages under way on the two communicators; `eager` is whether MPI copies
small messages or makes every send wait for its receive.  The addresses are
abstracted to the identity of the member that owns them.

### QspiSum

| Variable | In the code |
|---|---|
| `pc[p]` | where rank `p = <<node, tcoord>>` is: `start`, `token`, `alloc`, `up` in `qspi_init`; `idle` between sums; `read` to `take` in the branch of `qspi_sum_double` of the other ranks, `gather` to `release` in that of rank 0; `leave` to `ended` in `qspi_finalize` |
| `x[p]`, `dnum[p]`, `nleft[n]`, `cur[n]` | the locals `*x`, `dnum`, `nleft`, `i` |
| `linked[n]` | whether the name of the shared-memory object exists |
| `count`, `ranksonnode`, `done`, `sum` | the members of `shm_t` |
| `inj[n]`, `crcount[n]`, `recv[n]` | the injected descriptor, `collCR->count` and `collCR->recv` of rank 0 |
| `result`, `pending` | the messaging unit: the sum it delivers, and to whom it has not yet |
| `given[p]`, `job`, `usable` | bookkeeping: the sums begun in this job, the jobs so far, whether this job found used objects |

Every read and every write of the shared object is a step of its own (`ReadDone`,
`Put`, `Flag`, `Gather`, `Poll`, `AddIn`, `Clear`, `Bcast`, `Release`, `Await`,
`Take`), so the model has every interleaving of the ranks' memory accesses that
the fences of the code allow: a store is seen after the stores before it, and a
plain read is a fresh one.  The three steps of `AddIn` and `Clear` that the code
writes as statements are in its order.  `Inject`, `AwaitColl` are the calls
around the collective of the unit, which is external (`Combine`, `Deliver`).
`NewJob` may come at any moment: the job is cut off and the next one finds the
objects whose name nobody unlinked, with their contents; `Open` is
`shm_open` and `ftruncate`, which fills only a new object with zeros.

A number is the set of contributions that it is the sum of, with those that were
added twice: the model tells a lost, a doubled and a stale number from the
exact sum for every value of the numbers at once.

### QMPCollective and QMPStartup

Each node has an agenda: the calls that `QMP_init_msg_passing` and then the
program make, in order.  A call of QMP is an item; the step that carries it out
does its local work and, where the code calls MPI, replaces the item by the
collective call and an item for what the code does with the result.  `Enter` and
`Leave` are the two ends of such a call: MPI matches the k-th calls that the
members make on an MPI communicator, whatever they are, and a member leaves when
those it depends on have come.

| Variable | In the code |
|---|---|
| `comm[n][o]` | the `QMP_comm_struct` that node `n` has for the allocated machine `A`, its job `J`, the default `D` and one split by the program `S`: MPI communicator, `num_nodes`, `nodeid`, `ncolors`, `color`, `key`, topology |
| `ptr[n]` | `QMP_allocated_comm`, `QMP_job_comm`, `QMP_default_comm` |
| `argv[n]`, `args[n]` | the command line that is left and `QMP_args` |
| `ictype[n]` | `QMP_machine->ic_type` |
| `hook[n]`, `opInited[n]` | `qmp_user_bfunc`, `op_inited` |
| `status[n]`, `subgrid[n]` | what the last declare or layout returned; the subgrid, with the lattice and communicator it was computed for |
| `entered`, `answers`, `inside`, `reg` | MPI: the collective calls made, their results |
| `log[n]` | the results that the program has got |

| Item | Code |
|---|---|
| `nmpi`, `reduced` | the first half of `process_args`, with the split of `-qmp-nmpi` |
| `parse`, `job`, `geometry` | the rest of it: `GetArg`, `RemoveFromArgs`, `GetColor` |
| `split`, `count`, `colors`, `made` | `QMP_comm_split` between its three collective calls |
| `declare`, `settopo`, `neighbours`, `declare_logical` | `QMP_comm_declare_logical_topology_map` and `QMP_set_topo` between their barriers |
| `layout`, `search`, `subgrid` | `QMP_layout_grid` |
| `reduce`/`back`, `exchange`/`copied`, `binary_reduction`/`unhook` | the collectives of `QMP_comm.c`, with the conversions before and after |

A number is an integer that each type holds to so many significant bits, rounded
to even: by the conversions of `Reduce` and `Back`, and by every addition.
`Reductions` is the set of results that the ways of adding two by two may give,
which differ once an addition rounds.  `SumsAreClose` bounds that difference for each
sum by the type it is added in (`AddedIn`): nothing when that type holds the sum of
the magnitudes, or else the usual bound on the errors of adding up.  `UserReductions` adds what
happens when MPI calls a user's function for a piece of the buffer.

`SetTopo` reads as many lengths, and as much of the map, as it is told to
(`Leading`): the array of a program, or of a repeated option, may be longer.

### QMPMsgMem and QMPLayout

`mem` is the one `QMP_mem_t` and `mm` the one `QMP_msgmem_t` of the program
(objects share nothing, so one at a time is enough), `heap` what is allocated for
the latter, by kind.  `Declare` and `FreeMsgmem` are the four declarations and
`QMP_free_msgmem`, `Allocate` and `FreeMemory` the memory functions; a failing
`malloc` leaves all as it is.  `Datatype` and `Transferred` are the bytes an MPI
request moves, `Pieces` and `PutBytes` those that a paired send of Blue Gene/Q
moves.  An `int` wraps at `IntBits` bits.  `CallsAssumption` says only that a
declaration has arguments of the right types, an array at least one part and an
indexed memory as many lengths as indices.

The offset of a strided send is added up in an `int` from part to part's beginning,
so that `SpiSendsTheSame` asks that every block begin where an `int` reaches from the
beginning of its part (`Near`, `Reached`); how far apart the parts are does not
matter.

`QMPLayout` has the locals of `QMP_layout_grid` as variables: `n`, `k`,
`squaresize`, `nsquares`.  `Divide` is a turn of the loop, `Fail` the return from
inside it, `DeclareLayout` the declaration after it.

## Runs

| Run | Instance | Shows |
|---|---|---|
| `pair` | two nodes, two handles, two buffers and two values each, one channel of at most two messages, re-addressing allowed | `TypeOK`; `DataDelivered`; `ChannelsDrain` |
| `multi` | one node that is its own neighbour, four handles, three requests, two sends on one channel and one receive, nested multiples | `NoMpiError`, `ArrayMirrorsMembers`, `BufferHandedBack` |
| `all_calls` | the same node with a send forward and receives from both sides; every call, those the library aborts on and those its documents allow and its code does not support included | `RequestOwnership`, `RightDirection`, `ChainsWellFormed` |
| `readdress` (violation) | `QMP_change_address_multiple`, then `QMP_start` | `StartStartsMembers` fails |
| `spi_exchange` | two nodes that send to each other, two rounds, every choice of clear-to-send, then free | `TypeOK`, `BufferIntact`, `NoUnsolicitedData`, `NoPutIntoFreed`, `OnlyOvertakingHangs` |
| `spi_lost_cts` (violation) | one direction, two rounds | `ReadyIsHeeded` fails |
| `pairing_ring` | three nodes in a ring, four members each in different orders, one receive that SPI cannot place, MPI copying messages or not | `PairsAreMutual`, `EndsAgree`, `MatchingEnds` |
| `pairing_two` (violation) | two nodes on an axis of two | `LinksMatch` fails |
| `spi_sum` | two nodes of two ranks, three sums, up to three jobs, a counter of two bits | `TypeOK`, `SumIsExact`, `OneAtATime`, `OnlyStaleObjectsHang`, `ReduceSpec` |
| `startup` | four nodes, fourteen command lines and programs | `TypeOK`, `ArgsKept`, `MembersAgree`, `ColoursCounted`, `DefaultIsJob`, `NeighboursMutual`, `JobsAreBlocks`, `LayoutSound`, `SumsAreClose`, `OnlyPartialDeclareHangs` |
| `msgmem` | every small block, pair of blocks and index list, ints of four bits | `AlignedInside`, `WholeOrRefused`, `SpiSendsTheSame`, `OnlyBlocklenLeaks` |
| `layout` | lattices of one and three axes of eight lengths, twenty-nine sizes of machine up to 118 | `SquaresCover`, `FoundWhenPossible`, `NumbersNodes`, `SearchEnds` |

Bounds.  `MaxStarts` bounds the messages of a channel: two are the least for
which one node can be a round ahead of the other.  Four handles and three
requests allow a multiple of a multiple and two handles competing for a freed
request.  Two values tell a stale message from a fresh one.  A node that is its
own neighbour on both sides of an axis has the same tags to tell apart as two
nodes on an axis of two.  Two rounds are the least in which one clear-to-send
can overtake the reset of the other; the theorems about `BgspiMsg` are for any
number.  Three nodes are the least ring in which waiting can go round.

In `spi_sum` two nodes of two ranks are the least with both levels of the sum;
three sums are the least in which a counter of two bits (from -1 to 1) takes
all its values and comes back to one it had while a slower rank still waits for
it; of three jobs the second may find an object that the first used and the third
one that the second left as it found it.  The theorems are for any of these.  In
`startup` four nodes are the least with a
topology of two axes, two jobs and processes left over; the command lines use
every option with those it interacts with, the word `native`, sides that do not
divide, and options between the program's own arguments; the programs split, set the default, declare on part of
the machine, lay out twice, and make each collective call.  The types have 4
(`uint64_t`), 5 (`int`), 3 (`float`), 6 (`double`), 8 (`long double`) and 3
(`unsigned long`) bits.  The four nodes sum floats whose sum is exact in doubles and
depends on the order in floats (7, -12, 20, 10), floats whose sum depends on the order
in doubles too (96, 1, -80, 3), and doubles whose sum is exact in long doubles and
depends on the order in doubles (160, 1, -80, 2).  In `msgmem` the blocks of up to three bytes, the
strides from -2 to 7 and a count of up to three make touching, overlapping, backward and
separate blocks, single and no blocks, and more bytes than an int of four bits
counts.  In `layout` the machines have every number of nodes up to 24, prime
powers, and 59 and 118, whose factor 59 is not in the table of primes.

Deadlock is not checked.  Programs stop calling QMP, and the bounds stop them;
in `BgspiMsg` the lost clear-to-send also hangs the program, which
`OnlyOvertakingHangs` singles out; `BgspiPairing` ends, which `MatchingEnds`
shows it always does; a job of `QspiSum` ends, or hangs on an object that is
stale, which `OnlyStaleObjectsHang` singles out, and so does `QMPStartup` with
`OnlyPartialDeclareHangs`; the search of `QMPLayout` ends, which is `SearchEnds`.
The program of `QMPMsgMem` never has to stop.

Fairness.  In `BgspiMsg`, `LibrarySpec` assumes that the messaging unit works
(weak fairness of every pair's `Unit`) and that a call under way is executed
(of every node's `Inside`: the loops poll for as long as it takes);
`FairSpec` adds that the program makes its next call.  In
`BgspiPairing` every node keeps going (weak fairness of `Step(n)`).  In
`QspiSum` every rank is a running process, so its next step is weakly fair
(`Life(n, t)` and `Local(n, t)` together, `RootStep(n)` for rank 0), and so is the
unit (`Combine`, `Deliver(n)`); `NewJob` has no fairness: a job need not be cut
off.  `QMPStartup` needs only that some process that can go on does
(`WF_vars(Next)`): its agendas are finite and every step shortens what is left of
a node's program, so that progress of the whole is enough.  `QMPLayout` is one
loop that runs.  Strong
fairness is nowhere needed: what a node waits for stays there until it takes it,
the lost clear-to-send excepted; in the start-up token, the flags, the counter
and the shutdown token of `QspiSum` it stays because only the rank that waits
moves on from it.

Refinement.  `ReduceSpec` is `AllReduce` under the mapping of a rank's call that
has returned to `got` and of its `*x` outside a call to `res`.  The shared memory,
the collective and the tokens are steps that the abstract sum does not see; what
it does see is that a rank gets a result only after every rank has given, and gets
the total of the same call.

No liveness of `QMPMsgHandle` beyond `ChannelsDrain` is checked, and no fairness
is assumed there.

## Proofs

`QMPMsgHandle_proofs` proves `TypeCorrect == Spec => []TypeOK`.  `TypeOK` is not
inductive: that the fields of a re-initialised request have their types needs
that individual handles have a peer and a buffer (`SinglesFilled`), that requests
MPI holds are fully described (`RequestsFilled`), and that what is on a `next`
list is an individual handle marked `num = 0` on no other list (`Chained`);
`TypeInv` is their conjunction.

It also proves `OwnershipHolds == Spec => []RequestOwnership`
and `ChainsHold == Spec => []ChainsWellFormed`, for every program of library
calls.  The two invariants hold each other up: freeing a multiple releases the
requests of what is on its list, so that no request is shared afterwards needs
the lists to be disjoint; that the lists hold live handles needs that no handle
on a list can be freed, which the mark `num = 0` prevents.  `HandleInv`
is their conjunction with `TypeInv`, and each action is one lemma.

`QMPMsgHandle_calls` proves what the `multi` run checks, for programs
without the call that `readdress` shows to leave a multiple's copies behind:
`MirrorsHold` (`[]ArrayMirrorsMembers`) and `MpiCallsAreLegal` (`[]NoMpiError`)
for every program without `QMP_change_address_multiple`, and `BuffersHandedBack`
(`[]BufferHandedBack`) for every one that does not wait for a member of a multiple
either.  They are one induction.  That `MPI_Start` meets idle requests needs that
what MPI works on is carried by an active handle (`UseIsActive`), that two handles
which may be started or are active have no leaf in common (`LeavesApart`, from the
lists of `HandleInv`), and that a multiple's copies are current.  That a buffer
comes back in time needs that the buffers of the active handles are lent and
disjoint (`ActiveLent`, `ActiveApart`), so that completing one handle gives back
nothing of another, and that `QMP_wait` returns for a handle that is active still
(`WaitsForOwn`).  Most calls change nothing about an active handle (`Untouched`).

The rest of `QMPMsgHandle_calls` is what becomes of the messages.  `DirectionsKept`
(`[]RightDirection`) is for every program, as long as no two axes of the grid are both
one node wide (`OneAxis`: with two such axes the tags, which do not depend on the
axis, do mix them up); `LinkInv` carries that everything sent on a channel was sent
for one link.  `MessagesDrain` (`[]ChannelsDrain`) is for every program without
`QMP_change_address_multiple`: `PlaceInv` says that the requests MPI works on take
different places of their channels (`PlacedApart`), that a message which has not
arrived is with its sender or on the wire, once (`SentOnce`), and that a receive in
its place is active still (`Awaited`), so that a channel both of whose sides are over
holds nothing.  `DataArrives` (`[]DataDelivered`) leaves out waiting for a member of a
multiple too, which gives a buffer back early: while a send is active its buffer is
as it was at `QMP_start` (`SendKept`), which needs the lent buffers of
`BuffersHandedBack`, and the wire carries what its place was started with
(`WireCarries`).  `StartsMembers` proves the action property that the `readdress`
run sees fail: leaving out the call of that run is enough for it to hold.

`BgspiMsg_proofs` proves `SpiTypeCorrect`, `OnlyOfferedBuffers ==
Spec => []NoUnsolicitedData` and `ReceivedDataStays == Spec => []BufferIntact`.
Neither property is inductive: the sender sees of the receiver only a word that
both write.  `SpiInv` counts instead.  `Sent(p)` and `Drained(p)`
are the rounds whose data the sender has injected and the receiver has taken,
read off the program counters; the puts in flight and the receiver's counter are
their difference, at most one (`PutCount`).  `Credits` says that with
clear-to-send one put of READY pays for one message: it is under way, or in the
sender's word, or spent on a message not yet taken, and all of that
is at most one, and none unless the receiver has offered its buffer.
Overtaking can only lose a credit, which is why it threatens liveness and not
safety.  `Promises` plays that part when clear-to-send is disabled.
The one assumption is `PairAssumption`: every pair has a sender and a receiver.

`FreedIsQuiet == Spec => []NoPutIntoFreed` is next.  The data are
accounted for by `SpiInv`; what is left are the clear-to-send puts, whose counter
the sender polls and resets while the next put may be under way.  `Announced(p)`
counts the puts the receiver has injected and `Reaped(p)` the resets, both read off
the program counters; puts under way and those counted since the last reset are at
most the difference (`CtsCounted`: at most, because a reset forgets a put it did
not wait for).  When a sender frees it has reset once for every
put, the one announced after its last round included (`LastReaped`, from
`QMP_free_msghandle`'s test of the field), so nothing is under way.

`BgspiPairing_proofs` proves `PairingTypeCorrect == Spec => []TypeOK`, `PairsMutual ==
Spec => []PairsAreMutual` and `EndsAgreeAfter == Spec => []EndsAgree`, from the
module's two assumptions alone (for `TypeOK` no run is needed besides).  No node sees another's position, and the messages
carry no name of the member they are for: a number of pieces on `comm`, an address on
`world`.  What keeps the nodes together is that both ends of a pair of nodes go
through their members in mated order (`MateIsFirst`): the senders of a node's members
decide the order on either side, and equal senders leave it to the lists.  So the
messages on a channel are, in order, those of the members that have sent and whose
mates have not received (`Carry`, `OnWay`), and the oldest of them is for the member
its receiver has come to (`Received`).  `PairInv` says that of both communicators,
with `Stage(e)` where end `e` is; the rest of it is what an end knows at each stage
(`Heard`, `Learned`) and that both ends come to the same decision (`Decided`,
`Agreed`), because each sees both numbers.  TLC checks `PairInv` on three nodes in a
ring and on two.

`QspiSum_proofs` proves `SumExact == Spec => []SumIsExact`,
`TokenIsExclusive == Spec => []OneAtATime`, `SumTypeCorrect == Spec => []TypeOK` and
`ImplementsAllReduce == Spec => ReduceSpec`, for any numbers of nodes, ranks,
sums and jobs and any range of the counter with at least two values, from
`SumAssumption`.  None is inductive.  `IInv` says where the ranks of a node can be
relative to its rank 0: `Up(n, t)` is the rank that has raised its flag for the sum
rank 0 is at; every other rank is at that sum too, or behind it and about to take
its result (`OtherInv`).  The flag of a rank is up only in the first case
and lowered only by rank 0, so `Todo(n)`, those not added yet, shrinks by one
at a time while `*x` of rank 0 is the sum of the rest (`RootInv`).  That the counter
wraps does no harm, because a rank is never more than one behind: it waits for
`done[0]` to leave a value, not to get past one (`Increment(d) # d` is all
that is used).  `CollInv` counts the sums that have been combined: the same for
all nodes.  `TokenInv` and `CleanInv` carry all that across jobs: whatever an
old object holds, nobody enters a sum before all ranks of all nodes have passed the
token, and with a token count below `N` no flag can be up, so the sum is
exact or the job hangs before it begins.  `AllGave`, that nobody is behind what has
been combined, is what the refinement adds.

`QMPLayout_proofs` proves, for every set of lattices and machines and from
`LayoutAssumption`, what the `layout` run checks but its ending.

`LayoutCovers == Spec => [](TypeOK /\ SquaresCover)`: the choices of `PrimeFrom` and
`AxisToDivide` are shown to exist (`Least`, `Greatest`, by the well-foundedness of the
finite subsets) and to be an entry of the table and an axis it divides.

`LayoutFound == Spec => []FoundWhenPossible` says when the greedy search succeeds:
exactly if the number of nodes has no prime factor above 53 and divides the number of
sites.  `SearchInv` is the invariant: with such a number of nodes, what is left times
the squares is that number, and no prime that the search has passed divides what is
left.  If it gives up on a prime, the prime divides what is left and so the product of
the square sizes (the nodes divide the sites), and then one of them (`PrimeOfProduct`,
from `PrimeDivides`, Euclid's lemma for the primes of the table), which contradicts
giving up (`GivesUpRightly`).  That success is only possible there needs the converse,
that squares made of primes of the table have no other prime factors (`SmoothTimes`).

`LayoutNumbersNodes == Spec => []NumbersNodes`: the divisions of `get_coord` leave
nothing of a number below the product of the lengths (`NothingRemains`), in whatever
order the map takes the axes (`OrderIndifferent`: a product does not depend on it), so
that `get_rank` finds the number again from the remainders (`CoordinateIs`,
`NumberIs`).

`QMPMsgMem_proofs` proves `AlignmentHolds == Spec => []AlignedInside`, for every
size, alignment and address, and `OnlyBlocklenLeft == Spec => []OnlyBlocklenLeaks`,
for every sequence of declarations, from `SizesAssumption` and `CallsAssumption`.
The latter needs that what is allocated for a live message memory is exactly what
its type says, or the leak before it.

It also proves `CarriesWhatIsDeclared == Spec => []WholeOrRefused` and
`PutsWhatMpiSends == Spec => []SpiSendsTheSame`, for declarations of any sizes and
any number of parts, blocks or indices.  They are about values, not about states:
that the live message memory is that of its call (`Declared`) is all they need of the
steps.  The bytes of `n` blocks have a closed form (`BlockBytes`); `BlocksOfIs`,
`VectorIs`, `OneRun` and `StridedPiecesAre` show that what a declaration asks for, the
MPI vector, the shortcut for touching blocks and the offsets added up in an `int` are
that form, and `JoinedShift` and `BytesJoined` carry it to arrays of parts.  An
induction over the parts of a sequence is one over a set of numbers (`Induction`,
from the least element of a set, `Least`), and a recursive function is shown to exist
before it is used (`PrefixesExist`, `OffsetsAre`); the induction theorems of the
library, which take an operator, are not needed.

`QMPStartup_proofs` proves `StartupTypeCorrect == Spec => []TypeOK`: for any number of
processes, any command lines and any programs made of the calls of `ProgramCall`, a
node's rank in each communicator that it has is below the communicator's number of
nodes.  All that is assumed is `StartupAssumption`: the processes are numbered from 0,
the words of a command line and the calls of a program are sequences, and a program
splits communicators off into one of its own.  `StartupInv` says of each node what its
agenda can look like (`AgendaOK`: what uses the result of an MPI call comes right behind
it; the command line is read before anything else), what it is waiting in
(`InsideOK`), that a result that is about to be used is there (`ResultsOK`) and that
what it is splitting off is not complete yet.  The rank in a communicator that was split
off is a place in its group: `SplitGood` shows that ordering the members of a colour by
key and rank gives each its own place (`Places`) and that the node is among them, which
needs that all members have come to the same split (`ShareGood`, from `Leave`).  A
process that `-qmp-nmpi` leaves over has a rank that is too large and nothing left to
do (`AllocOK`); that the number it is compared with is one needs that `get_arg` returns
only what it read as numbers (`GivesNumbers`).

It also proves `StartMembersAgree == Spec => []MembersAgree` and
`StartDefaultIsJob == Spec => []DefaultIsJob`, from the same assumption.  Neither is
inductive, nor follows from `StartupInv`, which says nothing of one node's calls next to
another's.  `StageInv` (`QMPStartup_stages`) adds where each node is in the start, read
off its agenda, and what it has settled by then:

| Stage | Where the node is | Settled |
|---|---|---|
| `LeftOver` | out of the job, or left over by `-qmp-nmpi` | it has neither job nor default |
| `Starting`, `Reducing` | before and in the split of `-qmp-nmpi` | it has called nothing but that split |
| `Reading` | up to `QMP_comm_split` of the job | the allocated communicator, on which it has made no split |
| `DividingJob` | in that split | as before |
| `Placing` | declaring the job's topology | the job (`SplitOff`), on which it has made no split |
| `DividingDef` | in the split of the default | as before |
| `Running` | in the program | both, for good: the program splits into a communicator of its own |

`SplitOff` says that a communicator is what the *first* split the node called on the
parent gave, and that all members of the parent have called a split in the same turn,
with the arguments that its group is made of.  This is what two nodes can be compared
by: each has called a split in the turn that was the other's first, so the turns are one
(`SameTurn`), the arguments are one list, and the communicators are equal exactly when
the colours are (`SplitAgreed`).  That a split is the first is an invariant because
nothing is called on a communicator before it is there: the names of communicators
record the splits they come from, and a node has called nothing on a longer name than
its stage allows (`Shallow`, `TooLong`).  For the default communicator it remains that
all members of the job call with colour and key 0 (`ZeroArgs`, which goes through the
stages of the other member) and that numbering the members by their rank is what
`SplitGroup` then does (`SplitWhole`, `BelowRank`).  Calls and answers are only added to
(`Grows`, `Keeps`), so what is settled stays so when another node moves (`AllocStays`,
`SplitOffStays`, `DividingStays`); what is left is one lemma for each stage and each step
of the node itself (`OwnStep`).  With `INVARIANT StageInv` in its configuration TLC finds it true of the
`startup` instance (`MCStartup` extends `QMPStartup_stages`).

What is only model-checked: everything about liveness, which is out of the prover's
reach, and the other invariants of `QMPStartup`.  `NeighboursMutual`, `JobsAreBlocks`
and `LayoutSound` compare what several nodes have declared, or what one has declared at
different times: they hold of programs whose members declare alike, as those of the
instance do, and not of any program.  `ArgsKept` compares with the arguments each
scenario says are the program's own.  `ColoursCounted` and `SumsAreClose` are about sums
over a set of nodes, folds that the prover could only follow by an induction over data.

## Divergences found

With a run:

* `QMP_change_address_multiple` re-creates the members' MPI requests but not the
  multiple's copies (`lib/mpi/QMP_mem_mpi.c:174`), so the next `QMP_start` starts
  freed requests (`readdress`).
* On Blue Gene/Q the sender lowers clear-to-send after injecting its data and
  may erase the receiver's next announcement; the next `QMP_start` then spins for
  ever (`lib/bgspi/QMP_comm_bgspi.c:230`, `spi_lost_cts`).
* On an axis of two nodes the matching of pairs looks at the remote node only and
  may join a send in one direction to the receive of the other
  (`lib/bgspi/QMP_comm_bgspi.c:45`, `pairing_two`).

In the models, without a run of their own:

* `doc/MessageAPI.htm:1181` allows waiting for one member of a started multiple;
  the code returns at once, because the member's own `activeP` is not set.
* `include/qmp.h:828` says freeing a multiple does not free its members; it does.
* The tag of a relative message does not depend on the axis (against
  `include/qmp.h:738`), so a node that is a
  neighbour on two axes may get the wrong one's message.
* `QMP_is_complete` of a message that goes through SPI waits for it, against
  `include/qmp.h:891`.
* `QMP_sum_double_extended` adds in doubles (`lib/QMP_comm.c:335`), against
  `include/qmp.h:977`; `QMP_comm_sum_double_extended` adds in long doubles.
* The sum of an array of `long double` is handed to MPI as an array of doubles
  (`lib/mpi/QMP_comm_mpi.c:202-203`, against `include/qmp.h:1013`); `AsMpi` makes
  garbage of it.
* A binary reduction gives MPI `count` elements of one byte and an operation that
  ignores how many it is called for (`lib/mpi/QMP_comm_mpi.c:296`, `:327`): MPI may call
  it for a piece of the buffer, and the user's function works on the whole length
  from there (`UserReductions`).  Where MPI does not cut the buffer the result is
  right, but `include/qmp.h:1065` does not leave that to MPI.
* A topology is declared with barriers on the default communicator
  (`lib/QMP_topology.c:104`), whatever communicator it is for: members of a split
  communicator that declare on their own wait for ever, which
  `OnlyPartialDeclareHangs` allows and nothing else.
* A job that stopped early leaves the shared-memory object of its node behind, and
  the next one hangs in the start-up token (`lib/bgspi/qspi.c:143`), which
  `OnlyStaleObjectsHang` allows and nothing else; it never gives a wrong sum.
* `QMP_free_msgmem` does not free the block lengths of an indexed message memory
  (`lib/QMP_mem.c:243`, `OnlyBlocklenLeaks`).
* The comment at `lib/QMP_grid.c:76-79` says the first of equally long axes is
  divided; it is the last when none has been divided yet.
* With `-qmp-nmpi` the split communicator's `num_nodes` is the argument, also when
  there are fewer processes (`lib/QMP_init.c:228`); the runs ask for no more than
  there are.  `QMP_machine` keeps the old number of nodes.
* An option that is given twice is taken out of the arguments once
  (`lib/QMP_init.c:114-162`); `ArgsKept` is about command lines that give each once.
* The subgrid of `QMP_layout_grid` is a static: it stays that of the communicator
  it was computed for when the default changes.

## Not modelled

* Members of a Blue Gene/Q multiple that stay with MPI inside it, and the retry
  when an injection FIFO is full, inside `BgspiMsg`.
* The hardware set-up of `qspi_init` and the arithmetic of SPI addresses: register
  and table values that nothing in the repository depends on otherwise.
* The error codes that MPI returns (MPI's default is to abort), and the `malloc`s
  inside declarations whose result the code does not look at.
* The single-node build, whose hooks are empty.
* Error strings, printing, timing and profiling, the getters of the physical
  geometry, which is never set over MPI, and the C++ wrapper, which forwards: they
  keep no state a property could be about.
* The programs under `examples/`: they are callers, and the calls they make are
  among those of `QMPMsgHandle` and `QMPStartup`.
