---------------------------- MODULE QMPMsgHandle ----------------------------
(***************************************************************************)
(* Message handles of QMP over MPI: the calls of lib/QMP_mem.c and         *)
(* lib/QMP_comm.c that create, combine, start, test, wait for, re-address  *)
(* and free a QMP_msghandle_t, with the hooks lib/mpi/ installs for them.  *)
(*                                                                         *)
(* Every node runs an arbitrary program of such calls.  MPI is modelled    *)
(* from how the hooks use it: persistent requests, matched in posting      *)
(* order per (source, destination, tag), a send being either copied out    *)
(* early (Buffer) or transferred when both sides are posted (Transfer).    *)
(***************************************************************************)
EXTENDS Integers, Sequences, FiniteSets

CONSTANTS
  Node,        \* the processes of the communicator
  Handle,      \* addresses at which a QMP_msghandle_struct can be allocated
  Req,         \* MPI request objects
  Buf,         \* message buffers (QMP_msgmem_t) of a node
  Data,        \* what a buffer can hold
  None,        \* NULL, MPI_REQUEST_NULL
  HOwner,      \* HOwner[h]: the process in whose memory h lies
  ROwner,      \* ROwner[r]: the process whose MPI library owns r
  Neigh,       \* Neigh[<<n, axis, dir>>]: topo->neigh of node n
  Decls,       \* the declare_send / declare_receive calls the program may make
  Calls,       \* the optional library calls the program may make
  MaxStarts    \* bound: starts per channel and side

TAG_CHANNEL == 11
Tags  == {TAG_CHANNEL - 1, TAG_CHANNEL, TAG_CHANNEL + 1}
Chan  == Node \X Node \X Tags           \* source, destination, MPI tag
Link  == Node \X Node \X Int \X {-1, 0, 1}
                                        \* source, destination, axis, travel
Kinds == {"send", "recv"}

\* A declare call: kind, calling node, the remote node it names when it is
\* absolute (axis = -1, dir = 0), the axis and direction when it is relative.
DeclCall == [kind : Kinds, node : Node, to : Node, axis : Int,
             dir : {-1, 0, 1}, base : Buf]

ASSUME PoolAssumption ==
  /\ IsFiniteSet(Handle) /\ IsFiniteSet(Req)
  /\ HOwner \in [Handle -> Node]
  /\ ROwner \in [Req -> Node]
  /\ None \notin Node \cup Handle \cup Req \cup Buf \cup Chan \cup Link
  /\ MaxStarts \in Nat

ASSUME DeclAssumption ==
  /\ Decls \subseteq DeclCall
  /\ \A d \in Decls : d.axis >= 0 => Neigh[<<d.node, d.axis, d.dir>>] \in Node

VARIABLES
  mh,             \* mh[h]: the QMP_msghandle_struct at h
  chain,          \* chain[h]: the handles on the "next" list of a multiple
  request,        \* request[h]: mh->request
  request_array,  \* request_array[h][k]: the copy made for chain member k
  req,            \* MPI: the request objects
  sent,           \* MPI: per channel, what each started send carried
  posted,         \* MPI: per channel, the started receives
  wire,           \* MPI: messages copied out of the send buffer, undelivered
  mem,            \* mem[n][b]: contents of the buffers
  lent,           \* lent[n]: buffers the program believes are in use by QMP
  waiting,        \* waiting[n]: handle whose QMP_wait has not returned
  stop            \* "no", "assert" (QMP_FATAL) or "mpi" (erroneous MPI call)

handleVars == <<mh, chain, request, request_array>>
mpiVars    == <<req, sent, posted, wire>>
clientVars == <<mem, lent, waiting>>
vars       == <<handleVars, mpiVars, clientVars, stop>>

-----------------------------------------------------------------------------
\* declare_receive_mpi: absolute messages use TAG_CHANNEL, relative ones the
\* tag of their direction; the send side reverses the two.
RecvTag(axis, dir) == IF axis < 0 THEN TAG_CHANNEL
                      ELSE IF dir > 0 THEN TAG_CHANNEL + 1 ELSE TAG_CHANNEL - 1
MutantTagPerAxis(axis, dir)   == TAG_CHANNEL + 2 * axis + (IF dir > 0 THEN 1 ELSE 0)
MutantTagNotReversed(axis, dir) == RecvTag(axis, dir)
SendTag(axis, dir) == IF axis < 0 THEN TAG_CHANNEL
                      ELSE IF dir > 0 THEN TAG_CHANNEL - 1 ELSE TAG_CHANNEL + 1

\* The remote node of a declare call: named, or a neighbour of the grid.
Peer(d) == IF d.axis < 0 THEN d.to ELSE Neigh[<<d.node, d.axis, d.dir>>]

\* The MPI channel a request is matched on, and the link of the logical grid
\* the program meant (ghost: it is what the channel must tell apart).
ChanOf(n, m) == IF m.type = "send"
                THEN <<n, m.peer, SendTag(m.axis, m.dir)>>
                ELSE <<m.peer, n, RecvTag(m.axis, m.dir)>>
LinkOf(n, m) == IF m.type = "send" THEN <<n, m.peer, m.axis, m.dir>>
                ELSE <<m.peer, n, m.axis, -m.dir>>

NoHandle  == [type |-> "free", num |-> 0, activeP |-> 0, peer |-> None,
              axis |-> -1, dir |-> 0, base |-> None]
NoRequest == [st |-> "free", kind |-> "none", chan |-> None, link |-> None,
              base |-> None, seq |-> 0]

\* MPI_Send_init / MPI_Recv_init for handle contents m of node n.
PersistentRequest(n, m) ==
  [st |-> "inactive", kind |-> m.type, chan |-> ChanOf(n, m),
   link |-> LinkOf(n, m), base |-> m.base, seq |-> 0]

Single(h)   == mh[h].type \in Kinds
Multiple(h) == mh[h].type = "multiple"
Live(h)     == Single(h) \/ Multiple(h)

\* The individual handles h stands for, the requests its start and wait pass
\* to MPI, and the buffers these use.
Leaves(h) == IF Multiple(h) THEN chain[h] ELSE {h}
Reqs(h)   == IF Multiple(h) THEN {request_array[h][k] : k \in chain[h]}
             ELSE {request[h]}
Bases(h)  == {mh[k].base : k \in Leaves(h)}

FreeReqs(n) == {r \in Req : ROwner[r] = n /\ req[r].st = "free"}

\* Node n is between two calls: neither blocked in QMP_wait nor aborted.
CanCall(n) == stop = "no" /\ waiting[n] = None

-----------------------------------------------------------------------------
HandleRec == [type : Kinds \cup {"free", "multiple"}, num : Nat, activeP : {0, 1},
              peer : Node \cup {None}, axis : Int, dir : {-1, 0, 1},
              base : Buf \cup {None}]
ReqRec == [st : {"free", "inactive", "active", "complete"},
           kind : Kinds \cup {"none"}, chan : Chan \cup {None},
           link : Link \cup {None}, base : Buf \cup {None}, seq : Nat]
SentRec == [val : Data, link : Link]
WireRec == [chan : Chan, seq : Nat, val : Data, link : Link]

\* The shape of the state.
TypeOK ==
  /\ mh \in [Handle -> HandleRec]
  /\ chain \in [Handle -> SUBSET Handle]
  /\ request \in [Handle -> Req \cup {None}]
  /\ request_array \in [Handle -> [Handle -> Req \cup {None}]]
  /\ req \in [Req -> ReqRec]
  /\ sent \in [Chan -> Seq(SentRec)]
  /\ posted \in [Chan -> Seq(Link)]
  /\ wire \subseteq WireRec
  /\ mem \in [Node -> [Buf -> Data]]
  /\ lent \in [Node -> SUBSET Buf]
  /\ waiting \in [Node -> Handle \cup {None}]
  /\ stop \in {"no", "assert", "mpi"}

Init ==
  /\ mh = [h \in Handle |-> NoHandle]
  /\ chain = [h \in Handle |-> {}]
  /\ request = [h \in Handle |-> None]
  /\ request_array = [h \in Handle |-> [k \in Handle |-> None]]
  /\ req = [r \in Req |-> NoRequest]
  /\ sent = [c \in Chan |-> << >>]
  /\ posted = [c \in Chan |-> << >>]
  /\ wire = {}
  /\ mem \in [Node -> [Buf -> Data]]
  /\ lent = [n \in Node |-> {}]
  /\ waiting = [n \in Node |-> None]
  /\ stop = "no"

-----------------------------------------------------------------------------
(* Declaring and freeing *)

\* QMP_declare_send_to, _receive_from, _send_relative, _receive_relative.
Declare(h, d) ==
  LET m == [type |-> d.kind, num |-> 1, activeP |-> 0, peer |-> Peer(d),
            axis |-> d.axis, dir |-> d.dir, base |-> d.base]
  IN /\ CanCall(d.node)
     /\ d.node = HOwner[h]
     /\ mh[h].type = "free"
     /\ \E r \in FreeReqs(d.node) :
          /\ mh' = [mh EXCEPT ![h] = m]
          /\ request' = [request EXCEPT ![h] = r]
          /\ req' = [req EXCEPT ![r] = PersistentRequest(d.node, m)]
     /\ UNCHANGED <<chain, request_array, sent, posted, wire, clientVars, stop>>

\* The handles a multiple made from S links: a multiple in S contributes its
\* members, in place of itself.
MutantNotSpliced(S) == S
Splice(S) == UNION {Leaves(s) : s \in S}

\* The placeholder handle of a multiple with members K.
NewMultiple(K) == [type |-> "multiple", num |-> Cardinality(K), activeP |-> 0,
                   peer |-> None, axis |-> -1, dir |-> 0, base |-> None]

\* mh->num = 0 for a member, and request_array as QMP_declare_multiple_mpi fills
\* it: with the requests of the members K.
MutantUnmarked(m) == m
Mark(m) == [m EXCEPT !.num = 0]
MutantSinglesOnly(K) == [j \in Handle |-> IF j \in K /\ mh[j].num = 1
                                         THEN request[j] ELSE None]
RequestArray(K) == [j \in Handle |-> IF j \in K THEN request[j] ELSE None]

\* QMP_declare_multiple and QMP_declare_send_recv_pairs.  The library asserts
\* that no element of S is a member of a multiple already.  The program passes
\* idle handles, no two of them on one buffer.
DeclareMultiple(h, S) ==
  LET K     == Splice(S)
      inner == {s \in S : Multiple(s)}
  IN /\ CanCall(HOwner[h])
     /\ mh[h].type = "free"
     /\ S # {}
     /\ \A s \in S : Live(s) /\ HOwner[s] = HOwner[h] /\ mh[s].activeP = 0
     /\ \A s \in S : Multiple(s) \/ mh[s].num = 1
     /\ \A j, k \in K : j # k => mh[j].base # mh[k].base
     /\ mh' = [k \in Handle |->
                 CASE k = h -> NewMultiple(K)
                   [] k \in K -> Mark(mh[k])
                   [] k \in inner -> NoHandle
                   [] OTHER -> mh[k]]
     /\ chain' = [k \in Handle |-> IF k = h THEN K
                                   ELSE IF k \in inner THEN {} ELSE chain[k]]
     /\ request_array' =
          [k \in Handle |->
             IF k = h THEN RequestArray(K)
             ELSE IF k \in inner THEN RequestArray({}) ELSE request_array[k]]
     /\ UNCHANGED <<request, mpiVars, clientVars, stop>>

\* The handle structures QMP_free_msghandle releases.
MutantOnlyMultiple(h) == {h}
Released(h) == {h} \cup chain[h]

\* QMP_free_msghandle of an idle handle.  Freeing a multiple frees its members.
Free(h) ==
  /\ CanCall(HOwner[h])
  /\ Live(h) /\ mh[h].num # 0 /\ mh[h].activeP = 0
  /\ mh' = [k \in Handle |-> IF k \in Released(h) THEN NoHandle ELSE mh[k]]
  /\ chain' = [chain EXCEPT ![h] = {}]
  /\ request' = [k \in Handle |-> IF k \in Released(h) THEN None ELSE request[k]]
  /\ request_array' = [request_array EXCEPT ![h] = RequestArray({})]
  /\ req' = [r \in Req |-> IF \E k \in Leaves(h) : request[k] = r
                           THEN NoRequest ELSE req[r]]
  /\ UNCHANGED <<sent, posted, wire, clientVars, stop>>

\* QMP_change_address: the request is freed and initialised anew, in an object
\* of MPI's choice (perhaps the one just freed).
ChangeAddress(h, b) ==
  LET n == HOwner[h]
      m == [mh[h] EXCEPT !.base = b]
  IN /\ "change_address" \in Calls
     /\ CanCall(n)
     /\ Single(h) /\ mh[h].num # 0 /\ mh[h].activeP = 0
     /\ \E r \in FreeReqs(n) \cup {request[h]} :
          /\ mh' = [mh EXCEPT ![h] = m]
          /\ request' = [request EXCEPT ![h] = r]
          /\ req' = [[req EXCEPT ![request[h]] = NoRequest]
                       EXCEPT ![r] = PersistentRequest(n, m)]
     /\ UNCHANGED <<chain, request_array, sent, posted, wire, clientVars, stop>>

\* QMP_change_address_multiple: every member gets its new address and a new
\* request; request_array is not written.
ChangeAddressMultiple(h, addr) ==
  LET n   == HOwner[h]
      m(k) == [mh[k] EXCEPT !.base = addr[k]]
      old == {request[k] : k \in chain[h]}
  IN /\ "change_address_multiple" \in Calls
     /\ CanCall(n)
     /\ Multiple(h) /\ mh[h].activeP = 0
     /\ \A j, k \in chain[h] : j # k => addr[j] # addr[k]
     /\ \E new \in [chain[h] -> FreeReqs(n) \cup old] :
          /\ \A j, k \in chain[h] : j # k => new[j] # new[k]
          /\ mh' = [k \in Handle |-> IF k \in chain[h] THEN m(k) ELSE mh[k]]
          /\ request' = [k \in Handle |->
                           IF k \in chain[h] THEN new[k] ELSE request[k]]
          /\ req' = [r \in Req |->
                       IF \E k \in chain[h] : new[k] = r
                       THEN PersistentRequest(n,
                              m(CHOOSE k \in chain[h] : new[k] = r))
                       ELSE IF r \in old THEN NoRequest ELSE req[r]]
     /\ UNCHANGED <<chain, request_array, sent, posted, wire, clientVars, stop>>

-----------------------------------------------------------------------------
(* Starting and completing *)

\* The requests in R on one side of channel c, and the length that side has.
OnSide(R, c, kind) == {r \in R : req[r].chan = c /\ req[r].kind = kind}
SideLen(c, kind) == IF kind = "send" THEN Len(sent[c]) ELSE Len(posted[c])

\* MPI_Start / MPI_Startall gives the requests R the next places of their
\* channels; MPI_Startall starts them in an order of MPI's choice.
Places(R) ==
  {place \in [R -> 1 .. MaxStarts] :
     \A c \in Chan, kind \in Kinds :
       LET S == OnSide(R, c, kind)
           l == SideLen(c, kind)
       IN /\ \A r, q \in S : place[r] = place[q] => r = q
          /\ {place[r] : r \in S} = l + 1 .. l + Cardinality(S)}

Entry(r) == [val |-> mem[ROwner[r]][req[r].base], link |-> req[r].link]

Post(R) ==
  \E place \in Places(R) :
    LET at(c, kind, i) ==
          CHOOSE r \in OnSide(R, c, kind) : place[r] = SideLen(c, kind) + i
    IN /\ req' = [r \in Req |-> IF r \in R
                                THEN [req[r] EXCEPT !.st = "active", !.seq = place[r]]
                                ELSE req[r]]
       /\ sent' = [c \in Chan |->
                     sent[c] \o [i \in 1 .. Cardinality(OnSide(R, c, "send")) |->
                                   Entry(at(c, "send", i))]]
       /\ posted' = [c \in Chan |->
                       posted[c] \o [i \in 1 .. Cardinality(OnSide(R, c, "recv")) |->
                                       req[at(c, "recv", i)].link]]

\* QMP_start.  The library asserts activeP = 0; the program does not start a
\* member of a multiple by itself, nor use a buffer already lent to QMP.
Start(h) ==
  LET n == HOwner[h]
  IN /\ CanCall(n)
     /\ Live(h) /\ mh[h].num # 0 /\ mh[h].activeP = 0
     /\ Bases(h) \cap lent[n] = {}
     /\ mh' = [mh EXCEPT ![h].activeP = 1]
     /\ lent' = [lent EXCEPT ![n] = @ \cup Bases(h)]
     /\ \/ /\ \A r \in Reqs(h) : r # None /\ req[r].st = "inactive"
           /\ Post(Reqs(h))
           /\ UNCHANGED stop
        \/ /\ \E r \in Reqs(h) : r = None \/ req[r].st # "inactive"
           /\ stop' = "mpi"
           /\ UNCHANGED <<req, sent, posted>>
     /\ UNCHANGED <<chain, request, request_array, wire, mem, waiting>>

MutantNotAwaited(h) == TRUE
MutantAnyDone(h) == \E r \in Reqs(h) : req[r].st \in {"complete", "inactive"}
AllDone(h) == \A r \in Reqs(h) : req[r].st \in {"complete", "inactive"}

\* MPI_Wait, MPI_Waitall, and MPI_Test, MPI_Testall with flag set: the requests
\* become inactive, activeP is cleared, the program has its buffers back.
Complete(h) ==
  /\ AllDone(h)
  /\ req' = [r \in Req |-> IF r \in Reqs(h) /\ req[r].st = "complete"
                           THEN [req[r] EXCEPT !.st = "inactive", !.seq = 0]
                           ELSE req[r]]
  /\ mh' = [mh EXCEPT ![h].activeP = 0]
  /\ lent' = [lent EXCEPT ![HOwner[h]] = @ \ Bases(h)]
  /\ UNCHANGED <<chain, request, request_array, sent, posted, wire, mem, stop>>

\* QMP_is_complete that returns QMP_TRUE.  (QMP_FALSE changes no state.)
IsComplete(h) ==
  /\ CanCall(HOwner[h])
  /\ Live(h) /\ mh[h].activeP = 1
  /\ Complete(h)
  /\ UNCHANGED waiting

\* QMP_wait on an active handle blocks in MPI_Wait or MPI_Waitall...
BeginWait(h) ==
  /\ CanCall(HOwner[h])
  /\ Live(h) /\ mh[h].activeP = 1
  /\ waiting' = [waiting EXCEPT ![HOwner[h]] = h]
  /\ UNCHANGED <<handleVars, mpiVars, mem, lent, stop>>

\* ... until the requests are complete.
EndWait(n) ==
  /\ stop = "no"
  /\ waiting[n] # None
  /\ Complete(waiting[n])
  /\ waiting' = [waiting EXCEPT ![n] = None]

\* QMP_wait on a member of a started multiple: its own activeP is 0, so the
\* call returns QMP_SUCCESS at once and the program takes the buffer back.
WaitMember(h, k) ==
  /\ "wait_member" \in Calls
  /\ CanCall(HOwner[h])
  /\ Multiple(h) /\ mh[h].activeP = 1
  /\ k \in chain[h] /\ mh[k].activeP = 0
  /\ lent' = [lent EXCEPT ![HOwner[h]] = @ \ Bases(k)]
  /\ UNCHANGED <<handleVars, mpiVars, mem, waiting, stop>>

\* The calls whose assertion fails end the whole job: QMP_start of an active
\* handle, and QMP_free_msghandle, QMP_change_address and QMP_declare_multiple
\* of a member of a multiple.
Misuse(h) ==
  /\ "misuse" \in Calls
  /\ CanCall(HOwner[h])
  /\ Live(h)
  /\ mh[h].activeP = 1 \/ mh[h].num = 0
  /\ stop' = "assert"
  /\ UNCHANGED <<handleVars, mpiVars, clientVars>>

-----------------------------------------------------------------------------
(* The program's own memory accesses, and MPI's progress (external) *)

\* The program writes a buffer it has not lent.
Write(n, b, v) ==
  /\ CanCall(n)
  /\ b \notin lent[n]
  /\ mem[n][b] # v
  /\ mem' = [mem EXCEPT ![n][b] = v]
  /\ UNCHANGED <<handleVars, mpiVars, lent, waiting, stop>>

Finished(r) == [req[r] EXCEPT !.st = "complete"]

\* An eager send: MPI copies the data and completes the send.
Buffer(r) ==
  /\ stop = "no"
  /\ req[r].st = "active" /\ req[r].kind = "send"
  /\ wire' = wire \cup {[chan |-> req[r].chan, seq |-> req[r].seq,
                         val |-> mem[ROwner[r]][req[r].base],
                         link |-> req[r].link]}
  /\ req' = [req EXCEPT ![r] = Finished(r)]
  /\ UNCHANGED <<handleVars, sent, posted, clientVars, stop>>

\* A copied message reaches the receive posted at its place in the channel.
Deliver(m, q) ==
  /\ stop = "no"
  /\ req[q].st = "active" /\ req[q].kind = "recv"
  /\ req[q].chan = m.chan /\ req[q].seq = m.seq
  /\ wire' = wire \ {m}
  /\ mem' = [mem EXCEPT ![ROwner[q]][req[q].base] = m.val]
  /\ req' = [req EXCEPT ![q] = Finished(q)]
  /\ UNCHANGED <<handleVars, sent, posted, lent, waiting, stop>>

\* A rendezvous: both requests are posted and the data goes straight across.
Transfer(r, q) ==
  /\ stop = "no"
  /\ req[r].st = "active" /\ req[r].kind = "send"
  /\ req[q].st = "active" /\ req[q].kind = "recv"
  /\ req[q].chan = req[r].chan /\ req[q].seq = req[r].seq
  /\ mem' = [mem EXCEPT ![ROwner[q]][req[q].base] = mem[ROwner[r]][req[r].base]]
  /\ req' = [req EXCEPT ![r] = Finished(r), ![q] = Finished(q)]
  /\ UNCHANGED <<handleVars, sent, posted, wire, lent, waiting, stop>>

Progress ==
  \/ \E r \in Req : Buffer(r)
  \/ \E m \in wire, q \in Req : Deliver(m, q)
  \/ \E r, q \in Req : Transfer(r, q)

Next ==
  \/ \E h \in Handle, d \in Decls : Declare(h, d)
  \/ \E h \in Handle : \E S \in SUBSET {k \in Handle : Live(k)} :
       DeclareMultiple(h, S)
  \/ \E h \in Handle : Free(h)
  \/ \E h \in Handle, b \in Buf : ChangeAddress(h, b)
  \/ \E h \in Handle : \E addr \in [chain[h] -> Buf] :
       ChangeAddressMultiple(h, addr)
  \/ \E h \in Handle : Start(h)
  \/ \E h \in Handle : IsComplete(h)
  \/ \E h \in Handle : BeginWait(h)
  \/ \E n \in Node : EndWait(n)
  \/ \E h, k \in Handle : WaitMember(h, k)
  \/ \E h \in Handle : Misuse(h)
  \/ \E n \in Node, b \in Buf, v \in Data : Write(n, b, v)
  \/ Progress

Spec == Init /\ [][Next]_vars

-----------------------------------------------------------------------------
(* What makes this correct *)

InUse(r) == req[r].st \in {"active", "complete"}

\* Requests are neither leaked nor shared: every request MPI holds belongs to
\* exactly one individual handle, and each such handle has its own request,
\* initialised with the handle's current peer, tag and address
\* (declare_send_mpi .. change_address_mpi, QMP_free_msghandle).
RequestOwnership ==
  /\ \A h \in Handle : Single(h) =>
       /\ request[h] \in Req
       /\ ROwner[request[h]] = HOwner[h]
       /\ req[request[h]].st # "free"
       /\ [req[request[h]] EXCEPT !.st = "inactive", !.seq = 0]
            = PersistentRequest(HOwner[h], mh[h])
  /\ \A h, k \in Handle : Single(h) /\ Single(k) /\ request[h] = request[k] => h = k
  /\ \A r \in Req : req[r].st # "free" =>
       \E h \in Handle : Single(h) /\ request[h] = r

\* A multiple's private copy of the requests is always that of its members:
\* what QMP_start starts is what the members' current addresses describe
\* (QMP_declare_multiple_mpi copies, QMP_change_address_mpi re-creates).
ArrayMirrorsMembers ==
  \A h \in Handle : Multiple(h) =>
    \A k \in chain[h] : request_array[h][k] = request[k]

\* The "next" lists: members are live idle individual handles of the same
\* process marked by num = 0, each on one list only, and every handle so marked
\* is on a list, so that QMP_free_msghandle can tell it may not free it.
ChainsWellFormed ==
  /\ \A h \in Handle : chain[h] # {} <=> Multiple(h)
  /\ \A h \in Handle : Multiple(h) => mh[h].num = Cardinality(chain[h])
  /\ \A h \in Handle : \A k \in chain[h] :
       Single(k) /\ HOwner[k] = HOwner[h] /\ mh[k].num = 0 /\ mh[k].activeP = 0
  /\ \A h \in Handle : Single(h) /\ mh[h].num = 0 =>
       \E p \in Handle : h \in chain[p]
  /\ \A h, p \in Handle : h # p => chain[h] \cap chain[p] = {}

\* No MPI call is ever erroneous: activeP guards every MPI_Start against a
\* request that is active or freed.
NoMpiError == stop # "mpi"

\* The buffers of every request MPI may still read or write are ones the
\* program knows to be in use: QMP_wait and QMP_is_complete give a buffer back
\* only when its transfer is over.
BufferHandedBack ==
  \A r \in Req : InUse(r) => req[r].base \in lent[ROwner[r]]

\* When a receive has completed, its buffer holds what the sender's buffer held
\* at the QMP_start of the send in the same place of the channel.
DataDelivered ==
  \A r \in Req : req[r].st = "complete" /\ req[r].kind = "recv" =>
    /\ req[r].seq \in DOMAIN sent[req[r].chan]
    /\ mem[ROwner[r]][req[r].base] = sent[req[r].chan][req[r].seq].val

\* A receive declared for one direction of the grid is only ever completed by a
\* send declared for that direction ("protecting against having only 2 nodes
\* in 1 direction").
RightDirection ==
  \A r \in Req : req[r].st = "complete" /\ req[r].kind = "recv" =>
    sent[req[r].chan][req[r].seq].link = req[r].link

\* No message is lost or delivered twice: a channel without active requests and
\* with as many receives as sends started has no message left in MPI.
ChannelsDrain ==
  \A c \in Chan :
    /\ Len(sent[c]) = Len(posted[c])
    /\ \A r \in Req : req[r].chan = c => req[r].st # "active"
    => \A m \in wire : m.chan # c

\* QMP_start of a multiple starts the communication of every member.
StartStartsMembers ==
  [][\A h \in Handle : Multiple(h) /\ mh[h].activeP = 0 /\ mh'[h].activeP = 1 =>
       \A k \in chain[h] : req'[request[k]].st = "active"]_vars
=============================================================================
