------------------------------ MODULE BgspiMsg ------------------------------
(***************************************************************************)
(* Paired messages on Blue Gene/Q: QMP_start, QMP_wait, QMP_is_complete,    *)
(* QMP_clear_to_send and QMP_free_msghandle of multiples whose members go   *)
(* through the SPI messaging unit (lib/bgspi/QMP_comm_bgspi.c, QMP_mem_     *)
(* bgspi.c, the qspi_start and qspi_wait of qspi.c).                        *)
(*                                                                         *)
(* A pair is a send member on one node and the receive member it was        *)
(* matched with on another.  The sender puts its data straight into the     *)
(* receiver's buffer, so the receiver first puts QMP_CTS_READY into the     *)
(* sender's clear_to_send word.  A put is an injected descriptor, then a    *)
(* packet carrying what memory held when the DMA unit read it, then a       *)
(* store at the other end, then a decrement of the counter there.           *)
(*                                                                         *)
(* The program is the same on all nodes: Rounds rounds of start and wait    *)
(* (or test), with QMP_clear_to_send after some of them, then free.         *)
(***************************************************************************)
EXTENDS Integers

CONSTANTS
  Multi,     \* the multiples, each on a node of its own
  Pair,      \* the matched pairs of members
  Src,       \* Src[p]: the multiple of the send member
  Dst,       \* Dst[p]: the multiple of the receive member
  None,
  Rounds     \* rounds of the program that go through SPI

ASSUME PairAssumption ==
  /\ Src \in [Pair -> Multi] /\ Dst \in [Pair -> Multi]
  /\ None \notin Pair
  /\ Rounds \in Nat \ {0}

DISABLED  == -1
NOT_READY == 0
READY     == 1

VARIABLES
  pc,        \* where the node of multiple m is: between calls or in one
  cur,       \* the member the call is busy with
  testing,   \* the call is QMP_is_complete, not QMP_wait
  round,     \* rounds m has started
  early,     \* rounds after which the program calls QMP_clear_to_send
  mcts,      \* mh->clear_to_send of the multiple
  sact, ract,  \* m->activeP of the send and of the receive member
  scts, rcts,  \* m->clear_to_send of the send and of the receive member
  scnt,      \* counter of the sender's qspicts: puts still awaited
  rcnt,      \* counter of the receiver's qspimsg: puts still awaited
  ctsOut,    \* clear-to-send descriptors injected, not read by the DMA unit
  ctsNet,    \* ctsNet[p][v]: clear-to-send packets in the network
  ctsLanded, \* clear-to-send puts stored, their counter not decremented yet
  dataOut,   \* data descriptors injected, not read by the DMA unit
  dataNet,   \* data packets in the network
  sbuf, rbuf,  \* the round whose data the two buffers hold
  offered    \* the receive buffer is QMP's: offered or started, not waited for

callVars   == <<pc, cur, testing, round, early, mcts>>
memberVars == <<sact, ract, scts, rcts, scnt, rcnt>>
netVars    == <<ctsOut, ctsNet, ctsLanded, dataOut, dataNet>>
bufVars    == <<sbuf, rbuf, offered>>
vars       == <<callVars, memberVars, netVars, bufVars>>

Sends(m) == {p \in Pair : Src[p] = m}
Recvs(m) == {p \in Pair : Dst[p] = m}

\* In flight between the nodes of p.
CtsInFlight(p)  == ctsOut[p] + ctsNet[p][READY] + ctsNet[p][NOT_READY] + ctsLanded[p]
DataInFlight(p) == dataOut[p] # {} \/ dataNet[p] # {}

TypeOK ==
  /\ pc \in [Multi -> {"recvs", "sends", "reap", "lower", "started", "members",
                       "drain", "idle", "freed"}]
  /\ cur \in [Multi -> Pair \cup {None}]
  /\ testing \in [Multi -> BOOLEAN]
  /\ round \in [Multi -> 1 .. Rounds]
  /\ early \subseteq 1 .. Rounds
  /\ mcts \in [Multi -> {DISABLED, NOT_READY, READY}]
  /\ sact \in [Pair -> BOOLEAN] /\ ract \in [Pair -> BOOLEAN]
  /\ scts \in [Pair -> {NOT_READY, READY}] /\ rcts \in [Pair -> {NOT_READY, READY}]
  /\ scnt \in [Pair -> Int] /\ rcnt \in [Pair -> Int]
  /\ ctsOut \in [Pair -> Nat]
  /\ ctsNet \in [Pair -> [{NOT_READY, READY} -> Nat]]
  /\ ctsLanded \in [Pair -> Nat]
  /\ dataOut \in [Pair -> SUBSET (1 .. Rounds)]
  /\ dataNet \in [Pair -> SUBSET (1 .. Rounds)]
  /\ sbuf \in [Pair -> 1 .. Rounds] /\ rbuf \in [Pair -> 0 .. Rounds]
  /\ offered \in [Pair -> BOOLEAN]

\* Every node is in the QMP_start that matched the members (its second).  The
\* program disabled clear-to-send on all the handles, or on none; a call of
\* QMP_clear_to_send before the matching only set the multiple's own field.
Init ==
  /\ pc = [m \in Multi |-> "recvs"]
  /\ cur = [m \in Multi |-> None]
  /\ testing = [m \in Multi |-> FALSE]
  /\ round = [m \in Multi |-> 1]
  /\ \/ /\ mcts = [m \in Multi |-> DISABLED]
        /\ early = {}
     \/ /\ mcts \in [Multi -> {NOT_READY, READY}]
        /\ early \in SUBSET (1 .. Rounds)
  /\ sact = [p \in Pair |-> FALSE]
  /\ ract = [p \in Pair |-> FALSE]
  /\ scts = [p \in Pair |-> NOT_READY]
  /\ rcts = [p \in Pair |-> NOT_READY]
  /\ scnt = [p \in Pair |-> 1]
  /\ rcnt = [p \in Pair |-> 1]
  /\ ctsOut = [p \in Pair |-> 0]
  /\ ctsNet = [p \in Pair |-> [v \in {NOT_READY, READY} |-> 0]]
  /\ ctsLanded = [p \in Pair |-> 0]
  /\ dataOut = [p \in Pair |-> {}]
  /\ dataNet = [p \in Pair |-> {}]
  /\ sbuf = [p \in Pair |-> 1]
  /\ rbuf = [p \in Pair |-> 0]
  /\ offered = [p \in Pair |-> TRUE]

-----------------------------------------------------------------------------
(* QMP_start *)

\* With clear-to-send disabled the program itself sees to it that the receivers
\* have waited for the previous round and are done with its data.
Promised(m) ==
  mcts[m] = DISABLED =>
    \A p \in Sends(m) : \/ round[Dst[p]] > round[m]
                        \/ round[Dst[p]] = round[m] /\ pc[Dst[p]] = "idle"

\* What the program called QMP_clear_to_send for after this round, it has called.
CtsCalled(m) == round[m] \in early => mcts[m] = READY

\* The program fills its send buffers and calls QMP_start.
Start(m) ==
  /\ pc[m] = "idle" /\ round[m] < Rounds
  /\ CtsCalled(m)
  /\ Promised(m)
  /\ pc' = [pc EXCEPT ![m] = "recvs"]
  /\ round' = [round EXCEPT ![m] = @ + 1]
  /\ sbuf' = [p \in Pair |-> IF p \in Sends(m) THEN round[m] + 1 ELSE sbuf[p]]
  /\ offered' = [p \in Pair |-> offered[p] \/ p \in Recvs(m)]
  /\ UNCHANGED <<cur, testing, early, mcts, memberVars, netVars, rbuf>>

\* The receive members that have not told their senders yet.
MutantOnlyEnabled(m) == {p \in Recvs(m) : mcts[m] = READY /\ rcts[p] # READY}
Untold(m) == {p \in Recvs(m) : mcts[m] # DISABLED /\ rcts[p] # READY}

\* The receives first: tell the senders that have not been told.
StartRecvs(m) ==
  /\ pc[m] = "recvs"
  /\ pc' = [pc EXCEPT ![m] = "sends"]
  /\ rcts' = [p \in Pair |-> IF p \in Untold(m) THEN READY ELSE rcts[p]]
  /\ ctsOut' = [p \in Pair |-> IF p \in Untold(m) THEN ctsOut[p] + 1 ELSE ctsOut[p]]
  /\ ract' = [p \in Pair |-> ract[p] \/ p \in Recvs(m)]
  /\ UNCHANGED <<cur, testing, round, early, mcts, sact, scts, scnt, rcnt, ctsNet,
                 ctsLanded, dataOut, dataNet, bufVars>>

MaySend(p) == mcts[Src[p]] = DISABLED \/ scts[p] # NOT_READY

\* Then the sends, polling until each member's receiver is ready.
SendData(p) ==
  LET m == Src[p]
      cts == mcts[m] # DISABLED /\ scts[p] = READY
  IN /\ pc[m] = "sends" /\ ~sact[p]
     /\ MaySend(p)
     /\ dataOut' = [dataOut EXCEPT ![p] = @ \cup {round[m]}]
     /\ sact' = [sact EXCEPT ![p] = TRUE]
     /\ pc' = [pc EXCEPT ![m] = IF cts THEN "reap" ELSE "sends"]
     /\ cur' = [cur EXCEPT ![m] = IF cts THEN p ELSE None]
     /\ UNCHANGED <<testing, round, early, mcts, ract, scts, rcts, scnt, rcnt, ctsOut,
                    ctsNet, ctsLanded, dataNet, bufVars>>

\* qspi_wait(m->qspicts) after the data was injected...
Reap(p) ==
  LET m == Src[p]
  IN /\ pc[m] = "reap" /\ cur[m] = p
     /\ scnt[p] <= 0
     /\ scnt' = [scnt EXCEPT ![p] = 1]
     /\ pc' = [pc EXCEPT ![m] = "lower"]
     /\ UNCHANGED <<cur, testing, round, early, mcts, sact, ract, scts, rcts, rcnt,
                    netVars, bufVars>>

\* ... and m->clear_to_send = QMP_CTS_NOT_READY.
MutantNotLowered == READY
MutantDisabled == DISABLED
Lowered == NOT_READY
Lower(p) ==
  LET m == Src[p]
  IN /\ pc[m] = "lower" /\ cur[m] = p
     /\ scts' = [scts EXCEPT ![p] = Lowered]
     /\ pc' = [pc EXCEPT ![m] = "sends"]
     /\ cur' = [cur EXCEPT ![m] = None]
     /\ UNCHANGED <<testing, round, early, mcts, sact, ract, rcts, scnt, rcnt, netVars,
                    bufVars>>

\* QMP_start returns.
EndStart(m) ==
  /\ pc[m] = "sends"
  /\ \A p \in Sends(m) : sact[p]
  /\ pc' = [pc EXCEPT ![m] = "started"]
  /\ mcts' = [mcts EXCEPT ![m] = IF @ = READY THEN NOT_READY ELSE @]
  /\ UNCHANGED <<cur, testing, round, early, memberVars, netVars, bufVars>>

-----------------------------------------------------------------------------
(* QMP_wait and QMP_is_complete, which calls it *)

BeginWait(m) ==
  /\ pc[m] = "started"
  /\ pc' = [pc EXCEPT ![m] = "members"]
  /\ testing' \in {[testing EXCEPT ![m] = t] : t \in BOOLEAN}
  /\ UNCHANGED <<cur, round, early, mcts, memberVars, netVars, bufVars>>

\* A receive member: qspi_wait(m->qspicts), lower the word...
WaitRecv(p) ==
  LET m == Dst[p]
  IN /\ pc[m] = "members" /\ ract[p]
     /\ mcts[m] # DISABLED => ctsOut[p] = 0
     /\ rcts' = [rcts EXCEPT ![p] = IF mcts[m] # DISABLED THEN NOT_READY ELSE @]
     /\ pc' = [pc EXCEPT ![m] = "drain"]
     /\ cur' = [cur EXCEPT ![m] = p]
     /\ UNCHANGED <<testing, round, early, mcts, sact, ract, scts, scnt, rcnt, netVars,
                    bufVars>>

\* ... and qspi_wait(m->qspimsg) for the data.
MutantNotCounted(p) == TRUE
Counted(p) == rcnt[p] <= 0
DrainRecv(p) ==
  LET m == Dst[p]
  IN /\ pc[m] = "drain" /\ cur[m] = p
     /\ Counted(p)
     /\ rcnt' = [rcnt EXCEPT ![p] = 1]
     /\ ract' = [ract EXCEPT ![p] = FALSE]
     /\ pc' = [pc EXCEPT ![m] = "members"]
     /\ cur' = [cur EXCEPT ![m] = None]
     /\ UNCHANGED <<testing, round, early, mcts, sact, scts, rcts, scnt, netVars, bufVars>>

\* A send member: wait until the unit has read the data.
WaitSend(p) ==
  /\ pc[Src[p]] = "members" /\ sact[p]
  /\ dataOut[p] = {}
  /\ sact' = [sact EXCEPT ![p] = FALSE]
  /\ UNCHANGED <<callVars, ract, scts, rcts, scnt, rcnt, netVars, bufVars>>

EndWait(m) ==
  /\ pc[m] = "members"
  /\ \A p \in Sends(m) : ~sact[p]
  /\ \A p \in Recvs(m) : ~ract[p]
  /\ pc' = [pc EXCEPT ![m] = "idle"]
  /\ testing' = [testing EXCEPT ![m] = FALSE]
  /\ offered' = [p \in Pair |->
                   offered[p] /\ (p \notin Recvs(m) \/ mcts[m] = DISABLED)]
  /\ UNCHANGED <<cur, round, early, mcts, memberVars, netVars, sbuf, rbuf>>

-----------------------------------------------------------------------------
(* QMP_clear_to_send(mh, QMP_CTS_READY) and QMP_free_msghandle *)

ClearToSend(m) ==
  LET told == {p \in Recvs(m) : rcts[p] # READY}
  IN /\ pc[m] = "idle"
     /\ round[m] \in early /\ mcts[m] # READY
     /\ mcts' = [mcts EXCEPT ![m] = READY]
     /\ rcts' = [p \in Pair |-> IF p \in told THEN READY ELSE rcts[p]]
     /\ ctsOut' = [p \in Pair |-> IF p \in told THEN ctsOut[p] + 1 ELSE ctsOut[p]]
     /\ offered' = [p \in Pair |-> offered[p] \/ p \in Recvs(m)]
     /\ UNCHANGED <<pc, cur, testing, round, early, sact, ract, scts, scnt, rcnt,
                    ctsNet, ctsLanded, dataOut, dataNet, sbuf, rbuf>>

\* The members' qspi_wait(m->qspicts) of QMP_free_msghandle_bgspi.
MutantFreedAtOnce(m) == TRUE
CtsSettled(m) ==
  mcts[m] = READY => /\ \A p \in Recvs(m) : ctsOut[p] = 0
                     /\ \A p \in Sends(m) : scnt[p] <= 0

Free(m) ==
  /\ pc[m] = "idle" /\ round[m] = Rounds
  /\ CtsCalled(m)
  /\ CtsSettled(m)
  /\ pc' = [pc EXCEPT ![m] = "freed"]
  /\ scnt' = [p \in Pair |-> IF p \in Sends(m) /\ mcts[m] = READY THEN 1 ELSE scnt[p]]
  /\ UNCHANGED <<cur, testing, round, early, mcts, sact, ract, scts, rcts, rcnt, netVars,
                 bufVars>>

-----------------------------------------------------------------------------
(* The messaging unit (external) *)

CtsRead(p) ==
  /\ ctsOut[p] > 0
  /\ ctsOut' = [ctsOut EXCEPT ![p] = @ - 1]
  /\ ctsNet' = [ctsNet EXCEPT ![p][rcts[p]] = @ + 1]
  /\ UNCHANGED <<callVars, memberVars, ctsLanded, dataOut, dataNet, bufVars>>

CtsStore(p) ==
  /\ \E v \in {NOT_READY, READY} :
       /\ ctsNet[p][v] > 0
       /\ ctsNet' = [ctsNet EXCEPT ![p][v] = @ - 1]
       /\ scts' = [scts EXCEPT ![p] = v]
  /\ ctsLanded' = [ctsLanded EXCEPT ![p] = @ + 1]
  /\ UNCHANGED <<callVars, sact, ract, rcts, scnt, rcnt, ctsOut, dataOut, dataNet, bufVars>>

CtsCount(p) ==
  /\ ctsLanded[p] > 0
  /\ ctsLanded' = [ctsLanded EXCEPT ![p] = @ - 1]
  /\ scnt' = [scnt EXCEPT ![p] = @ - 1]
  /\ UNCHANGED <<callVars, sact, ract, scts, rcts, rcnt, ctsOut, ctsNet, dataOut, dataNet,
                 bufVars>>

DataRead(p) ==
  /\ \E k \in dataOut[p] : dataOut' = [dataOut EXCEPT ![p] = @ \ {k}]
  /\ dataNet' = [dataNet EXCEPT ![p] = @ \cup {sbuf[p]}]
  /\ UNCHANGED <<callVars, memberVars, ctsOut, ctsNet, ctsLanded, bufVars>>

DataStore(p) ==
  /\ \E v \in dataNet[p] : /\ dataNet' = [dataNet EXCEPT ![p] = @ \ {v}]
                           /\ rbuf' = [rbuf EXCEPT ![p] = v]
  /\ rcnt' = [rcnt EXCEPT ![p] = @ - 1]
  /\ UNCHANGED <<callVars, sact, ract, scts, rcts, scnt, ctsOut, ctsNet, ctsLanded,
                 dataOut, sbuf, offered>>

Unit(p) == CtsRead(p) \/ CtsStore(p) \/ CtsCount(p) \/ DataRead(p) \/ DataStore(p)

\* What goes on inside the library's calls.
Inside(m) ==
  \/ StartRecvs(m) \/ EndStart(m) \/ EndWait(m)
  \/ \E p \in Sends(m) : SendData(p) \/ Reap(p) \/ Lower(p) \/ WaitSend(p)
  \/ \E p \in Recvs(m) : WaitRecv(p) \/ DrainRecv(p)

\* The program's calls.
Call(m) == Start(m) \/ BeginWait(m) \/ ClearToSend(m) \/ Free(m)

Next == \/ \E m \in Multi : Inside(m) \/ Call(m)
        \/ \E p \in Pair : Unit(p)

Spec == Init /\ [][Next]_vars

\* The unit works and the calls are executed...
LibraryFairness == /\ \A m \in Multi : WF_vars(Inside(m))
                   /\ \A p \in Pair : WF_vars(Unit(p))
LibrarySpec == Spec /\ LibraryFairness

\* ... and the program goes on making them.
FairSpec == LibrarySpec /\ \A m \in Multi : WF_vars(Call(m))

-----------------------------------------------------------------------------
(* What makes this correct *)

\* From the return of QMP_wait until the program offers the buffer again, the
\* receive buffer holds the data of the round that was waited for: the put has
\* arrived in full, and the next one does not arrive before it is asked for.
BufferIntact ==
  \A p \in Pair : ~offered[p] => rbuf[p] = round[Dst[p]]

\* A sender puts data only into a buffer its receiver has offered, and never two
\* messages at once, though the sender sees of the receiver only the word that
\* the receiver's puts and its own resets overwrite.
NoUnsolicitedData ==
  \A p \in Pair : DataInFlight(p) =>
    /\ offered[p] /\ rcnt[p] = 1
    /\ dataOut[p] = {} \/ dataNet[p] = {}

\* QMP_free_msghandle does not leave a put under way to or from the memory it
\* frees ("need to keep track of if CTS was sent").
NoPutIntoFreed ==
  \A p \in Pair : pc[Src[p]] = "freed" \/ pc[Dst[p]] = "freed" =>
    /\ pc[Src[p]] = "freed" => CtsInFlight(p) = 0 /\ dataOut[p] = {}
    /\ pc[Dst[p]] = "freed" => ctsOut[p] = 0 /\ ~DataInFlight(p)

\* The next clear-to-send has been stored while the sender is still between
\* injecting its data and lowering the word.
Stored(p) == ctsLanded[p] + (1 - scnt[p])
Overtaken(p) == \/ pc[Src[p]] = "reap"  /\ cur[Src[p]] = p /\ Stored(p) > 1
                \/ pc[Src[p]] = "lower" /\ cur[Src[p]] = p /\ Stored(p) > 0

\* Nothing but that race can keep the program from its end: otherwise every
\* QMP_start, QMP_wait and QMP_free_msghandle of every node returns.
OnlyOvertakingHangs ==
  [](\A p \in Pair : ~Overtaken(p)) => <>(\A m \in Multi : pc[m] = "freed")

\* A receiver that has declared its buffer ready gets the next message, when the
\* sender is in QMP_start.
ReadyIsHeeded ==
  \A p \in Pair :
    rcts[p] = READY /\ pc[Src[p]] = "sends" /\ ~sact[p]  ~> sact[p]
=============================================================================
