-------------------------- MODULE BgspiMsg_proofs --------------------------
(***************************************************************************)
(* Theorems about BgspiMsg: data goes only into buffers that were offered,  *)
(* stays there, and QMP_free_msghandle frees nothing a put still uses; for  *)
(* every number of nodes, pairs and rounds.                                 *)
(***************************************************************************)
EXTENDS BgspiMsg, TLAPS

USE DEF DISABLED, NOT_READY, READY

\* The type invariant holds initially.
LEMMA TypeInit == Init => TypeOK
BY PairAssumption DEF Init, TypeOK

\* Steps inside QMP_start and QMP_wait keep the types.
LEMMA TypeInside ==
  ASSUME TypeOK, NEW m \in Multi, Inside(m)
  PROVE  TypeOK'
<1>1. CASE StartRecvs(m)
  BY <1>1 DEF StartRecvs, Untold, Recvs, TypeOK, bufVars
<1>2. CASE EndStart(m)
  BY <1>2 DEF EndStart, TypeOK, memberVars, netVars, bufVars
<1>3. CASE EndWait(m)
  BY <1>3 DEF EndWait, Recvs, TypeOK, memberVars, netVars
<1>4. ASSUME NEW p \in Sends(m), SendData(p) PROVE TypeOK'
  BY <1>4 DEF SendData, Sends, TypeOK, bufVars
<1>5. ASSUME NEW p \in Sends(m), Reap(p) PROVE TypeOK'
  BY <1>5 DEF Reap, Sends, TypeOK, netVars, bufVars
<1>6. ASSUME NEW p \in Sends(m), Lower(p) PROVE TypeOK'
  BY <1>6 DEF Lower, Lowered, Sends, TypeOK, netVars, bufVars
<1>7. ASSUME NEW p \in Sends(m), WaitSend(p) PROVE TypeOK'
  BY <1>7 DEF WaitSend, Sends, TypeOK, callVars, netVars, bufVars
<1>8. ASSUME NEW p \in Recvs(m), WaitRecv(p) PROVE TypeOK'
  BY <1>8 DEF WaitRecv, Recvs, TypeOK, netVars, bufVars
<1>9. ASSUME NEW p \in Recvs(m), DrainRecv(p) PROVE TypeOK'
  BY <1>9 DEF DrainRecv, Recvs, TypeOK, netVars, bufVars
<1> QED BY <1>1, <1>2, <1>3, <1>4, <1>5, <1>6, <1>7, <1>8, <1>9 DEF Inside

\* The program's calls keep the types.
LEMMA TypeCall ==
  ASSUME TypeOK, NEW m \in Multi, Call(m)
  PROVE  TypeOK'
<1>1. CASE Start(m)
  <2>1. round[m] + 1 \in 1 .. Rounds
    BY <1>1, PairAssumption DEF Start, TypeOK
  <2> QED BY <1>1, <2>1 DEF Start, Recvs, Sends, TypeOK, memberVars, netVars
<1>2. CASE BeginWait(m)
  BY <1>2 DEF BeginWait, TypeOK, memberVars, netVars, bufVars
<1>3. CASE ClearToSend(m)
  BY <1>3 DEF ClearToSend, Recvs, TypeOK
<1>4. CASE Free(m)
  BY <1>4 DEF Free, TypeOK, netVars, bufVars
<1> QED BY <1>1, <1>2, <1>3, <1>4 DEF Call

\* The messaging unit keeps the types.
LEMMA TypeUnit ==
  ASSUME TypeOK, NEW p \in Pair, Unit(p)
  PROVE  TypeOK'
<1>1. CASE CtsRead(p)
  <2>1. ctsNet' \in [Pair -> [{NOT_READY, READY} -> Nat]]
    BY <1>1 DEF CtsRead, TypeOK
  <2> QED BY <1>1, <2>1 DEF CtsRead, TypeOK, callVars, memberVars, bufVars
<1>2. CASE CtsStore(p)
  <2>1. PICK v \in {NOT_READY, READY} :
          /\ ctsNet[p][v] > 0
          /\ ctsNet' = [ctsNet EXCEPT ![p][v] = @ - 1]
          /\ scts' = [scts EXCEPT ![p] = v]
    BY <1>2 DEF CtsStore
  <2>2. ctsNet' \in [Pair -> [{NOT_READY, READY} -> Nat]]
    BY <2>1 DEF TypeOK
  <2> QED BY <1>2, <2>1, <2>2 DEF CtsStore, TypeOK, callVars, bufVars
<1>3. CASE CtsCount(p)
  BY <1>3 DEF CtsCount, TypeOK, callVars, bufVars
<1>4. CASE DataRead(p)
  BY <1>4 DEF DataRead, TypeOK, callVars, memberVars, bufVars
<1>5. CASE DataStore(p)
  BY <1>5 DEF DataStore, TypeOK, callVars
<1> QED BY <1>1, <1>2, <1>3, <1>4, <1>5 DEF Unit

\* Every step keeps the types.
LEMMA TypeNext == TypeOK /\ [Next]_vars => TypeOK'
<1> SUFFICES ASSUME TypeOK, [Next]_vars PROVE TypeOK'
  OBVIOUS
<1>1. CASE UNCHANGED vars
  BY <1>1 DEF vars, callVars, memberVars, netVars, bufVars, TypeOK
<1> QED BY <1>1, TypeInside, TypeCall, TypeUnit DEF Next

-----------------------------------------------------------------------------
(* The inductive invariant: what each pair's two ends have done is counted in *)
(* rounds, and what is in flight or stored is the difference.                 *)

Starting == {"recvs", "sends", "reap", "lower"}

\* Rounds whose data the sender has injected, and rounds the receiver has taken.
Sent(p) == IF pc[Src[p]] \in Starting /\ ~sact[p]
           THEN round[Src[p]] - 1 ELSE round[Src[p]]
Over(p) == \/ pc[Dst[p]] \in {"idle", "freed"}
           \/ pc[Dst[p]] \in {"members", "drain"} /\ ~ract[p]
Drained(p) == IF Over(p) THEN round[Dst[p]] ELSE round[Dst[p]] - 1
Flying(p)  == IF DataInFlight(p) THEN 1 ELSE 0

\* The call a node is in tells which of its members are active.
SendPhase(p) ==
  LET m == Src[p]
  IN /\ pc[m] \in {"reap", "lower"} =>
          cur[m] \in Pair /\ Src[cur[m]] = m /\ sact[cur[m]]
     /\ pc[m] \in {"reap", "lower"} => mcts[m] # DISABLED
     /\ pc[m] \in {"recvs", "idle", "freed"} => ~sact[p]
     /\ pc[m] = "started" => sact[p]
RecvPhase(p) ==
  LET m == Dst[p]
  IN /\ pc[m] = "drain" => cur[m] \in Pair /\ Dst[cur[m]] = m /\ ract[cur[m]]
     /\ pc[m] \in {"recvs", "idle", "freed"} => ~ract[p]
     /\ pc[m] \in {"sends", "reap", "lower", "started"} => ract[p]

\* Clear-to-send is disabled at both ends of a pair or at neither, for good.
OneMode == \/ early = {} /\ \A m \in Multi : mcts[m] = DISABLED
           \/ \A m \in Multi : mcts[m] # DISABLED

\* A put is read while the round it belongs to lasts, carries that round's data
\* and is the only one; the receiver's counter has seen exactly what has arrived.
PutOut(p) == dataOut[p] # {} => dataOut[p] = {round[Src[p]]} /\ sact[p]
PutNet(p) == /\ dataNet[p] # {} => dataNet[p] = {Sent(p)}
             /\ dataOut[p] = {} \/ dataNet[p] = {}
PutCount(p) ==
  /\ rcnt[p] \in {0, 1}
  /\ Flying(p) + (1 - rcnt[p]) = Sent(p) - Drained(p)
  /\ Flying(p) + (1 - rcnt[p]) <= 1
PutData(p) == /\ sbuf[p] = round[Src[p]]
              /\ rbuf[p] = IF rcnt[p] = 1 THEN Drained(p) ELSE Sent(p)

\* With clear-to-send, one put of READY pays for one message: it is under way, or
\* in the sender's word, or spent on a message the receiver has not taken.
Told(p) == rcts[p] = READY \/ (pc[Dst[p]] = "drain" /\ cur[Dst[p]] = p)
InWord(p) ==
  IF /\ scts[p] = READY
     /\ ~(pc[Src[p]] \in {"reap", "lower"} /\ cur[Src[p]] = p)
  THEN 1 ELSE 0
Credits(p) ==
  mcts[Src[p]] # DISABLED =>
    ctsOut[p] + ctsNet[p][READY] + InWord(p) + Flying(p) + (1 - rcnt[p])
      <= IF Told(p) THEN 1 ELSE 0

\* The receive buffer is QMP's from the announcement or the start to the wait.
Offers(p) ==
  /\ pc[Dst[p]] \notin {"idle", "freed"} => offered[p]
  /\ mcts[Dst[p]] = DISABLED => offered[p]
  /\ rcts[p] = READY => offered[p]
  /\ /\ mcts[Dst[p]] # DISABLED
     /\ \/ pc[Dst[p]] \in {"members", "drain"} /\ ~ract[p]
        \/ pc[Dst[p]] = "drain" /\ cur[Dst[p]] = p
     => rcts[p] = NOT_READY

\* Without clear-to-send the program's own promise keeps the sender behind.
Promises(p) ==
  mcts[Src[p]] = DISABLED /\ pc[Src[p]] \in Starting /\ ~sact[p]
    => Sent(p) = Drained(p)

PairInv(p) == /\ SendPhase(p) /\ RecvPhase(p)
              /\ PutOut(p) /\ PutNet(p) /\ PutCount(p) /\ PutData(p)
              /\ Credits(p) /\ Offers(p) /\ Promises(p)
SpiInv == TypeOK /\ OneMode /\ \A p \in Pair : PairInv(p)

\* The counts are integers, so that the provers can calculate with them.
LEMMA CountTypes ==
  ASSUME TypeOK, NEW q \in Pair
  PROVE  Sent(q) \in Int /\ Drained(q) \in Int /\ Flying(q) \in {0, 1}
BY PairAssumption DEF TypeOK, Sent, Drained, Flying

\* QMP_start: each receiver not told yet becomes told and one put of READY is
\* injected, which pays for one message.
LEMMA SafeStartRecvs ==
  ASSUME SpiInv, TypeOK', NEW m \in Multi, StartRecvs(m), NEW q \in Pair
  PROVE  PairInv(q)'
<1>1. Sent(q)' = Sent(q)
  BY DEF StartRecvs, SpiInv, Sent, Starting
<1>2. Drained(q)' = Drained(q)
  BY DEF StartRecvs, Recvs, SpiInv, TypeOK, Drained, Over
<1>3. \A r \in Pair : ract[r]' <=> ract[r] \/ Dst[r] = m
  BY DEF StartRecvs, Recvs
<1>4. Flying(q)' = Flying(q)
  BY DEF Flying, DataInFlight, StartRecvs, SpiInv
<1>5. Sent(q) \in Int /\ Drained(q) \in Int /\ Flying(q) \in {0, 1}
  BY CountTypes DEF SpiInv
<1>6. SendPhase(q)'
  BY DEF StartRecvs, SpiInv, PairInv, SendPhase
<1>7. RecvPhase(q)'
  BY <1>3 DEF StartRecvs, SpiInv, PairInv, TypeOK, RecvPhase
<1>8. PutOut(q)'
  BY DEF StartRecvs, SpiInv, PairInv, PutOut
<1>9. PutNet(q)'
  BY <1>1 DEF StartRecvs, SpiInv, PairInv, PutNet
<1>10. PutCount(q)'
  BY <1>1, <1>2, <1>4, <1>5 DEF StartRecvs, SpiInv, PairInv, PutCount
<1>11. PutData(q)'
  BY <1>1, <1>2 DEF StartRecvs, bufVars, SpiInv, PairInv, PutData
<1>12. Credits(q)'
  BY <1>4, <1>5
  DEF StartRecvs, Untold, Recvs, SpiInv, PairInv, TypeOK, Credits, Told,
      InWord
<1>13. Offers(q)'
  BY DEF StartRecvs, Untold, Recvs, bufVars, SpiInv, PairInv, TypeOK, Offers
<1>14. Promises(q)'
  BY <1>1, <1>2 DEF StartRecvs, SpiInv, PairInv, Promises, Starting
<1> QED BY <1>6, <1>7, <1>8, <1>9, <1>10, <1>11, <1>12, <1>13, <1>14 DEF PairInv

\* QMP_start returns: only the phase changes.
LEMMA SafeEndStart ==
  ASSUME SpiInv, TypeOK', NEW m \in Multi, EndStart(m), NEW q \in Pair
  PROVE  PairInv(q)'
<1>1. Sent(q)' = Sent(q)
  BY DEF EndStart, Sends, memberVars, netVars, bufVars, SpiInv, Sent, Starting
<1>2. Drained(q)' = Drained(q)
  BY DEF EndStart, memberVars, netVars, bufVars, SpiInv, Drained, Over
<1>3. Flying(q)' = Flying(q)
  BY DEF Flying, DataInFlight, EndStart, memberVars, netVars, bufVars, SpiInv
<1>4. Sent(q) \in Int /\ Drained(q) \in Int /\ Flying(q) \in {0, 1}
  BY CountTypes DEF SpiInv
<1>5. SendPhase(q)'
  BY DEF EndStart, Sends, memberVars, netVars, bufVars, SpiInv, PairInv,
         SendPhase
<1>6. RecvPhase(q)'
  BY DEF EndStart, memberVars, netVars, bufVars, SpiInv, PairInv, RecvPhase
<1>7. PutOut(q)'
  BY DEF EndStart, memberVars, netVars, bufVars, SpiInv, PairInv, PutOut
<1>8. PutNet(q)'
  BY <1>1 DEF EndStart, memberVars, netVars, bufVars, SpiInv, PairInv, PutNet
<1>9. PutCount(q)'
  BY <1>1, <1>2, <1>3, <1>4
  DEF EndStart, memberVars, netVars, bufVars, SpiInv, PairInv, PutCount
<1>10. PutData(q)'
  BY <1>1, <1>2
  DEF EndStart, memberVars, netVars, bufVars, SpiInv, PairInv, PutData
<1>11. Credits(q)'
  BY <1>3, <1>4
  DEF EndStart, memberVars, netVars, bufVars, SpiInv, PairInv, Credits,
      Told, InWord
<1>12. Offers(q)'
  BY DEF EndStart, memberVars, netVars, bufVars, SpiInv, PairInv, Offers
<1>13. Promises(q)'
  BY <1>1, <1>2
  DEF EndStart, memberVars, netVars, bufVars, SpiInv, PairInv, Promises,
      Starting
<1> QED BY <1>5, <1>6, <1>7, <1>8, <1>9, <1>10, <1>11, <1>12, <1>13 DEF PairInv

\* QMP_wait returns: the buffers of the receives go back to the program.
LEMMA SafeEndWait ==
  ASSUME SpiInv, TypeOK', NEW m \in Multi, EndWait(m), NEW q \in Pair
  PROVE  PairInv(q)'
<1>1. Sent(q)' = Sent(q)
  BY DEF EndWait, memberVars, netVars, SpiInv, Sent, Starting
<1>2. Drained(q)' = Drained(q)
  BY DEF EndWait, Sends, Recvs, memberVars, netVars, SpiInv, Drained, Over
<1>3. Flying(q)' = Flying(q)
  BY DEF Flying, DataInFlight, EndWait, memberVars, netVars, SpiInv
<1>4. Sent(q) \in Int /\ Drained(q) \in Int /\ Flying(q) \in {0, 1}
  BY CountTypes DEF SpiInv
<1>5. SendPhase(q)'
  BY DEF EndWait, Sends, Recvs, memberVars, netVars, SpiInv, PairInv, SendPhase
<1>6. RecvPhase(q)'
  BY DEF EndWait, Sends, Recvs, memberVars, netVars, SpiInv, PairInv, RecvPhase
<1>7. PutOut(q)'
  BY DEF EndWait, memberVars, netVars, SpiInv, PairInv, PutOut
<1>8. PutNet(q)'
  BY <1>1 DEF EndWait, memberVars, netVars, SpiInv, PairInv, PutNet
<1>9. PutCount(q)'
  BY <1>1, <1>2, <1>3, <1>4
  DEF EndWait, memberVars, netVars, SpiInv, PairInv, PutCount
<1>10. PutData(q)'
  BY <1>1, <1>2 DEF EndWait, memberVars, netVars, SpiInv, PairInv, PutData
<1>11. Credits(q)'
  BY <1>3, <1>4
  DEF EndWait, memberVars, netVars, SpiInv, PairInv, Credits, Told, InWord
<1>12. Offers(q)'
  BY DEF EndWait, Sends, Recvs, memberVars, netVars, SpiInv, PairInv,
         TypeOK, Offers
<1>13. Promises(q)'
  BY <1>1, <1>2
  DEF EndWait, memberVars, netVars, SpiInv, PairInv, Promises, Starting
<1> QED BY <1>5, <1>6, <1>7, <1>8, <1>9, <1>10, <1>11, <1>12, <1>13 DEF PairInv

\* QMP_start: the sender injects its message.  With clear-to-send it spends the
\* credit in its word; without, the promise says the receiver is done.
LEMMA SafeSendData ==
  ASSUME SpiInv, TypeOK', NEW p \in Pair, SendData(p), NEW q \in Pair
  PROVE  PairInv(q)'
<1>1. Sent(q)' = IF q = p THEN Sent(q) + 1 ELSE Sent(q)
  BY DEF SendData, SpiInv, TypeOK, Sent, Starting
<1>2. Drained(q)' = Drained(q)
  BY DEF SendData, SpiInv, Drained, Over
<1>3. ctsOut[q] \in Nat /\ ctsNet[q][READY] \in Nat
  BY DEF SpiInv, TypeOK
<1>4. rcnt' = rcnt /\ dataNet' = dataNet
  BY DEF SendData
<1>5. q = p => /\ pc[Src[q]] = "sends" /\ ~sact[q]
               /\ mcts[Src[q]] = DISABLED \/ scts[q] = READY
  BY DEF SendData, MaySend, SpiInv, TypeOK
<1>6. q = p => dataOut[q]' # {}
  BY DEF SendData, SpiInv, TypeOK
<1>7. q # p => dataOut[q]' = dataOut[q]
  BY DEF SendData, SpiInv
<1>8. Flying(q)' = IF q = p THEN 1 ELSE Flying(q)
  BY <1>4, <1>5, <1>6, <1>7 DEF Flying, DataInFlight, SendData, SpiInv
<1>9. Sent(q) \in Int /\ Drained(q) \in Int /\ Flying(q) \in {0, 1}
  BY CountTypes DEF SpiInv
<1>10. rcnt[q] \in {0, 1}
  BY DEF SpiInv, PairInv, PutCount
<1>11. q = p /\ mcts[Src[q]] # DISABLED => InWord(q) = 1
  BY <1>5 DEF InWord
<1>12. mcts[Src[q]] # DISABLED => InWord(q) + Flying(q) + (1 - rcnt[q]) <= 1
  BY <1>3, <1>9, <1>10 DEF SpiInv, PairInv, Credits, InWord, Told
<1>13. q = p /\ mcts[Src[q]] # DISABLED => Flying(q) = 0 /\ rcnt[q] = 1
  BY <1>9, <1>10, <1>11, <1>12
  DEF SpiInv
<1>14. q = p /\ mcts[Src[q]] = DISABLED => Flying(q) = 0 /\ rcnt[q] = 1
  BY <1>5, <1>9, <1>10
  DEF SpiInv, PairInv, Promises, PutCount, Starting
<1>15. q = p => Flying(q) = 0 /\ rcnt[q] = 1
  BY <1>13, <1>14 DEF SpiInv
<1>16. q = p => dataOut[q] = {} /\ dataNet[q] = {}
  BY <1>15 DEF Flying, DataInFlight
<1>17. q = p /\ mcts[Src[q]] # DISABLED => InWord(q) = 1 /\ InWord(q)' = 0
  BY <1>5 DEF SendData, InWord, SpiInv, TypeOK
<1>18. q # p => InWord(q)' = InWord(q)
  BY DEF SendData, InWord, SpiInv, TypeOK
<1>19. InWord(q) \in {0, 1}
  BY DEF InWord
<1>20. Told(q) => Told(q)'
  BY DEF SendData, Told, SpiInv
<1>22. ctsOut' = ctsOut /\ ctsNet' = ctsNet /\ mcts' = mcts
  BY DEF SendData
<1>23. rcnt[q]' = rcnt[q]
  BY DEF SendData, SpiInv
<1>24. SendPhase(q)'
  BY DEF SendData, SpiInv, PairInv, TypeOK, SendPhase
<1>25. RecvPhase(q)'
  BY <1>4, <1>5, <1>6, <1>7 DEF SendData, SpiInv, PairInv, RecvPhase
<1>26. PutOut(q)'
  BY DEF SendData, SpiInv, PairInv, TypeOK, PutOut, Flying, DataInFlight
<1>27. PutNet(q)'
  BY <1>1, <1>4, <1>16
  DEF SendData, SpiInv, PairInv, PutNet, Flying, DataInFlight, PutOut
<1>28. PutCount(q)'
  BY <1>1, <1>2, <1>8, <1>9, <1>15, <1>23
  DEF SpiInv, PairInv, PutCount
<1>29. PutData(q)'
  BY <1>1, <1>2, <1>15, <1>23
  DEF SendData, bufVars, SpiInv, PairInv, PutData
<1>30. Credits(q)'
  BY <1>3, <1>8, <1>9, <1>10, <1>15, <1>17, <1>18, <1>19, <1>20, <1>22,
     <1>23
  DEF SpiInv, PairInv, Credits
<1>31. Offers(q)'
  BY <1>4, <1>5, <1>6, <1>7 DEF SendData, bufVars, SpiInv, PairInv, Offers
<1>32. Promises(q)'
  BY <1>1, <1>2 DEF SendData, SpiInv, PairInv, TypeOK, Promises, Starting
<1> QED BY <1>24, <1>25, <1>26, <1>27, <1>28, <1>29, <1>30, <1>31, <1>32 DEF PairInv

\* QMP_start: the wait for the clear-to-send counter changes no count.
LEMMA SafeReap ==
  ASSUME SpiInv, TypeOK', NEW p \in Pair, Reap(p), NEW q \in Pair
  PROVE  PairInv(q)'
<1>1. Sent(q)' = Sent(q)
  BY DEF Reap, SpiInv, Sent, Starting
<1>2. Drained(q)' = Drained(q)
  BY DEF Reap, SpiInv, Drained, Over
<1>3. Flying(q)' = Flying(q)
  BY DEF Flying, DataInFlight, Reap, netVars, bufVars, SpiInv
<1>4. Sent(q) \in Int /\ Drained(q) \in Int /\ Flying(q) \in {0, 1}
  BY CountTypes DEF SpiInv
<1>5. SendPhase(q)'
  BY DEF Reap, SpiInv, PairInv, SendPhase
<1>6. RecvPhase(q)'
  BY DEF Reap, SpiInv, PairInv, RecvPhase
<1>7. PutOut(q)'
  BY DEF Reap, netVars, bufVars, SpiInv, PairInv, PutOut
<1>8. PutNet(q)'
  BY <1>1 DEF Reap, netVars, bufVars, SpiInv, PairInv, PutNet
<1>9. PutCount(q)'
  BY <1>1, <1>2, <1>3, <1>4 DEF Reap, SpiInv, PairInv, PutCount
<1>10. PutData(q)'
  BY <1>1, <1>2 DEF Reap, netVars, bufVars, SpiInv, PairInv, PutData
<1>11. Credits(q)'
  BY <1>3, <1>4
  DEF Reap, netVars, bufVars, SpiInv, PairInv, Credits, Told, InWord
<1>12. Offers(q)'
  BY DEF Reap, netVars, bufVars, SpiInv, PairInv, Offers
<1>13. Promises(q)'
  BY <1>1, <1>2 DEF Reap, SpiInv, PairInv, Promises, Starting
<1> QED BY <1>5, <1>6, <1>7, <1>8, <1>9, <1>10, <1>11, <1>12, <1>13 DEF PairInv

\* QMP_start: lowering the word can only lose a credit.
LEMMA SafeLower ==
  ASSUME SpiInv, TypeOK', NEW p \in Pair, Lower(p), NEW q \in Pair
  PROVE  PairInv(q)'
<1>1. Sent(q)' = Sent(q)
  BY DEF Lower, SpiInv, Sent, Starting
<1>2. Drained(q)' = Drained(q)
  BY DEF Lower, SpiInv, Drained, Over
<1>3. Flying(q)' = Flying(q)
  BY DEF Flying, DataInFlight, Lower, netVars, bufVars, SpiInv
<1>4. Sent(q) \in Int /\ Drained(q) \in Int /\ Flying(q) \in {0, 1}
  BY CountTypes DEF SpiInv
<1>5. SendPhase(q)'
  BY DEF Lower, SpiInv, PairInv, TypeOK, SendPhase
<1>6. RecvPhase(q)'
  BY DEF Lower, SpiInv, PairInv, RecvPhase
<1>7. PutOut(q)'
  BY DEF Lower, netVars, bufVars, SpiInv, PairInv, PutOut
<1>8. PutNet(q)'
  BY <1>1 DEF Lower, netVars, bufVars, SpiInv, PairInv, PutNet
<1>9. PutCount(q)'
  BY <1>1, <1>2, <1>3, <1>4 DEF Lower, SpiInv, PairInv, PutCount
<1>10. PutData(q)'
  BY <1>1, <1>2 DEF Lower, netVars, bufVars, SpiInv, PairInv, PutData
<1>11. Credits(q)'
  BY <1>3, <1>4
  DEF Lower, Lowered, netVars, bufVars, SpiInv, PairInv, TypeOK, Credits,
      Told, InWord, OneMode
<1>12. Offers(q)'
  BY DEF Lower, netVars, bufVars, SpiInv, PairInv, Offers
<1>13. Promises(q)'
  BY <1>1, <1>2 DEF Lower, SpiInv, PairInv, Promises, Starting
<1> QED BY <1>5, <1>6, <1>7, <1>8, <1>9, <1>10, <1>11, <1>12, <1>13 DEF PairInv

\* QMP_wait of a send member: its message has left the sender's buffer.
LEMMA SafeWaitSend ==
  ASSUME SpiInv, TypeOK', NEW p \in Pair, WaitSend(p), NEW q \in Pair
  PROVE  PairInv(q)'
<1>1. Sent(q)' = Sent(q)
  BY DEF WaitSend, callVars, netVars, bufVars, SpiInv, Sent, Starting
<1>2. Drained(q)' = Drained(q)
  BY DEF WaitSend, callVars, netVars, bufVars, SpiInv, Drained, Over
<1>3. Flying(q)' = Flying(q)
  BY DEF Flying, DataInFlight, WaitSend, callVars, netVars, bufVars, SpiInv
<1>4. Sent(q) \in Int /\ Drained(q) \in Int /\ Flying(q) \in {0, 1}
  BY CountTypes DEF SpiInv
<1>5. SendPhase(q)'
  BY DEF WaitSend, callVars, netVars, bufVars, SpiInv, PairInv, SendPhase
<1>6. RecvPhase(q)'
  BY DEF WaitSend, callVars, netVars, bufVars, SpiInv, PairInv, RecvPhase
<1>7. PutOut(q)'
  BY DEF WaitSend, callVars, netVars, bufVars, SpiInv, PairInv, PutOut
<1>8. PutNet(q)'
  BY <1>1 DEF WaitSend, callVars, netVars, bufVars, SpiInv, PairInv, PutNet
<1>9. PutCount(q)'
  BY <1>1, <1>2, <1>3, <1>4 DEF WaitSend, SpiInv, PairInv, PutCount
<1>10. PutData(q)'
  BY <1>1, <1>2
  DEF WaitSend, callVars, netVars, bufVars, SpiInv, PairInv, PutData
<1>11. Credits(q)'
  BY <1>3, <1>4
  DEF WaitSend, callVars, netVars, bufVars, SpiInv, PairInv, Credits, Told,
      InWord
<1>12. Offers(q)'
  BY DEF WaitSend, callVars, netVars, bufVars, SpiInv, PairInv, Offers
<1>13. Promises(q)'
  BY <1>1, <1>2
  DEF WaitSend, callVars, netVars, bufVars, SpiInv, PairInv, Promises,
      Starting
<1> QED BY <1>5, <1>6, <1>7, <1>8, <1>9, <1>10, <1>11, <1>12, <1>13 DEF PairInv

\* QMP_wait of a receive member, first part: no put of READY is unread.
LEMMA SafeWaitRecv ==
  ASSUME SpiInv, TypeOK', NEW p \in Pair, WaitRecv(p), NEW q \in Pair
  PROVE  PairInv(q)'
<1>1. Sent(q)' = Sent(q)
  BY DEF WaitRecv, SpiInv, Sent, Starting
<1>2. Drained(q)' = Drained(q)
  BY DEF WaitRecv, SpiInv, Drained, Over
<1>3. Flying(q)' = Flying(q)
  BY DEF Flying, DataInFlight, WaitRecv, netVars, bufVars, SpiInv
<1>4. Sent(q) \in Int /\ Drained(q) \in Int /\ Flying(q) \in {0, 1}
  BY CountTypes DEF SpiInv
<1>5. SendPhase(q)'
  BY DEF WaitRecv, SpiInv, PairInv, SendPhase
<1>6. RecvPhase(q)'
  BY DEF WaitRecv, SpiInv, PairInv, TypeOK, RecvPhase
<1>7. PutOut(q)'
  BY DEF WaitRecv, netVars, bufVars, SpiInv, PairInv, PutOut
<1>8. PutNet(q)'
  BY <1>1 DEF WaitRecv, netVars, bufVars, SpiInv, PairInv, PutNet
<1>9. PutCount(q)'
  BY <1>1, <1>2, <1>3, <1>4 DEF WaitRecv, SpiInv, PairInv, PutCount
<1>10. PutData(q)'
  BY <1>1, <1>2 DEF WaitRecv, netVars, bufVars, SpiInv, PairInv, PutData
<1>11. Credits(q)'
  BY <1>3, <1>4
  DEF WaitRecv, netVars, bufVars, SpiInv, PairInv, TypeOK, Credits, Told,
      InWord
<1>12. Offers(q)'
  BY DEF WaitRecv, netVars, bufVars, SpiInv, PairInv, TypeOK, Offers
<1>13. Promises(q)'
  BY <1>1, <1>2 DEF WaitRecv, SpiInv, PairInv, Promises, Starting
<1> QED BY <1>5, <1>6, <1>7, <1>8, <1>9, <1>10, <1>11, <1>12, <1>13 DEF PairInv

\* QMP_wait of a receive member, second part: the message that had arrived is
\* taken, and with it the credit it cost.
LEMMA SafeDrainRecv ==
  ASSUME SpiInv, TypeOK', NEW p \in Pair, DrainRecv(p), NEW q \in Pair
  PROVE  PairInv(q)'
<1>1. Sent(q)' = Sent(q)
  BY DEF DrainRecv, SpiInv, Sent, Starting
<1>2. Drained(q)' = IF q = p THEN Drained(q) + 1 ELSE Drained(q)
  BY DEF DrainRecv, SpiInv, PairInv, TypeOK, SendPhase, RecvPhase, Drained,
         Over
<1>3. Flying(q)' = Flying(q)
  BY DEF Flying, DataInFlight, DrainRecv, netVars, bufVars, SpiInv
<1>4. Sent(q) \in Int /\ Drained(q) \in Int /\ Flying(q) \in {0, 1}
  BY CountTypes DEF SpiInv
<1>5. q = p => Flying(q) = 0 /\ rcnt[q] = 0
  BY <1>2, <1>3, <1>4 DEF DrainRecv, Counted, SpiInv, PairInv, PutCount
<1>6. ctsOut[q] \in Nat /\ ctsNet[q][READY] \in Nat
  BY DEF SpiInv, TypeOK
<1>7. InWord(q)' = InWord(q)
  BY DEF DrainRecv, InWord, SpiInv
<1>8. InWord(q) \in {0, 1}
  BY DEF InWord
<1>9. q # p /\ Told(q) => Told(q)'
  BY DEF DrainRecv, Told, SpiInv
<1>10. rcnt[q] \in {0, 1}
  BY DEF SpiInv, PairInv, PutCount
<1>11. ctsOut' = ctsOut /\ ctsNet' = ctsNet /\ mcts' = mcts
  BY DEF DrainRecv, netVars
<1>12. rcnt[q]' = IF q = p THEN 1 ELSE rcnt[q]
  BY DEF DrainRecv, SpiInv, TypeOK
<1>13. SendPhase(q)'
  BY DEF DrainRecv, SpiInv, PairInv, SendPhase
<1>14. RecvPhase(q)'
  BY DEF DrainRecv, SpiInv, PairInv, TypeOK, RecvPhase
<1>15. PutOut(q)'
  BY DEF DrainRecv, netVars, bufVars, SpiInv, PairInv, PutOut
<1>16. PutNet(q)'
  BY <1>1 DEF DrainRecv, netVars, bufVars, SpiInv, PairInv, PutNet
<1>17. PutCount(q)'
  BY <1>1, <1>2, <1>3, <1>4, <1>5, <1>12
  DEF DrainRecv, SpiInv, PairInv, PutCount
<1>18. PutData(q)'
  BY <1>1, <1>2, <1>4, <1>5, <1>12
  DEF DrainRecv, netVars, bufVars, SpiInv, PairInv, PutData, PutCount
<1>19. Credits(q)'
  BY <1>3, <1>4, <1>5, <1>6, <1>7, <1>8, <1>9, <1>10, <1>11, <1>12
  DEF SpiInv, PairInv, Credits
<1>20. Offers(q)'
  BY DEF DrainRecv, netVars, bufVars, SpiInv, PairInv, TypeOK, Offers
<1>21. Promises(q)'
  BY <1>1, <1>2, <1>4, <1>5
  DEF DrainRecv, SpiInv, PairInv, Promises, Starting, PutCount, OneMode
<1> QED BY <1>13, <1>14, <1>15, <1>16, <1>17, <1>18, <1>19, <1>20, <1>21 DEF PairInv

\* The program's call of QMP_start: the next round begins.
LEMMA SafeStart ==
  ASSUME SpiInv, TypeOK', NEW m \in Multi, Start(m), NEW q \in Pair
  PROVE  PairInv(q)'
<1>1. Sent(q)' = Sent(q)
  BY PairAssumption
  DEF Start, memberVars, netVars, SpiInv, PairInv, TypeOK, SendPhase,
      RecvPhase, Sent, Starting
<1>2. Drained(q)' = Drained(q)
  BY PairAssumption
  DEF Start, memberVars, netVars, SpiInv, TypeOK, Drained, Over
<1>3. offered[q]' <=> offered[q] \/ Dst[q] = m
  BY DEF Start, Recvs
<1>4. Src[q] = m /\ mcts[m] = DISABLED
        => Sent(q) = round[m] /\ Drained(q) >= round[m]
  BY PairAssumption
  DEF Start, Promised, Sends, Sent, Starting, Drained, Over, SpiInv, TypeOK
<1>5. Flying(q)' = Flying(q)
  BY <1>4 DEF Flying, DataInFlight, Start, memberVars, netVars, SpiInv
<1>6. Sent(q) \in Int /\ Drained(q) \in Int /\ Flying(q) \in {0, 1}
  BY CountTypes DEF SpiInv
<1>7. Sent(q) >= Drained(q)
  BY <1>6 DEF SpiInv, PairInv, PutCount
<1>8. round[m] \in Int
  BY DEF SpiInv, TypeOK
<1>9. mcts' = mcts
  BY DEF Start
<1>10. Src[q] = m /\ mcts[m] = DISABLED => Sent(q) = Drained(q)
  BY <1>4, <1>6, <1>7, <1>8 DEF SpiInv
<1>11. Src[q] = m => Promises(q)'
  BY <1>1, <1>2, <1>9, <1>10 DEF Promises
<1>12. Src[q] # m => Promises(q)'
  BY <1>1, <1>2 DEF Start, Promises, Starting, memberVars, SpiInv, PairInv
<1>13. SendPhase(q)'
  BY DEF Start, memberVars, netVars, SpiInv, PairInv, SendPhase
<1>14. RecvPhase(q)'
  BY <1>4 DEF Start, memberVars, netVars, SpiInv, PairInv, RecvPhase
<1>15. PutOut(q)'
  BY DEF Start, memberVars, netVars, SpiInv, PairInv, PutOut, SendPhase
<1>16. PutNet(q)'
  BY <1>1 DEF Start, memberVars, netVars, SpiInv, PairInv, PutNet
<1>17. PutCount(q)'
  BY <1>1, <1>2, <1>5, <1>6
  DEF Start, memberVars, netVars, SpiInv, PairInv, PutCount
<1>18. PutData(q)'
  BY <1>1, <1>2
  DEF Start, Recvs, Sends, memberVars, netVars, SpiInv, PairInv, TypeOK,
      PutData
<1>19. Credits(q)'
  BY <1>5, <1>6
  DEF Start, memberVars, netVars, SpiInv, PairInv, Credits, Told, InWord
<1>20. Offers(q)'
  BY <1>3, <1>4 DEF Start, memberVars, netVars, SpiInv, PairInv, Offers
<1>21. Promises(q)'
  BY <1>11, <1>12 DEF SpiInv
<1> QED BY <1>13, <1>14, <1>15, <1>16, <1>17, <1>18, <1>19, <1>20, <1>21 DEF PairInv

\* The program's call of QMP_wait or QMP_is_complete.
LEMMA SafeBeginWait ==
  ASSUME SpiInv, TypeOK', NEW m \in Multi, BeginWait(m), NEW q \in Pair
  PROVE  PairInv(q)'
<1>1. Sent(q)' = Sent(q)
  BY DEF BeginWait, memberVars, netVars, bufVars, SpiInv, Sent, Starting
<1>2. Drained(q)' = Drained(q)
  BY DEF BeginWait, memberVars, netVars, bufVars, SpiInv, PairInv,
         SendPhase, RecvPhase, Drained, Over
<1>3. Flying(q)' = Flying(q)
  BY DEF Flying, DataInFlight, BeginWait, memberVars, netVars, bufVars, SpiInv
<1>4. Sent(q) \in Int /\ Drained(q) \in Int /\ Flying(q) \in {0, 1}
  BY CountTypes DEF SpiInv
<1>5. SendPhase(q)'
  BY DEF BeginWait, memberVars, netVars, bufVars, SpiInv, PairInv, SendPhase
<1>6. RecvPhase(q)'
  BY DEF BeginWait, memberVars, netVars, bufVars, SpiInv, PairInv, RecvPhase
<1>7. PutOut(q)'
  BY DEF BeginWait, memberVars, netVars, bufVars, SpiInv, PairInv, PutOut
<1>8. PutNet(q)'
  BY <1>1 DEF BeginWait, memberVars, netVars, bufVars, SpiInv, PairInv, PutNet
<1>9. PutCount(q)'
  BY <1>1, <1>2, <1>3, <1>4
  DEF BeginWait, memberVars, netVars, bufVars, SpiInv, PairInv, PutCount
<1>10. PutData(q)'
  BY <1>1, <1>2
  DEF BeginWait, memberVars, netVars, bufVars, SpiInv, PairInv, PutData
<1>11. Credits(q)'
  BY <1>3, <1>4
  DEF BeginWait, memberVars, netVars, bufVars, SpiInv, PairInv, Credits,
      Told, InWord
<1>12. Offers(q)'
  BY DEF BeginWait, memberVars, netVars, bufVars, SpiInv, PairInv, Offers,
         RecvPhase
<1>13. Promises(q)'
  BY <1>1, <1>2
  DEF BeginWait, memberVars, netVars, bufVars, SpiInv, PairInv, Promises,
      Starting
<1> QED BY <1>5, <1>6, <1>7, <1>8, <1>9, <1>10, <1>11, <1>12, <1>13 DEF PairInv

\* QMP_clear_to_send: as the receives of QMP_start, earlier.
LEMMA SafeClearToSend ==
  ASSUME SpiInv, TypeOK', NEW m \in Multi, ClearToSend(m), NEW q \in Pair
  PROVE  PairInv(q)'
<1>1. Sent(q)' = Sent(q)
  BY DEF ClearToSend, SpiInv, Sent, Starting
<1>2. Drained(q)' = Drained(q)
  BY DEF ClearToSend, SpiInv, Drained, Over
<1>3. ctsOut[q] \in Nat /\ ctsNet[q][READY] \in Nat
  BY DEF SpiInv, TypeOK
<1>4. offered[q]' <=> offered[q] \/ Dst[q] = m
  BY DEF ClearToSend, Recvs
<1>5. rcts[q]' = IF Dst[q] = m THEN READY ELSE rcts[q]
  BY DEF ClearToSend, Recvs, SpiInv
<1>6. ctsOut[q]' = IF Dst[q] = m /\ rcts[q] # READY
                   THEN ctsOut[q] + 1 ELSE ctsOut[q]
  BY DEF ClearToSend, Recvs, SpiInv
<1>7. Flying(q)' = Flying(q)
  BY <1>4, <1>5, <1>6 DEF Flying, DataInFlight, ClearToSend, SpiInv
<1>8. Sent(q) \in Int /\ Drained(q) \in Int /\ Flying(q) \in {0, 1}
  BY CountTypes DEF SpiInv
<1>9. InWord(q)' = InWord(q) /\ InWord(q) \in {0, 1}
  BY DEF ClearToSend, InWord, SpiInv
<1>10. Told(q)' <=> Told(q) \/ Dst[q] = m
  BY <1>4, <1>5, <1>6 DEF ClearToSend, Told, SpiInv
<1>11. Dst[q] = m /\ rcts[q] # READY => ~Told(q)
  BY DEF ClearToSend, Told
<1>12. mcts[Src[q]]' # DISABLED => mcts[Src[q]] # DISABLED
  BY DEF ClearToSend, OneMode, SpiInv
<1>13. rcnt' = rcnt /\ ctsNet' = ctsNet /\ rcnt[q] \in {0, 1}
  BY DEF ClearToSend, SpiInv, PairInv, PutCount
<1>14. SendPhase(q)'
  BY DEF ClearToSend, SpiInv, PairInv, SendPhase
<1>15. RecvPhase(q)'
  BY <1>4, <1>5, <1>6 DEF ClearToSend, SpiInv, PairInv, RecvPhase
<1>16. PutOut(q)'
  BY DEF ClearToSend, SpiInv, PairInv, PutOut
<1>17. PutNet(q)'
  BY <1>1 DEF ClearToSend, SpiInv, PairInv, PutNet
<1>18. PutCount(q)'
  BY <1>1, <1>2, <1>7, <1>8 DEF ClearToSend, SpiInv, PairInv, PutCount
<1>19. PutData(q)'
  BY <1>1, <1>2 DEF ClearToSend, SpiInv, PairInv, PutData
<1>20. Credits(q)'
  BY <1>3, <1>5, <1>6, <1>7, <1>8, <1>9, <1>10, <1>11, <1>12, <1>13
  DEF SpiInv, PairInv, Credits
<1>21. Offers(q)'
  BY <1>4, <1>5, <1>6 DEF ClearToSend, SpiInv, PairInv, Offers
<1>22. Promises(q)'
  BY <1>1, <1>2 DEF ClearToSend, SpiInv, PairInv, Promises, Starting
<1> QED BY <1>14, <1>15, <1>16, <1>17, <1>18, <1>19, <1>20, <1>21, <1>22 DEF PairInv

\* QMP_free_msghandle: no count changes.
LEMMA SafeFree ==
  ASSUME SpiInv, TypeOK', NEW m \in Multi, Free(m), NEW q \in Pair
  PROVE  PairInv(q)'
<1>1. Sent(q)' = Sent(q)
  BY DEF Free, SpiInv, Sent, Starting
<1>2. Drained(q)' = Drained(q)
  BY DEF Free, SpiInv, Drained, Over
<1>3. Flying(q)' = Flying(q)
  BY DEF Flying, DataInFlight, Free, netVars, bufVars, SpiInv
<1>4. Sent(q) \in Int /\ Drained(q) \in Int /\ Flying(q) \in {0, 1}
  BY CountTypes DEF SpiInv
<1>5. SendPhase(q)'
  BY DEF Free, SpiInv, PairInv, SendPhase
<1>6. RecvPhase(q)'
  BY DEF Free, SpiInv, PairInv, RecvPhase
<1>7. PutOut(q)'
  BY DEF Free, netVars, bufVars, SpiInv, PairInv, PutOut
<1>8. PutNet(q)'
  BY <1>1 DEF Free, netVars, bufVars, SpiInv, PairInv, PutNet
<1>9. PutCount(q)'
  BY <1>1, <1>2, <1>3, <1>4 DEF Free, SpiInv, PairInv, PutCount
<1>10. PutData(q)'
  BY <1>1, <1>2 DEF Free, netVars, bufVars, SpiInv, PairInv, PutData
<1>11. Credits(q)'
  BY <1>3, <1>4
  DEF Free, netVars, bufVars, SpiInv, PairInv, Credits, Told, InWord
<1>12. Offers(q)'
  BY DEF Free, netVars, bufVars, SpiInv, PairInv, Offers
<1>13. Promises(q)'
  BY <1>1, <1>2 DEF Free, SpiInv, PairInv, Promises, Starting
<1> QED BY <1>5, <1>6, <1>7, <1>8, <1>9, <1>10, <1>11, <1>12, <1>13 DEF PairInv

\* The unit reads the word of a clear-to-send.
LEMMA SafeCtsRead ==
  ASSUME SpiInv, TypeOK', NEW p \in Pair, CtsRead(p), NEW q \in Pair
  PROVE  PairInv(q)'
<1>1. Sent(q)' = Sent(q)
  BY DEF CtsRead, callVars, memberVars, bufVars, SpiInv, Sent, Starting
<1>2. Drained(q)' = Drained(q)
  BY DEF CtsRead, callVars, memberVars, bufVars, SpiInv, Drained, Over
<1>3. Flying(q)' = Flying(q)
  BY DEF Flying, DataInFlight, CtsRead, SpiInv
<1>4. Sent(q) \in Int /\ Drained(q) \in Int /\ Flying(q) \in {0, 1}
  BY CountTypes DEF SpiInv
<1>5. SendPhase(q)'
  BY DEF CtsRead, callVars, memberVars, bufVars, SpiInv, PairInv, SendPhase
<1>6. RecvPhase(q)'
  BY DEF CtsRead, callVars, memberVars, bufVars, SpiInv, PairInv, RecvPhase
<1>7. PutOut(q)'
  BY DEF CtsRead, callVars, memberVars, bufVars, SpiInv, PairInv, PutOut
<1>8. PutNet(q)'
  BY <1>1 DEF CtsRead, SpiInv, PairInv, PutNet
<1>9. PutCount(q)'
  BY <1>1, <1>2, <1>3, <1>4
  DEF CtsRead, callVars, memberVars, bufVars, SpiInv, PairInv, PutCount
<1>10. PutData(q)'
  BY <1>1, <1>2
  DEF CtsRead, callVars, memberVars, bufVars, SpiInv, PairInv, PutData
<1>11. Credits(q)'
  BY <1>3, <1>4
  DEF CtsRead, callVars, memberVars, bufVars, SpiInv, PairInv, TypeOK,
      Credits, Told, InWord
<1>12. Offers(q)'
  BY DEF CtsRead, callVars, memberVars, bufVars, SpiInv, PairInv, Offers
<1>13. Promises(q)'
  BY <1>1, <1>2
  DEF CtsRead, callVars, memberVars, bufVars, SpiInv, PairInv, Promises,
      Starting
<1> QED BY <1>5, <1>6, <1>7, <1>8, <1>9, <1>10, <1>11, <1>12, <1>13 DEF PairInv

\* The unit stores a clear-to-send in the sender's word.
LEMMA SafeCtsStore ==
  ASSUME SpiInv, TypeOK', NEW p \in Pair, CtsStore(p), NEW q \in Pair
  PROVE  PairInv(q)'
<1>1. Sent(q)' = Sent(q)
  BY DEF CtsStore, callVars, bufVars, SpiInv, Sent, Starting
<1>2. Drained(q)' = Drained(q)
  BY DEF CtsStore, callVars, bufVars, SpiInv, Drained, Over
<1>3. Flying(q)' = Flying(q)
  BY DEF Flying, DataInFlight, CtsStore, SpiInv
<1>4. Sent(q) \in Int /\ Drained(q) \in Int /\ Flying(q) \in {0, 1}
  BY CountTypes DEF SpiInv
<1>5. SendPhase(q)'
  BY DEF CtsStore, callVars, bufVars, SpiInv, PairInv, SendPhase
<1>6. RecvPhase(q)'
  BY DEF CtsStore, callVars, bufVars, SpiInv, PairInv, RecvPhase
<1>7. PutOut(q)'
  BY DEF CtsStore, callVars, bufVars, SpiInv, PairInv, PutOut
<1>8. PutNet(q)'
  BY <1>1 DEF CtsStore, SpiInv, PairInv, PutNet
<1>9. PutCount(q)'
  BY <1>1, <1>2, <1>3, <1>4 DEF CtsStore, SpiInv, PairInv, PutCount
<1>10. PutData(q)'
  BY <1>1, <1>2 DEF CtsStore, callVars, bufVars, SpiInv, PairInv, PutData
<1>11. Credits(q)'
  BY <1>3, <1>4
  DEF CtsStore, callVars, bufVars, SpiInv, PairInv, TypeOK, Credits, Told,
      InWord
<1>12. Offers(q)'
  BY DEF CtsStore, callVars, bufVars, SpiInv, PairInv, Offers
<1>13. Promises(q)'
  BY <1>1, <1>2
  DEF CtsStore, callVars, bufVars, SpiInv, PairInv, Promises, Starting
<1> QED BY <1>5, <1>6, <1>7, <1>8, <1>9, <1>10, <1>11, <1>12, <1>13 DEF PairInv

\* The unit counts a clear-to-send.
LEMMA SafeCtsCount ==
  ASSUME SpiInv, TypeOK', NEW p \in Pair, CtsCount(p), NEW q \in Pair
  PROVE  PairInv(q)'
<1>1. Sent(q)' = Sent(q)
  BY DEF CtsCount, callVars, bufVars, SpiInv, Sent, Starting
<1>2. Drained(q)' = Drained(q)
  BY DEF CtsCount, callVars, bufVars, SpiInv, Drained, Over
<1>3. Flying(q)' = Flying(q)
  BY DEF Flying, DataInFlight, CtsCount, SpiInv
<1>4. Sent(q) \in Int /\ Drained(q) \in Int /\ Flying(q) \in {0, 1}
  BY CountTypes DEF SpiInv
<1>5. SendPhase(q)'
  BY DEF CtsCount, callVars, bufVars, SpiInv, PairInv, SendPhase
<1>6. RecvPhase(q)'
  BY DEF CtsCount, callVars, bufVars, SpiInv, PairInv, RecvPhase
<1>7. PutOut(q)'
  BY DEF CtsCount, callVars, bufVars, SpiInv, PairInv, PutOut
<1>8. PutNet(q)'
  BY <1>1 DEF CtsCount, SpiInv, PairInv, PutNet
<1>9. PutCount(q)'
  BY <1>1, <1>2, <1>3, <1>4 DEF CtsCount, SpiInv, PairInv, PutCount
<1>10. PutData(q)'
  BY <1>1, <1>2 DEF CtsCount, callVars, bufVars, SpiInv, PairInv, PutData
<1>11. Credits(q)'
  BY <1>3, <1>4
  DEF CtsCount, callVars, bufVars, SpiInv, PairInv, Credits, Told, InWord
<1>12. Offers(q)'
  BY DEF CtsCount, callVars, bufVars, SpiInv, PairInv, Offers
<1>13. Promises(q)'
  BY <1>1, <1>2
  DEF CtsCount, callVars, bufVars, SpiInv, PairInv, Promises, Starting
<1> QED BY <1>5, <1>6, <1>7, <1>8, <1>9, <1>10, <1>11, <1>12, <1>13 DEF PairInv

\* The unit reads the sender's buffer: still the round's data.
LEMMA SafeDataRead ==
  ASSUME SpiInv, TypeOK', NEW p \in Pair, DataRead(p), NEW q \in Pair
  PROVE  PairInv(q)'
<1>1. Sent(q)' = Sent(q)
  BY DEF DataRead, callVars, memberVars, bufVars, SpiInv, Sent, Starting
<1>2. Drained(q)' = Drained(q)
  BY DEF DataRead, callVars, memberVars, bufVars, SpiInv, Drained, Over
<1>3. q # p => dataOut[q]' = dataOut[q] /\ dataNet[q]' = dataNet[q]
  BY DEF DataRead, SpiInv
<1>4. q = p => dataOut[q] = {round[Src[q]]}
  BY DEF DataRead, SpiInv, PairInv, PutOut
<1>5. \E k \in dataOut[p] : dataOut' = [dataOut EXCEPT ![p] = @ \ {k}]
  BY DEF DataRead
<1>6. q = p => dataOut[q]' = {}
  BY PairAssumption, <1>4, <1>5 DEF SpiInv, TypeOK
<1>7. q = p => dataNet[q] = {} /\ dataNet[q]' = {sbuf[q]}
  <2>1. dataNet' = [dataNet EXCEPT ![p] = @ \cup {sbuf[p]}] /\ p \in DOMAIN dataNet
    BY DEF DataRead, SpiInv, TypeOK
  <2>2. dataNet'[p] = dataNet[p] \cup {sbuf[p]}
    BY <2>1
  <2>3. q = p => dataOut[q] # {}
    BY <1>4
  <2>4. dataOut[q] # {} => dataNet[q] = {}
    BY DEF SpiInv, PairInv, PutNet
  <2> QED  BY <2>2, <2>3, <2>4
<1>8. Flying(q)' = Flying(q)
  BY <1>3, <1>4, <1>5, <1>6, <1>7 DEF Flying, DataInFlight
<1>9. Sent(q) \in Int /\ Drained(q) \in Int /\ Flying(q) \in {0, 1}
  BY CountTypes DEF SpiInv
<1>10. SendPhase(q)'
  BY DEF DataRead, callVars, memberVars, bufVars, SpiInv, PairInv, SendPhase
<1>11. RecvPhase(q)'
  BY <1>4, <1>5, <1>6, <1>7
  DEF DataRead, callVars, memberVars, bufVars, SpiInv, PairInv, RecvPhase
<1>12. PutOut(q)'
  BY DEF DataRead, callVars, memberVars, bufVars, SpiInv, PairInv, PutOut
<1>13. PutNet(q)'
  BY <1>1, <1>3, <1>4, <1>6, <1>7
  DEF DataRead, callVars, memberVars, bufVars, SpiInv, PairInv, PutNet,
      PutOut, PutData, Sent, Starting, Flying, DataInFlight
<1>14. PutCount(q)'
  BY <1>1, <1>2, <1>8, <1>9
  DEF DataRead, callVars, memberVars, bufVars, SpiInv, PairInv, PutCount
<1>15. PutData(q)'
  BY <1>1, <1>2
  DEF DataRead, callVars, memberVars, bufVars, SpiInv, PairInv, PutData
<1>16. Credits(q)'
  BY <1>8, <1>9
  DEF DataRead, callVars, memberVars, bufVars, SpiInv, PairInv, Credits,
      Told, InWord
<1>17. Offers(q)'
  BY <1>4, <1>5, <1>6, <1>7
  DEF DataRead, callVars, memberVars, bufVars, SpiInv, PairInv, Offers
<1>18. Promises(q)'
  BY <1>1, <1>2
  DEF DataRead, callVars, memberVars, bufVars, SpiInv, PairInv, Promises,
      Starting
<1> QED BY <1>10, <1>11, <1>12, <1>13, <1>14, <1>15, <1>16, <1>17, <1>18 DEF PairInv

\* The unit stores the data and counts it.
LEMMA SafeDataStore ==
  ASSUME SpiInv, TypeOK', NEW p \in Pair, DataStore(p), NEW q \in Pair
  PROVE  PairInv(q)'
<1>1. Sent(q)' = Sent(q)
  BY DEF DataStore, callVars, SpiInv, Sent, Starting
<1>2. Drained(q)' = Drained(q)
  BY DEF DataStore, callVars, SpiInv, Drained, Over
<1>3. dataOut' = dataOut
  BY DEF DataStore
<1>4. q # p => dataNet[q]' = dataNet[q] /\ rbuf[q]' = rbuf[q]
  BY DEF DataStore, SpiInv
<1>5. q = p => dataNet[q] = {Sent(q)} /\ dataOut[q] = {}
  BY DEF DataStore, SpiInv, PairInv, PutNet
<1>6. q = p => dataNet[q]' = {} /\ rbuf[q]' = Sent(q)
  BY <1>5 DEF DataStore, SpiInv, TypeOK
<1>7. Flying(q)' = IF q = p THEN 0 ELSE Flying(q)
  BY <1>3, <1>4, <1>5, <1>6 DEF Flying, DataInFlight
<1>8. Sent(q) \in Int /\ Drained(q) \in Int /\ Flying(q) \in {0, 1}
  BY CountTypes DEF SpiInv
<1>9. q = p => Flying(q) = 1
  BY <1>4, <1>5, <1>6 DEF Flying, DataInFlight
<1>10. rcnt[q]' = IF q = p THEN rcnt[q] - 1 ELSE rcnt[q]
  BY DEF DataStore, SpiInv, TypeOK
<1>11. q = p => rcnt[q] = 1
  BY <1>9, <1>10 DEF SpiInv, PairInv, PutCount
<1>12. SendPhase(q)'
  BY DEF DataStore, callVars, SpiInv, PairInv, SendPhase
<1>13. RecvPhase(q)'
  BY <1>4, <1>5, <1>6 DEF DataStore, callVars, SpiInv, PairInv, RecvPhase
<1>14. PutOut(q)'
  BY DEF DataStore, callVars, SpiInv, PairInv, PutOut
<1>15. PutNet(q)'
  BY <1>1 DEF DataStore, SpiInv, PairInv, PutNet, Flying, DataInFlight, PutOut
<1>16. PutCount(q)'
  BY <1>1, <1>2, <1>7, <1>8, <1>9, <1>10, <1>11
  DEF SpiInv, PairInv, PutCount
<1>17. PutData(q)'
  BY <1>1, <1>2, <1>4, <1>6, <1>10, <1>11
  DEF DataStore, callVars, SpiInv, PairInv, PutData, PutNet
<1>18. Credits(q)'
  BY PairAssumption, <1>2, <1>3, <1>4, <1>5, <1>6, <1>7, <1>8, <1>9, <1>10,
     <1>11, SMTT(60)
  DEF DataStore, callVars, SpiInv, PairInv, TypeOK, Credits, Told, InWord,
      OneMode, PutCount
<1>19. Offers(q)'
  BY <1>4, <1>5, <1>6 DEF DataStore, callVars, SpiInv, PairInv, Offers
<1>20. Promises(q)'
  BY <1>1, <1>2 DEF DataStore, callVars, SpiInv, PairInv, Promises, Starting
<1> QED BY <1>12, <1>13, <1>14, <1>15, <1>16, <1>17, <1>18, <1>19, <1>20 DEF PairInv

-----------------------------------------------------------------------------
(* The theorems *)

\* The inductive invariant holds initially.
LEMMA SpiInit == Init => SpiInv
<1> SUFFICES ASSUME Init PROVE SpiInv
  OBVIOUS
<1>1. TypeOK
  BY TypeInit
<1>2. OneMode
  BY DEF Init, OneMode
<1>3. ASSUME NEW p \in Pair PROVE PairInv(p)
  <2>1. SendPhase(p) /\ RecvPhase(p) /\ PutOut(p) /\ Offers(p)
    BY PairAssumption DEF Init, SendPhase, RecvPhase, PutOut, Offers
  <2>2. Sent(p) = 0 /\ Drained(p) = 0 /\ Flying(p) = 0
    BY PairAssumption
    DEF Init, Sent, Starting, Drained, Over, Flying, DataInFlight
  <2>3. PutNet(p) /\ PutCount(p) /\ PutData(p) /\ Promises(p)
    BY <2>2, PairAssumption DEF Init, PutNet, PutCount, PutData, Promises
  <2>4. Credits(p)
    BY <2>2, PairAssumption DEF Init, Credits, InWord, Told
  <2> QED BY <2>1, <2>3, <2>4 DEF PairInv
<1> QED BY <1>1, <1>2, <1>3 DEF SpiInv

\* The program's choice to disable clear-to-send is for good.
LEMMA ModeStep ==
  ASSUME SpiInv, [Next]_vars
  PROVE  OneMode'
<1>1. early' = early
  BY SMTT(60) DEF Next, Inside, Call, Unit, vars, callVars, StartRecvs, EndStart,
         EndWait,
         SendData, Reap, Lower, WaitSend, WaitRecv, DrainRecv, Start, BeginWait,
         ClearToSend, Free, CtsRead, CtsStore, CtsCount, DataRead, DataStore
<1>2. \/ mcts' = mcts
      \/ \E m \in Multi : EndStart(m) \/ ClearToSend(m)
  BY DEF Next, Inside, Call, Unit, vars, callVars, StartRecvs, EndWait,
         SendData, Reap, Lower, WaitSend, WaitRecv, DrainRecv, Start, BeginWait,
         Free, CtsRead, CtsStore, CtsCount, DataRead, DataStore
<1>3. CASE mcts' = mcts
  BY <1>1, <1>3 DEF SpiInv, OneMode
<1>4. ASSUME NEW m \in Multi, EndStart(m) PROVE OneMode'
  BY <1>1, <1>4 DEF EndStart, SpiInv, TypeOK, OneMode
<1>5. ASSUME NEW m \in Multi, ClearToSend(m) PROVE OneMode'
  BY <1>1, <1>5 DEF ClearToSend, SpiInv, TypeOK, OneMode
<1> QED BY <1>2, <1>3, <1>4, <1>5

\* Every step keeps the inductive invariant.
LEMMA SpiNext == SpiInv /\ [Next]_vars => SpiInv'
<1> SUFFICES ASSUME SpiInv, [Next]_vars PROVE SpiInv'
  OBVIOUS
<1>1. TypeOK'
  BY TypeNext DEF SpiInv
<1>2. OneMode'
  BY ModeStep
<1>3. ASSUME NEW q \in Pair PROVE PairInv(q)'
  <2>1. CASE UNCHANGED vars
    <3>1. PairInv(q)
      BY DEF SpiInv
    <3> QED BY <2>1, <3>1
      DEF vars, callVars, memberVars, netVars, bufVars, PairInv, SendPhase,
          RecvPhase, PutOut, PutNet, PutCount, PutData, Credits, Offers, Promises,
          Sent, Starting, Drained, Over, Flying, DataInFlight, Told, InWord
  <2>2. ASSUME NEW m \in Multi, Inside(m) PROVE PairInv(q)'
    <3>1. CASE StartRecvs(m) \/ EndStart(m) \/ EndWait(m)
      BY <1>1, <3>1, SafeStartRecvs, SafeEndStart, SafeEndWait
    <3>2. ASSUME NEW p \in Sends(m),
                 SendData(p) \/ Reap(p) \/ Lower(p) \/ WaitSend(p)
          PROVE  PairInv(q)'
      BY <1>1, <3>2, SafeSendData, SafeReap, SafeLower, SafeWaitSend DEF Sends
    <3>3. ASSUME NEW p \in Recvs(m), WaitRecv(p) \/ DrainRecv(p)
          PROVE  PairInv(q)'
      BY <1>1, <3>3, SafeWaitRecv, SafeDrainRecv DEF Recvs
    <3> QED BY <2>2, <3>1, <3>2, <3>3 DEF Inside
  <2>3. ASSUME NEW m \in Multi, Call(m) PROVE PairInv(q)'
    BY <1>1, <2>3, SafeStart, SafeBeginWait, SafeClearToSend, SafeFree DEF Call
  <2>4. ASSUME NEW p \in Pair, Unit(p) PROVE PairInv(q)'
    BY <1>1, <2>4, SafeCtsRead, SafeCtsStore, SafeCtsCount, SafeDataRead,
       SafeDataStore DEF Unit
  <2> QED BY <2>1, <2>2, <2>3, <2>4 DEF Next
<1> QED BY <1>1, <1>2, <1>3 DEF SpiInv

\* So it always holds.
LEMMA SpiInvHolds == Spec => []SpiInv
BY SpiInit, SpiNext, PTL DEF Spec

\* It implies the two properties.
LEMMA SpiInvSafe == SpiInv => NoUnsolicitedData /\ BufferIntact
<1> SUFFICES ASSUME SpiInv, NEW p \in Pair
             PROVE  /\ DataInFlight(p) => /\ offered[p] /\ rcnt[p] = 1
                                          /\ dataOut[p] = {} \/ dataNet[p] = {}
                    /\ ~offered[p] => rbuf[p] = round[Dst[p]]
  BY DEF NoUnsolicitedData, BufferIntact
<1>1. PairInv(p) /\ rcnt[p] \in {0, 1} /\ Flying(p) \in {0, 1}
  BY CountTypes DEF SpiInv, PairInv, PutCount
<1>2. mcts[Src[p]] = DISABLED <=> mcts[Dst[p]] = DISABLED
  BY PairAssumption DEF SpiInv, OneMode
<1>3. ctsOut[p] \in Nat /\ ctsNet[p][READY] \in Nat /\ InWord(p) \in {0, 1}
  BY DEF SpiInv, TypeOK, InWord
\* What is under way or stored was paid for, so the buffer is QMP's.
<1>4. Flying(p) + (1 - rcnt[p]) > 0 => offered[p]
  <2>1. CASE mcts[Src[p]] = DISABLED
    BY <1>1, <1>2, <2>1 DEF PairInv, Offers
  <2>2. CASE mcts[Src[p]] # DISABLED
    <3>1. Flying(p) + (1 - rcnt[p]) > 0 => Told(p)
      BY <1>1, <1>3, <2>2 DEF PairInv, Credits
    <3>2. Told(p) => offered[p]
      BY <1>1 DEF PairInv, Told, Offers
    <3> QED BY <3>1, <3>2
  <2> QED BY <2>1, <2>2
<1>5. DataInFlight(p) => Flying(p) = 1 /\ rcnt[p] = 1
  BY <1>1 DEF Flying, PairInv, PutCount
<1>6. ~offered[p] => rcnt[p] = 1
  BY <1>1, <1>4
<1>7. ~offered[p] => Drained(p) = round[Dst[p]]
  BY <1>1 DEF PairInv, Offers, Drained, Over
<1>8. DataInFlight(p) => offered[p]
  BY <1>1, <1>4, <1>5
<1> QED BY <1>1, <1>5, <1>6, <1>7, <1>8 DEF PairInv, PutNet, PutData

\* Every reachable state has the declared shape.
THEOREM SpiTypeCorrect == Spec => []TypeOK
BY TypeInit, TypeNext, PTL DEF Spec

\* A sender puts data only into a buffer its receiver has offered and one message
\* at a time, whatever the numbers of nodes, pairs and rounds and the order of
\* QMP_start, QMP_wait, QMP_clear_to_send and the puts.
THEOREM OnlyOfferedBuffers == Spec => []NoUnsolicitedData
BY SpiInvHolds, SpiInvSafe, PTL

\* What QMP_wait has returned stays in the buffer until it is offered again.
THEOREM ReceivedDataStays == Spec => []BufferIntact
BY SpiInvHolds, SpiInvSafe, PTL

-----------------------------------------------------------------------------
(* QMP_free_msghandle leaves no put under way to or from what it frees.  The
   invariant above counts the data; here the clear-to-send puts are counted
   against the times their counter was waited for and reset. *)

HIDE DEF DISABLED, NOT_READY, READY

\* Clear-to-send puts the receiver has injected: one for each round, as the
\* round's own QMP_start or an earlier QMP_clear_to_send announces it.
Ready(p) == IF rcts[p] = READY THEN 1 ELSE 0
Announced(p) ==
  LET m == Dst[p]
  IN CASE pc[m] = "recvs" -> round[m] - 1 + Ready(p)
       [] pc[m] \in {"idle", "freed"} -> round[m] + Ready(p)
       [] OTHER -> round[m]

\* Times the sender has waited for the counter of these puts and reset it: once
\* for each message, and in QMP_free_msghandle for the put it will not use.
LastReaped(p) == IF pc[Src[p]] = "freed" /\ mcts[Src[p]] = READY THEN 1 ELSE 0
Reaped(p) ==
  LET m == Src[p]
  IN IF pc[m] \in Starting /\ (~sact[p] \/ (pc[m] = "reap" /\ cur[m] = p))
     THEN round[m] - 1 ELSE round[m] + LastReaped(p)

\* Puts under way or counted since the counter was last reset.  A put that has
\* overtaken the reset is forgotten, so there may be fewer than announced.
Unreaped(p) == CtsInFlight(p) + (1 - scnt[p])
CtsCounted(p) ==
  /\ scnt[p] <= 1
  /\ IF mcts[Src[p]] = DISABLED THEN CtsInFlight(p) = 0
     ELSE Unreaped(p) <= Announced(p) - Reaped(p)

\* The receiver's own descriptors are gone once it has waited for them.
CtsWaited(p) ==
  LET m == Dst[p]
  IN /\ \/ pc[m] = "drain" /\ cur[m] = p
        \/ pc[m] \in {"members", "drain"} /\ ~ract[p]
        \/ pc[m] = "idle" /\ mcts[m] # READY
        \/ pc[m] = "freed"
        => ctsOut[p] = 0
     /\ pc[m] \in {"idle", "freed"} /\ rcts[p] = READY => mcts[m] = READY
     /\ mcts[m] = DISABLED => rcts[p] # READY

\* Between calls the multiple's field tells whether QMP_clear_to_send was called.
FieldTells(m) ==
  /\ pc[m] \in {"started", "members", "drain"} => mcts[m] # READY
  /\ pc[m] \in {"idle", "freed"} /\ mcts[m] = READY => round[m] \in early
  /\ pc[m] = "freed" => /\ round[m] = Rounds
                        /\ round[m] \in early => mcts[m] = READY

PairFree(p) == CtsCounted(p) /\ CtsWaited(p)
FreeInv == /\ SpiInv
           /\ \A m \in Multi : FieldTells(m)
           /\ \A p \in Pair : PairFree(p)

\* The counts are integers.
LEMMA PutTypes ==
  ASSUME TypeOK, NEW q \in Pair
  PROVE  /\ Announced(q) \in Int /\ Reaped(q) \in Int
         /\ ctsOut[q] \in Nat /\ ctsLanded[q] \in Nat /\ scnt[q] \in Int
         /\ ctsNet[q][READY] \in Nat /\ ctsNet[q][NOT_READY] \in Nat
         /\ CtsInFlight(q) \in Nat
<1>1. Src[q] \in Multi /\ Dst[q] \in Multi
  BY PairAssumption
<1>2. round[Src[q]] \in Int /\ round[Dst[q]] \in Int
  BY <1>1, PairAssumption DEF TypeOK
<1>3. Announced(q) \in Int /\ Reaped(q) \in Int
  BY <1>2 DEF Announced, Ready, Reaped, LastReaped
<1>4. /\ ctsOut[q] \in Nat /\ ctsLanded[q] \in Nat /\ scnt[q] \in Int
      /\ ctsNet[q][READY] \in Nat /\ ctsNet[q][NOT_READY] \in Nat
  BY DEF TypeOK, READY, NOT_READY
<1> QED BY <1>3, <1>4 DEF CtsInFlight

\* A step that moves none of the three counts and announces nothing.
LEMMA SameCounts ==
  ASSUME FreeInv, TypeOK', NEW q \in Pair,
         mcts[Src[q]] # DISABLED => /\ Announced(q)' = Announced(q)
                                    /\ Reaped(q)' = Reaped(q),
         CtsInFlight(q)' = CtsInFlight(q), scnt[q]' = scnt[q],
         mcts[Src[q]]' = DISABLED <=> mcts[Src[q]] = DISABLED
  PROVE  CtsCounted(q)'
<1>1. CtsCounted(q)
  BY DEF FreeInv, PairFree
<1> QED BY <1>1 DEF CtsCounted, Unreaped

\* QMP_start: what is announced now was not announced before.
LEMMA FreeStartRecvs ==
  ASSUME FreeInv, TypeOK', NEW m \in Multi, StartRecvs(m), NEW q \in Pair
  PROVE  PairFree(q)'
<1>1. SpiInv /\ TypeOK /\ OneMode /\ PairFree(q) /\ Src[q] \in Multi /\ Dst[q] \in Multi
  BY PairAssumption DEF FreeInv, SpiInv
<1>2. Reaped(q)' = Reaped(q)
  BY <1>1 DEF StartRecvs, TypeOK, Reaped, LastReaped, Starting
<1>3. /\ scnt' = scnt /\ mcts' = mcts /\ ctsNet' = ctsNet /\ ctsLanded' = ctsLanded
      /\ ctsOut[q]' = IF q \in Untold(m) THEN ctsOut[q] + 1 ELSE ctsOut[q]
  BY <1>1 DEF StartRecvs, TypeOK
<1>4. q \in Untold(m) => /\ Announced(q)' = Announced(q) + 1
                         /\ mcts[Src[q]] # DISABLED
  BY <1>1 DEF StartRecvs, Untold, Recvs, TypeOK, Announced, Ready, OneMode
<1>5. q \notin Untold(m) /\ mcts[Src[q]] # DISABLED => Announced(q)' = Announced(q)
  BY <1>1 DEF StartRecvs, Untold, Recvs, TypeOK, Announced, Ready, OneMode
<1>6. CtsInFlight(q)' = IF q \in Untold(m) THEN CtsInFlight(q) + 1 ELSE CtsInFlight(q)
  BY <1>1, <1>3, PutTypes DEF CtsInFlight
<1>7. CtsCounted(q)'
  <2>1. CASE q \in Untold(m)
    BY <1>1, <1>2, <1>3, <1>4, <1>6, <2>1, PutTypes DEF PairFree, CtsCounted, Unreaped
  <2>2. CASE q \notin Untold(m)
    BY <1>1, <1>2, <1>3, <1>5, <1>6, <2>2, PutTypes DEF PairFree, CtsCounted, Unreaped
  <2> QED BY <2>1, <2>2
<1>8. CtsWaited(q)'
  <2>1. CASE Dst[q] = m
    BY <1>1, <2>1 DEF StartRecvs, Untold, TypeOK, CtsWaited, PairFree
  <2>2. CASE Dst[q] # m
    BY <1>1, <2>2 DEF StartRecvs, Untold, Recvs, TypeOK, CtsWaited, PairFree
  <2> QED BY <2>1, <2>2
<1> QED BY <1>7, <1>8 DEF PairFree

\* QMP_start returns.
LEMMA FreeEndStart ==
  ASSUME FreeInv, TypeOK', NEW m \in Multi, EndStart(m), NEW q \in Pair
  PROVE  PairFree(q)'
<1>1. SpiInv /\ TypeOK /\ OneMode /\ PairFree(q) /\ Src[q] \in Multi /\ Dst[q] \in Multi
  BY PairAssumption DEF FreeInv, SpiInv
<1>2. Announced(q)' = Announced(q)
  BY <1>1 DEF EndStart, memberVars, TypeOK, Announced, Ready, FreeInv, FieldTells, SpiInv, Sends, PairInv, SendPhase, RecvPhase
<1>3. Reaped(q)' = Reaped(q)
  BY <1>1 DEF EndStart, memberVars, TypeOK, Reaped, LastReaped, Starting, FreeInv, FieldTells, SpiInv, Sends, PairInv, SendPhase, RecvPhase
<1>4. CtsInFlight(q)' = CtsInFlight(q) /\ scnt[q]' = scnt[q] /\ ctsOut' = ctsOut
  BY DEF EndStart, memberVars, netVars, CtsInFlight
<1>5. mcts[Src[q]]' = DISABLED <=> mcts[Src[q]] = DISABLED
  BY <1>1 DEF EndStart, callVars, TypeOK, DISABLED, READY, NOT_READY
<1>6. CtsCounted(q)'
  BY <1>2, <1>3, <1>4, <1>5, SameCounts
<1>7. CtsWaited(q)'
  <2>1. /\ mcts'[Dst[q]] = DISABLED <=> mcts[Dst[q]] = DISABLED
        /\ rcts' = rcts /\ ract' = ract /\ cur' = cur
    BY <1>1 DEF EndStart, memberVars, TypeOK, DISABLED, READY, NOT_READY
  <2>2. CASE Dst[q] = m
    <3>1. pc'[Dst[q]] = "started"
      BY <1>1, <2>2 DEF EndStart, TypeOK
    <3> QED BY <1>1, <2>1, <3>1 DEF CtsWaited, PairFree
  <2>3. CASE Dst[q] # m
    <3>1. pc'[Dst[q]] = pc[Dst[q]] /\ mcts'[Dst[q]] = mcts[Dst[q]]
      BY <1>1, <2>3 DEF EndStart, TypeOK
    <3> QED BY <1>1, <1>4, <2>1, <3>1 DEF CtsWaited, PairFree
  <2> QED BY <2>2, <2>3
<1> QED BY <1>6, <1>7 DEF PairFree

\* QMP_start injects a message; the counter is waited for next.
LEMMA FreeSendData ==
  ASSUME FreeInv, TypeOK', NEW p \in Pair, SendData(p), NEW q \in Pair
  PROVE  PairFree(q)'
<1>1. SpiInv /\ TypeOK /\ OneMode /\ PairFree(q) /\ Src[q] \in Multi /\ Dst[q] \in Multi
  BY PairAssumption DEF FreeInv, SpiInv
<1>2. Announced(q)' = Announced(q)
  BY <1>1 DEF SendData, memberVars, TypeOK, Announced, Ready, MaySend, SpiInv, PairInv, SendPhase
<1>3. ASSUME mcts[Src[q]] # DISABLED PROVE Reaped(q)' = Reaped(q)
  <2>1. CASE q = p
    <3>1. pc[Src[q]]' = "reap" /\ cur[Src[q]]' = q /\ ~sact[q] /\ pc[Src[q]] = "sends"
      BY <1>1, <1>3, <2>1 DEF SendData, MaySend, TypeOK
    <3> QED BY <3>1, <1>1 DEF SendData, Reaped, Starting
  <2>2. CASE q # p
    <3>1. sact'[q] = sact[q] /\ round' = round /\ mcts' = mcts
      BY <1>1, <2>2 DEF SendData, TypeOK
    <3>2. CASE Src[q] # Src[p]
      <4>1. pc'[Src[q]] = pc[Src[q]] /\ cur'[Src[q]] = cur[Src[q]]
        BY <1>1, <3>2 DEF SendData, TypeOK
      <4> QED BY <3>1, <4>1 DEF Reaped, LastReaped
    <3>3. CASE Src[q] = Src[p]
      <4>1. /\ pc[Src[q]] = "sends" /\ pc'[Src[q]] \in {"reap", "sends"}
            /\ pc'[Src[q]] = "reap" => cur'[Src[q]] # q
        BY <1>1, <2>2, <3>3 DEF SendData, TypeOK
      <4> QED BY <3>1, <4>1 DEF Reaped, LastReaped, Starting
    <3> QED BY <3>2, <3>3
  <2> QED BY <2>1, <2>2
<1>4. CtsInFlight(q)' = CtsInFlight(q) /\ scnt[q]' = scnt[q] /\ ctsOut' = ctsOut
  BY DEF SendData, memberVars, netVars, CtsInFlight
<1>5. mcts[Src[q]]' = DISABLED <=> mcts[Src[q]] = DISABLED
  BY <1>1 DEF SendData, callVars, TypeOK, DISABLED, READY, NOT_READY
<1>6. CtsCounted(q)'
  BY <1>2, <1>3, <1>4, <1>5, SameCounts
<1>7. CtsWaited(q)'
  BY <1>1, <1>4 DEF SendData, memberVars, callVars, TypeOK, CtsWaited, PairFree, MaySend, SpiInv, PairInv, SendPhase
<1> QED BY <1>6, <1>7 DEF PairFree

\* QMP_start lowers the word.
LEMMA FreeLower ==
  ASSUME FreeInv, TypeOK', NEW p \in Pair, Lower(p), NEW q \in Pair
  PROVE  PairFree(q)'
<1>1. SpiInv /\ TypeOK /\ OneMode /\ PairFree(q) /\ Src[q] \in Multi /\ Dst[q] \in Multi
  BY PairAssumption DEF FreeInv, SpiInv
<1>2. Announced(q)' = Announced(q)
  BY <1>1 DEF Lower, memberVars, TypeOK, Announced, Ready, SpiInv, PairInv, SendPhase
<1>3. Reaped(q)' = Reaped(q)
  BY <1>1 DEF Lower, memberVars, TypeOK, Reaped, LastReaped, Starting, SpiInv, PairInv, SendPhase
<1>4. CtsInFlight(q)' = CtsInFlight(q) /\ scnt[q]' = scnt[q] /\ ctsOut' = ctsOut
  BY DEF Lower, memberVars, netVars, CtsInFlight
<1>5. mcts[Src[q]]' = DISABLED <=> mcts[Src[q]] = DISABLED
  BY <1>1 DEF Lower, callVars, TypeOK, DISABLED, READY, NOT_READY
<1>6. CtsCounted(q)'
  BY <1>2, <1>3, <1>4, <1>5, SameCounts
<1>7. CtsWaited(q)'
  BY <1>1, <1>4 DEF Lower, memberVars, callVars, TypeOK, CtsWaited, PairFree, SpiInv, PairInv, SendPhase
<1> QED BY <1>6, <1>7 DEF PairFree

\* QMP_wait is called.
LEMMA FreeBeginWait ==
  ASSUME FreeInv, TypeOK', NEW m \in Multi, BeginWait(m), NEW q \in Pair
  PROVE  PairFree(q)'
<1>1. SpiInv /\ TypeOK /\ OneMode /\ PairFree(q) /\ Src[q] \in Multi /\ Dst[q] \in Multi
  BY PairAssumption DEF FreeInv, SpiInv
<1>2. Announced(q)' = Announced(q)
  BY <1>1 DEF BeginWait, memberVars, TypeOK, Announced, Ready, SpiInv, PairInv, SendPhase, RecvPhase
<1>3. Reaped(q)' = Reaped(q)
  BY <1>1 DEF BeginWait, memberVars, TypeOK, Reaped, LastReaped, Starting, SpiInv, PairInv, SendPhase, RecvPhase
<1>4. CtsInFlight(q)' = CtsInFlight(q) /\ scnt[q]' = scnt[q] /\ ctsOut' = ctsOut
  BY DEF BeginWait, memberVars, netVars, CtsInFlight
<1>5. mcts[Src[q]]' = DISABLED <=> mcts[Src[q]] = DISABLED
  BY <1>1 DEF BeginWait, callVars, TypeOK, DISABLED, READY, NOT_READY
<1>6. CtsCounted(q)'
  BY <1>2, <1>3, <1>4, <1>5, SameCounts
<1>7. CtsWaited(q)'
  BY <1>1, <1>4 DEF BeginWait, memberVars, callVars, TypeOK, CtsWaited, PairFree, SpiInv, PairInv, SendPhase, RecvPhase
<1> QED BY <1>6, <1>7 DEF PairFree

\* QMP_wait: a send has been read.
LEMMA FreeWaitSend ==
  ASSUME FreeInv, TypeOK', NEW p \in Pair, WaitSend(p), NEW q \in Pair
  PROVE  PairFree(q)'
<1>1. SpiInv /\ TypeOK /\ OneMode /\ PairFree(q) /\ Src[q] \in Multi /\ Dst[q] \in Multi
  BY PairAssumption DEF FreeInv, SpiInv
<1>2. Announced(q)' = Announced(q)
  BY <1>1 DEF WaitSend, memberVars, TypeOK, Announced, Ready, callVars
<1>3. Reaped(q)' = Reaped(q)
  BY <1>1 DEF WaitSend, memberVars, TypeOK, Reaped, LastReaped, Starting, callVars
<1>4. CtsInFlight(q)' = CtsInFlight(q) /\ scnt[q]' = scnt[q] /\ ctsOut' = ctsOut
  BY DEF WaitSend, memberVars, netVars, CtsInFlight
<1>5. mcts[Src[q]]' = DISABLED <=> mcts[Src[q]] = DISABLED
  BY <1>1 DEF WaitSend, callVars, TypeOK, DISABLED, READY, NOT_READY
<1>6. CtsCounted(q)'
  BY <1>2, <1>3, <1>4, <1>5, SameCounts
<1>7. CtsWaited(q)'
  BY <1>1, <1>4 DEF WaitSend, memberVars, callVars, TypeOK, CtsWaited, PairFree, callVars
<1> QED BY <1>6, <1>7 DEF PairFree

\* QMP_wait: the data of a receive has arrived.
LEMMA FreeDrainRecv ==
  ASSUME FreeInv, TypeOK', NEW p \in Pair, DrainRecv(p), NEW q \in Pair
  PROVE  PairFree(q)'
<1>1. SpiInv /\ TypeOK /\ OneMode /\ PairFree(q) /\ Src[q] \in Multi /\ Dst[q] \in Multi
  BY PairAssumption DEF FreeInv, SpiInv
<1>2. Announced(q)' = Announced(q)
  BY <1>1 DEF DrainRecv, memberVars, TypeOK, Announced, Ready, SpiInv, PairInv, RecvPhase, Offers
<1>3. Reaped(q)' = Reaped(q)
  BY <1>1 DEF DrainRecv, memberVars, TypeOK, Reaped, LastReaped, Starting, SpiInv, PairInv, RecvPhase, Offers
<1>4. CtsInFlight(q)' = CtsInFlight(q) /\ scnt[q]' = scnt[q] /\ ctsOut' = ctsOut
  BY DEF DrainRecv, memberVars, netVars, CtsInFlight
<1>5. mcts[Src[q]]' = DISABLED <=> mcts[Src[q]] = DISABLED
  BY <1>1 DEF DrainRecv, callVars, TypeOK, DISABLED, READY, NOT_READY
<1>6. CtsCounted(q)'
  BY <1>2, <1>3, <1>4, <1>5, SameCounts
<1>7. CtsWaited(q)'
  BY <1>1, <1>4 DEF DrainRecv, memberVars, callVars, TypeOK, CtsWaited, PairFree, SpiInv, PairInv, RecvPhase, Offers
<1> QED BY <1>6, <1>7 DEF PairFree

\* QMP_wait: the descriptors of a receive have been read.
LEMMA FreeWaitRecv ==
  ASSUME FreeInv, TypeOK', NEW p \in Pair, WaitRecv(p), NEW q \in Pair
  PROVE  PairFree(q)'
<1>1. SpiInv /\ TypeOK /\ OneMode /\ PairFree(q) /\ Src[q] \in Multi /\ Dst[q] \in Multi
  BY PairAssumption DEF FreeInv, SpiInv
<1>2. Announced(q)' = Announced(q)
  BY <1>1 DEF WaitRecv, memberVars, TypeOK, Announced, Ready, SpiInv, PairInv, RecvPhase, Recvs, CtsCounted
<1>3. Reaped(q)' = Reaped(q)
  BY <1>1 DEF WaitRecv, memberVars, TypeOK, Reaped, LastReaped, Starting, SpiInv, PairInv, RecvPhase, Recvs, CtsCounted
<1>4. CtsInFlight(q)' = CtsInFlight(q) /\ scnt[q]' = scnt[q] /\ ctsOut' = ctsOut
  BY DEF WaitRecv, memberVars, netVars, CtsInFlight
<1>5. mcts[Src[q]]' = DISABLED <=> mcts[Src[q]] = DISABLED
  BY <1>1 DEF WaitRecv, callVars, TypeOK, DISABLED, READY, NOT_READY
<1>6. CtsCounted(q)'
  BY <1>2, <1>3, <1>4, <1>5, SameCounts
<1>7. CtsWaited(q)'
  <2>1. mcts' = mcts /\ ract' = ract /\ NOT_READY # READY
    BY DEF WaitRecv, NOT_READY, READY
  <2>2. CASE q = p
    <3>1. ctsOut[q] = 0
      <4>1. CASE mcts[Dst[q]] = DISABLED
        <5>1. mcts[Src[q]] = DISABLED
          BY <1>1, <4>1 DEF OneMode
        <5>2. CtsInFlight(q) = 0
          BY <1>1, <5>1 DEF PairFree, CtsCounted
        <5> QED BY <1>1, <5>2, PutTypes DEF CtsInFlight
      <4> QED BY <2>2, <4>1 DEF WaitRecv
    <3>2. pc'[Dst[q]] = "drain" /\ rcts'[q] = (IF mcts[Dst[q]] # DISABLED THEN NOT_READY ELSE rcts[q])
      BY <1>1, <2>2 DEF WaitRecv, TypeOK
    <3> QED BY <1>1, <1>4, <2>1, <3>1, <3>2 DEF CtsWaited, PairFree
  <2>3. CASE q # p /\ Dst[q] = Dst[p]
    <3>1. /\ pc[Dst[q]] = "members" /\ pc'[Dst[q]] = "drain"
          /\ cur'[Dst[q]] # q /\ rcts'[q] = rcts[q]
      BY <1>1, <2>3 DEF WaitRecv, TypeOK
    <3> QED BY <1>1, <1>4, <2>1, <3>1 DEF CtsWaited, PairFree
  <2>4. CASE Dst[q] # Dst[p]
    BY <1>1, <1>4, <2>1, <2>4 DEF WaitRecv, TypeOK, CtsWaited, PairFree
  <2> QED BY <2>2, <2>3, <2>4
<1> QED BY <1>6, <1>7 DEF PairFree

\* QMP_wait returns: no receive is left that is not waited for.
LEMMA FreeEndWait ==
  ASSUME FreeInv, TypeOK', NEW m \in Multi, EndWait(m), NEW q \in Pair
  PROVE  PairFree(q)'
<1>1. SpiInv /\ TypeOK /\ OneMode /\ PairFree(q) /\ Src[q] \in Multi /\ Dst[q] \in Multi
  BY PairAssumption DEF FreeInv, SpiInv
<1>2. Announced(q)' = Announced(q)
  <2>1. CASE Dst[q] = m
    <3>1. pc[Dst[q]] = "members" /\ pc'[Dst[q]] = "idle" /\ ~ract[q]
      BY <1>1, <2>1 DEF EndWait, Recvs, TypeOK
    <3>2. rcts[q] # READY /\ rcts' = rcts /\ round' = round
      BY <1>1, <2>1, <3>1
      DEF EndWait, memberVars, PairFree, CtsWaited, SpiInv, PairInv, Offers, NOT_READY, READY
    <3> QED BY <1>1, <3>1, <3>2, PairAssumption DEF TypeOK, Announced, Ready
  <2>2. CASE Dst[q] # m
    BY <1>1, <2>2 DEF EndWait, memberVars, TypeOK, Announced, Ready
  <2> QED BY <2>1, <2>2
<1>3. Reaped(q)' = Reaped(q)
  <2>1. round' = round /\ sact' = sact /\ mcts' = mcts /\ cur' = cur
    BY DEF EndWait, memberVars
  <2>2. CASE Src[q] = m
    <3>1. pc[Src[q]] = "members" /\ pc'[Src[q]] = "idle"
      BY <1>1, <2>2 DEF EndWait, TypeOK
    <3> QED BY <2>1, <3>1 DEF Reaped, LastReaped, Starting
  <2>3. CASE Src[q] # m
    <3>1. pc'[Src[q]] = pc[Src[q]]
      BY <1>1, <2>3 DEF EndWait, TypeOK
    <3> QED BY <2>1, <3>1 DEF Reaped, LastReaped
  <2> QED BY <2>2, <2>3
<1>4. CtsInFlight(q)' = CtsInFlight(q) /\ scnt[q]' = scnt[q] /\ ctsOut' = ctsOut
  BY DEF EndWait, memberVars, netVars, CtsInFlight
<1>5. mcts[Src[q]]' = DISABLED <=> mcts[Src[q]] = DISABLED
  BY <1>1 DEF EndWait, callVars, TypeOK, DISABLED, READY, NOT_READY
<1>6. CtsCounted(q)'
  BY <1>2, <1>3, <1>4, <1>5, SameCounts
<1>7. CtsWaited(q)'
  <2>1. rcts' = rcts /\ mcts' = mcts /\ ract' = ract
    BY DEF EndWait, memberVars
  <2>2. CASE Dst[q] = m
    <3>1. pc[Dst[q]] = "members" /\ pc'[Dst[q]] = "idle" /\ ~ract[q]
      BY <1>1, <2>2 DEF EndWait, Recvs, TypeOK
    <3>2. rcts[q] # READY
      BY <1>1, <2>2, <3>1 DEF PairFree, CtsWaited, SpiInv, PairInv, Offers, NOT_READY, READY
    <3> QED BY <1>1, <1>4, <2>1, <3>1, <3>2 DEF PairFree, CtsWaited
  <2>3. CASE Dst[q] # m
    BY <1>1, <1>4, <2>1, <2>3 DEF EndWait, TypeOK, CtsWaited, PairFree
  <2> QED BY <2>2, <2>3
<1> QED BY <1>6, <1>7 DEF PairFree

\* The program calls QMP_start: the round that was announced early is the present one.
LEMMA FreeStart ==
  ASSUME FreeInv, TypeOK', NEW m \in Multi, Start(m), NEW q \in Pair
  PROVE  PairFree(q)'
<1>1. SpiInv /\ TypeOK /\ OneMode /\ PairFree(q) /\ Src[q] \in Multi /\ Dst[q] \in Multi
  BY PairAssumption DEF FreeInv, SpiInv
<1>2. Announced(q)' = Announced(q)
  BY <1>1 DEF Start, memberVars, TypeOK, Announced, Ready, FreeInv, FieldTells, SpiInv, PairInv, SendPhase, RecvPhase
<1>3. Reaped(q)' = Reaped(q)
  <2>1. round[m] \in Int /\ round'[m] = round[m] + 1
    BY <1>1, PairAssumption DEF Start, TypeOK
  <2>2. CASE Src[q] = m
    <3>1. pc[Src[q]] = "idle" /\ pc'[Src[q]] = "recvs" /\ ~sact'[q]
      BY <1>1, <2>2 DEF Start, memberVars, TypeOK, SpiInv, PairInv, SendPhase
    <3> QED BY <2>1, <2>2, <3>1 DEF Reaped, LastReaped, Starting
  <2>3. CASE Src[q] # m
    BY <1>1, <2>3 DEF Start, memberVars, TypeOK, Reaped, LastReaped
  <2> QED BY <2>2, <2>3
<1>4. CtsInFlight(q)' = CtsInFlight(q) /\ scnt[q]' = scnt[q] /\ ctsOut' = ctsOut
  BY DEF Start, memberVars, netVars, CtsInFlight
<1>5. mcts[Src[q]]' = DISABLED <=> mcts[Src[q]] = DISABLED
  BY <1>1 DEF Start, callVars, TypeOK, DISABLED, READY, NOT_READY
<1>6. CtsCounted(q)'
  BY <1>2, <1>3, <1>4, <1>5, SameCounts
<1>7. CtsWaited(q)'
  <2>1. rcts' = rcts /\ mcts' = mcts /\ ract' = ract /\ cur' = cur
    BY DEF Start, memberVars
  <2>2. CASE Dst[q] = m
    <3>1. pc'[Dst[q]] = "recvs"
      BY <1>1, <2>2 DEF Start, TypeOK
    <3> QED BY <1>1, <2>1, <3>1 DEF CtsWaited, PairFree
  <2>3. CASE Dst[q] # m
    <3>1. pc'[Dst[q]] = pc[Dst[q]]
      BY <1>1, <2>3 DEF Start, TypeOK
    <3> QED BY <1>1, <1>4, <2>1, <3>1 DEF CtsWaited, PairFree
  <2> QED BY <2>2, <2>3
<1> QED BY <1>6, <1>7 DEF PairFree

\* The unit reads the data.
LEMMA FreeDataRead ==
  ASSUME FreeInv, TypeOK', NEW p \in Pair, DataRead(p), NEW q \in Pair
  PROVE  PairFree(q)'
<1>1. SpiInv /\ TypeOK /\ OneMode /\ PairFree(q) /\ Src[q] \in Multi /\ Dst[q] \in Multi
  BY PairAssumption DEF FreeInv, SpiInv
<1>2. Announced(q)' = Announced(q)
  BY <1>1 DEF DataRead, memberVars, TypeOK, Announced, Ready, callVars
<1>3. Reaped(q)' = Reaped(q)
  BY <1>1 DEF DataRead, memberVars, TypeOK, Reaped, LastReaped, Starting, callVars
<1>4. CtsInFlight(q)' = CtsInFlight(q) /\ scnt[q]' = scnt[q] /\ ctsOut' = ctsOut
  BY DEF DataRead, memberVars, netVars, CtsInFlight
<1>5. mcts[Src[q]]' = DISABLED <=> mcts[Src[q]] = DISABLED
  BY <1>1 DEF DataRead, callVars, TypeOK, DISABLED, READY, NOT_READY
<1>6. CtsCounted(q)'
  BY <1>2, <1>3, <1>4, <1>5, SameCounts
<1>7. CtsWaited(q)'
  BY <1>1, <1>4 DEF DataRead, memberVars, callVars, TypeOK, CtsWaited, PairFree, callVars
<1> QED BY <1>6, <1>7 DEF PairFree

\* The unit stores the data.
LEMMA FreeDataStore ==
  ASSUME FreeInv, TypeOK', NEW p \in Pair, DataStore(p), NEW q \in Pair
  PROVE  PairFree(q)'
<1>1. SpiInv /\ TypeOK /\ OneMode /\ PairFree(q) /\ Src[q] \in Multi /\ Dst[q] \in Multi
  BY PairAssumption DEF FreeInv, SpiInv
<1>2. Announced(q)' = Announced(q)
  BY <1>1 DEF DataStore, memberVars, TypeOK, Announced, Ready, callVars
<1>3. Reaped(q)' = Reaped(q)
  BY <1>1 DEF DataStore, memberVars, TypeOK, Reaped, LastReaped, Starting, callVars
<1>4. CtsInFlight(q)' = CtsInFlight(q) /\ scnt[q]' = scnt[q] /\ ctsOut' = ctsOut
  BY DEF DataStore, memberVars, netVars, CtsInFlight
<1>5. mcts[Src[q]]' = DISABLED <=> mcts[Src[q]] = DISABLED
  BY <1>1 DEF DataStore, callVars, TypeOK, DISABLED, READY, NOT_READY
<1>6. CtsCounted(q)'
  BY <1>2, <1>3, <1>4, <1>5, SameCounts
<1>7. CtsWaited(q)'
  BY <1>1, <1>4 DEF DataStore, memberVars, callVars, TypeOK, CtsWaited, PairFree, callVars
<1> QED BY <1>6, <1>7 DEF PairFree

\* QMP_start resets the counter of the clear-to-send puts: a put at least was counted.
LEMMA FreeReap ==
  ASSUME FreeInv, TypeOK', NEW p \in Pair, Reap(p), NEW q \in Pair
  PROVE  PairFree(q)'
<1>1. SpiInv /\ TypeOK /\ OneMode /\ PairFree(q) /\ Src[q] \in Multi /\ Dst[q] \in Multi
  BY PairAssumption DEF FreeInv, SpiInv
<1>2. Announced(q)' = Announced(q)
  BY <1>1 DEF Reap, TypeOK, Announced, Ready
<1>3. CtsInFlight(q)' = CtsInFlight(q) /\ ctsOut' = ctsOut /\ mcts' = mcts
  BY DEF Reap, netVars, CtsInFlight
<1>4. CASE q = p
  <2>1. scnt[q] <= 0 /\ scnt'[q] = 1
    BY <1>1, <1>4 DEF Reap, TypeOK
  <2>2. Reaped(q)' = Reaped(q) + 1
    <3>1. /\ pc[Src[q]] = "reap" /\ cur[Src[q]] = q /\ pc'[Src[q]] = "lower" /\ sact[q]
          /\ sact' = sact /\ round' = round
      BY <1>1, <1>4 DEF Reap, TypeOK, SpiInv, PairInv, SendPhase
    <3>2. round[Src[q]] \in Int
      BY <1>1, PairAssumption DEF TypeOK
    <3> QED BY <3>1, <3>2 DEF Reaped, LastReaped, Starting
  <2>3. mcts[Src[q]] # DISABLED
    BY <1>1, <1>4 DEF Reap, SpiInv, PairInv, SendPhase
  <2>4. CtsCounted(q)'
    BY <1>1, <1>2, <1>3, <2>1, <2>2, <2>3, PutTypes DEF CtsCounted, PairFree, Unreaped
  <2>5. CtsWaited(q)'
    BY <1>1, <1>3 DEF Reap, TypeOK, CtsWaited, PairFree
  <2> QED BY <2>4, <2>5 DEF PairFree
<1>5. CASE q # p
  <2>1. scnt'[q] = scnt[q]
    BY <1>1, <1>5 DEF Reap, TypeOK
  <2>2. Reaped(q)' = Reaped(q)
    BY <1>1, <1>5 DEF Reap, TypeOK, Reaped, LastReaped, Starting
  <2>3. CtsCounted(q)'
    BY <1>2, <1>3, <2>1, <2>2, SameCounts
  <2>4. CtsWaited(q)'
    BY <1>1, <1>3 DEF Reap, TypeOK, CtsWaited, PairFree
  <2> QED BY <2>3, <2>4 DEF PairFree
<1> QED BY <1>4, <1>5

\* QMP_clear_to_send: one put is announced, injected and told of.
LEMMA FreeClearToSend ==
  ASSUME FreeInv, TypeOK', NEW m \in Multi, ClearToSend(m), NEW q \in Pair
  PROVE  PairFree(q)'
<1>1. SpiInv /\ TypeOK /\ OneMode /\ PairFree(q) /\ Src[q] \in Multi /\ Dst[q] \in Multi
  BY PairAssumption DEF FreeInv, SpiInv
<1>2. mcts[Src[q]] # DISABLED /\ mcts[Dst[q]] # DISABLED /\ mcts[m] # DISABLED
  BY <1>1 DEF ClearToSend, OneMode
<1>3. mcts'[Src[q]] # DISABLED /\ mcts'[Dst[q]] # DISABLED
  BY <1>1, <1>2 DEF ClearToSend, TypeOK, READY, DISABLED
<1>4. Reaped(q)' = Reaped(q)
  BY <1>1 DEF ClearToSend, TypeOK, Reaped, LastReaped, Starting
<1>5. scnt' = scnt /\ ctsNet' = ctsNet /\ ctsLanded' = ctsLanded
      /\ round' = round /\ pc' = pc /\ cur' = cur /\ ract' = ract
  BY DEF ClearToSend
<1>6. CASE Dst[q] = m /\ rcts[q] # READY
  <2>1. /\ ctsOut'[q] = ctsOut[q] + 1 /\ rcts'[q] = READY /\ pc[Dst[q]] = "idle"
        /\ mcts'[Dst[q]] = READY
    BY <1>1, <1>6 DEF ClearToSend, Recvs, TypeOK
  <2>2. round[Dst[q]] \in Int
    BY <1>1, PairAssumption DEF TypeOK
  <2>3. Announced(q)' = Announced(q) + 1
    BY <1>5, <1>6, <2>1, <2>2 DEF Announced, Ready
  <2>4. CtsInFlight(q)' = CtsInFlight(q) + 1
    BY <1>1, <1>5, <2>1, PutTypes DEF CtsInFlight
  <2>5. CtsCounted(q)'
    BY <1>1, <1>2, <1>3, <1>4, <1>5, <2>3, <2>4, PutTypes DEF CtsCounted, PairFree, Unreaped
  <2> QED BY <1>3, <1>5, <2>1, <2>5 DEF CtsWaited, PairFree
<1>7. CASE ~(Dst[q] = m /\ rcts[q] # READY)
  <2>1. ctsOut'[q] = ctsOut[q] /\ rcts'[q] = rcts[q]
    BY <1>1, <1>7 DEF ClearToSend, Recvs, TypeOK
  <2>2. Announced(q)' = Announced(q) /\ CtsInFlight(q)' = CtsInFlight(q)
    BY <1>5, <2>1 DEF Announced, Ready, CtsInFlight
  <2>3. CtsCounted(q)'
    BY <1>2, <1>3, <1>4, <1>5, <2>2, SameCounts
  <2>4. \/ mcts'[Dst[q]] = mcts[Dst[q]]
        \/ mcts'[Dst[q]] = READY /\ pc[Dst[q]] = "idle"
    BY <1>1 DEF ClearToSend, TypeOK
  <2>5. CtsWaited(q)'
    BY <1>1, <1>3, <1>5, <2>1, <2>4 DEF CtsWaited, PairFree
  <2> QED BY <2>3, <2>5 DEF PairFree
<1> QED BY <1>6, <1>7

\* QMP_free_msghandle resets the counter for the put that is announced for a
\* message that will not be sent.
LEMMA FreeFree ==
  ASSUME FreeInv, TypeOK', NEW m \in Multi, Free(m), NEW q \in Pair
  PROVE  PairFree(q)'
<1>1. SpiInv /\ TypeOK /\ OneMode /\ PairFree(q) /\ Src[q] \in Multi /\ Dst[q] \in Multi
  BY PairAssumption DEF FreeInv, SpiInv
<1>2. Announced(q)' = Announced(q)
  BY <1>1 DEF Free, TypeOK, Announced, Ready
<1>3. CtsInFlight(q)' = CtsInFlight(q) /\ ctsOut' = ctsOut /\ mcts' = mcts
      /\ rcts' = rcts /\ ract' = ract /\ cur' = cur /\ round' = round /\ sact' = sact
  BY DEF Free, netVars, CtsInFlight
<1>4. CtsCounted(q)'
  <2>1. CASE Src[q] = m /\ mcts[m] = READY
    <3>1. scnt[q] <= 0 /\ scnt'[q] = 1 /\ pc[Src[q]] = "idle" /\ pc'[Src[q]] = "freed"
      BY <1>1, <2>1 DEF Free, CtsSettled, Sends, TypeOK
    <3>2. round[Src[q]] \in Int
      BY <1>1, PairAssumption DEF TypeOK
    <3>3. Reaped(q)' = Reaped(q) + 1
      BY <1>3, <2>1, <3>1, <3>2 DEF Reaped, LastReaped, Starting
    <3>4. mcts[Src[q]] # DISABLED
      BY <2>1 DEF READY, DISABLED
    <3> QED BY <1>1, <1>2, <1>3, <3>1, <3>3, <3>4, PutTypes DEF CtsCounted, PairFree, Unreaped
  <2>2. CASE ~(Src[q] = m /\ mcts[m] = READY)
    <3>1. scnt'[q] = scnt[q]
      BY <1>1, <2>2 DEF Free, Sends, TypeOK
    <3>2. Reaped(q)' = Reaped(q)
      BY <1>1, <1>3, <2>2 DEF Free, TypeOK, Reaped, LastReaped, Starting
    <3> QED BY <1>2, <1>3, <3>1, <3>2, SameCounts
  <2> QED BY <2>1, <2>2
<1>5. CtsWaited(q)'
  <2>1. CASE Dst[q] = m
    <3>1. pc[Dst[q]] = "idle" /\ pc'[Dst[q]] = "freed"
      BY <1>1, <2>1 DEF Free, TypeOK
    <3>2. ctsOut[q] = 0
      BY <1>1, <2>1, <3>1 DEF Free, CtsSettled, Recvs, PairFree, CtsWaited
    <3> QED BY <1>1, <1>3, <3>1, <3>2 DEF CtsWaited, PairFree
  <2>2. CASE Dst[q] # m
    BY <1>1, <1>3, <2>2 DEF Free, TypeOK, CtsWaited, PairFree
  <2> QED BY <2>1, <2>2
<1> QED BY <1>4, <1>5 DEF PairFree

\* The unit reads a clear-to-send descriptor.
LEMMA FreeCtsRead ==
  ASSUME FreeInv, TypeOK', NEW p \in Pair, CtsRead(p), NEW q \in Pair
  PROVE  PairFree(q)'
<1>1. SpiInv /\ TypeOK /\ PairFree(q) /\ rcts[p] \in {NOT_READY, READY}
  BY DEF FreeInv, SpiInv, TypeOK
<1>2. callVars' = callVars /\ sact' = sact /\ ract' = ract /\ rcts' = rcts /\ scnt' = scnt
      /\ ctsLanded' = ctsLanded
  BY DEF CtsRead, memberVars
<1>3. Announced(q)' = Announced(q) /\ Reaped(q)' = Reaped(q)
  BY <1>2 DEF callVars, Announced, Ready, Reaped, LastReaped
<1>4. CASE q = p
  <2>1. ctsOut[q] > 0 /\ ctsOut'[q] = ctsOut[q] - 1
    BY <1>1, <1>4 DEF CtsRead, TypeOK
  <2>2. ctsNet'[q] = [ctsNet[q] EXCEPT ![rcts[q]] = @ + 1]
    BY <1>1, <1>4 DEF CtsRead, TypeOK
  <2>3. ctsNet'[q][READY] + ctsNet'[q][NOT_READY] = ctsNet[q][READY] + ctsNet[q][NOT_READY] + 1
    BY <1>1, <1>4, <2>2 DEF TypeOK, READY, NOT_READY
  <2>4. CtsInFlight(q)' = CtsInFlight(q)
    <3>1. ctsNet'[q][READY] \in Nat /\ ctsNet'[q][NOT_READY] \in Nat
      BY DEF TypeOK, READY, NOT_READY
    <3> QED BY <1>1, <1>2, <2>1, <2>3, <3>1, PutTypes DEF CtsInFlight
  <2>5. CtsCounted(q)'
    BY <1>2, <1>3, <2>4, SameCounts DEF callVars
  <2>6. CtsWaited(q)'
    BY <1>1, <1>2, <2>1, PutTypes DEF CtsWaited, PairFree, callVars
  <2> QED BY <2>5, <2>6 DEF PairFree
<1>5. CASE q # p
  <2>1. ctsOut'[q] = ctsOut[q] /\ ctsNet'[q] = ctsNet[q]
    BY <1>1, <1>5 DEF CtsRead, TypeOK
  <2>2. CtsCounted(q)'
    BY <1>2, <1>3, <2>1, SameCounts DEF callVars, CtsInFlight
  <2>3. CtsWaited(q)'
    BY <1>1, <1>2, <2>1 DEF CtsWaited, PairFree, callVars
  <2> QED BY <2>2, <2>3 DEF PairFree
<1> QED BY <1>4, <1>5

\* The unit stores a clear-to-send put.
LEMMA FreeCtsStore ==
  ASSUME FreeInv, TypeOK', NEW p \in Pair, CtsStore(p), NEW q \in Pair
  PROVE  PairFree(q)'
<1>1. SpiInv /\ TypeOK /\ PairFree(q)
  BY DEF FreeInv, SpiInv
<1>2. callVars' = callVars /\ sact' = sact /\ ract' = ract /\ rcts' = rcts /\ scnt' = scnt
      /\ ctsOut' = ctsOut
  BY DEF CtsStore
<1>3. Announced(q)' = Announced(q) /\ Reaped(q)' = Reaped(q)
  BY <1>2 DEF callVars, Announced, Ready, Reaped, LastReaped
<1>4. CtsInFlight(q)' = CtsInFlight(q)
  <2>1. CASE q = p
    <3>1. PICK v \in {NOT_READY, READY} : ctsNet' = [ctsNet EXCEPT ![p][v] = @ - 1]
      BY DEF CtsStore
    <3>2. ctsNet'[q] = [ctsNet[q] EXCEPT ![v] = @ - 1]
      BY <1>1, <2>1, <3>1 DEF TypeOK
    <3>3. ctsNet'[q][READY] + ctsNet'[q][NOT_READY] = ctsNet[q][READY] + ctsNet[q][NOT_READY] - 1
      BY <1>1, <3>2 DEF TypeOK, READY, NOT_READY
    <3>4. ctsLanded'[q] = ctsLanded[q] + 1
      BY <1>1, <2>1 DEF CtsStore, TypeOK
    <3>5. ctsNet'[q][READY] \in Nat /\ ctsNet'[q][NOT_READY] \in Nat
      BY DEF TypeOK, READY, NOT_READY
    <3> QED BY <1>1, <1>2, <3>3, <3>4, <3>5, PutTypes DEF CtsInFlight
  <2>2. CASE q # p
    <3>1. ctsNet'[q] = ctsNet[q] /\ ctsLanded'[q] = ctsLanded[q]
      BY <1>1, <2>2 DEF CtsStore, TypeOK
    <3> QED BY <1>2, <3>1 DEF CtsInFlight
  <2> QED BY <2>1, <2>2
<1>5. CtsCounted(q)'
  BY <1>2, <1>3, <1>4, SameCounts DEF callVars
<1>6. CtsWaited(q)'
  BY <1>1, <1>2 DEF CtsWaited, PairFree, callVars
<1> QED BY <1>5, <1>6 DEF PairFree

\* The unit counts a clear-to-send put.
LEMMA FreeCtsCount ==
  ASSUME FreeInv, TypeOK', NEW p \in Pair, CtsCount(p), NEW q \in Pair
  PROVE  PairFree(q)'
<1>1. SpiInv /\ TypeOK /\ PairFree(q)
  BY DEF FreeInv, SpiInv
<1>2. callVars' = callVars /\ sact' = sact /\ ract' = ract /\ rcts' = rcts
      /\ ctsOut' = ctsOut /\ ctsNet' = ctsNet
  BY DEF CtsCount
<1>3. Announced(q)' = Announced(q) /\ Reaped(q)' = Reaped(q)
  BY <1>2 DEF callVars, Announced, Ready, Reaped, LastReaped
<1>4. CtsCounted(q)'
  <2>1. CASE q = p
    <3>1. ctsLanded[q] > 0 /\ ctsLanded'[q] = ctsLanded[q] - 1 /\ scnt'[q] = scnt[q] - 1
      BY <1>1, <2>1 DEF CtsCount, TypeOK
    <3>2. CtsInFlight(q)' = CtsInFlight(q) - 1 /\ CtsInFlight(q) > 0
      BY <1>1, <1>2, <3>1, PutTypes DEF CtsInFlight
    <3> QED BY <1>1, <1>2, <1>3, <3>1, <3>2, PutTypes
        DEF CtsCounted, PairFree, Unreaped, callVars
  <2>2. CASE q # p
    <3>1. ctsLanded'[q] = ctsLanded[q] /\ scnt'[q] = scnt[q]
      BY <1>1, <2>2 DEF CtsCount, TypeOK
    <3> QED BY <1>2, <1>3, <3>1, SameCounts DEF callVars, CtsInFlight
  <2> QED BY <2>1, <2>2
<1>5. CtsWaited(q)'
  BY <1>1, <1>2 DEF CtsWaited, PairFree, callVars
<1> QED BY <1>4, <1>5 DEF PairFree

\* What a multiple's own field tells is kept by every step.
LEMMA FieldStep ==
  ASSUME FreeInv, [Next]_vars, NEW k \in Multi
  PROVE  FieldTells(k)'
<1>1. SpiInv /\ TypeOK /\ OneMode /\ FieldTells(k)
  BY DEF FreeInv, SpiInv
<1>2. CASE UNCHANGED <<pc, mcts, round, early>>
  BY <1>1, <1>2 DEF FieldTells
<1>3. ASSUME NEW m \in Multi, Start(m) \/ BeginWait(m) PROVE FieldTells(k)'
  <2>1. mcts' = mcts /\ early' = early
    BY <1>3 DEF Start, BeginWait
  <2>2. CASE k = m
    <3>1. \/ pc'[k] = "recvs"
          \/ pc[k] = "started" /\ pc'[k] = "members"
      BY <1>1, <1>3, <2>2 DEF Start, BeginWait, TypeOK
    <3> QED BY <1>1, <2>1, <3>1 DEF FieldTells
  <2>3. CASE k # m
    <3>1. pc'[k] = pc[k] /\ round'[k] = round[k]
      BY <1>1, <1>3, <2>3 DEF Start, BeginWait, TypeOK
    <3> QED BY <1>1, <2>1, <3>1 DEF FieldTells
  <2> QED BY <2>2, <2>3
<1>4. ASSUME NEW m \in Multi, StartRecvs(m) \/ EndStart(m) \/ EndWait(m) PROVE FieldTells(k)'
  <2>1. early' = early /\ round' = round
    BY <1>4 DEF StartRecvs, EndStart, EndWait
  <2>2. CASE k = m
    <3>1. \/ pc'[k] = "sends"
          \/ pc'[k] = "started" /\ mcts'[k] # READY
          \/ pc[k] = "members" /\ pc'[k] = "idle" /\ mcts'[k] = mcts[k]
      BY <1>1, <1>4, <2>2 DEF StartRecvs, EndStart, EndWait, TypeOK, READY, NOT_READY
    <3> QED BY <1>1, <2>1, <3>1 DEF FieldTells
  <2>3. CASE k # m
    <3>1. pc'[k] = pc[k] /\ mcts'[k] = mcts[k]
      BY <1>1, <1>4, <2>3 DEF StartRecvs, EndStart, EndWait, TypeOK
    <3> QED BY <1>1, <2>1, <3>1 DEF FieldTells
  <2> QED BY <2>2, <2>3
<1>5. ASSUME NEW p \in Pair, SendData(p) \/ Reap(p) \/ Lower(p) PROVE FieldTells(k)'
  <2>1. early' = early /\ round' = round /\ mcts' = mcts
    BY <1>5 DEF SendData, Reap, Lower
  <2>2. pc'[k] = pc[k] \/ pc'[k] \in {"sends", "reap", "lower"}
    BY <1>1, <1>5 DEF SendData, Reap, Lower, TypeOK
  <2> QED BY <1>1, <2>1, <2>2 DEF FieldTells
<1>6. ASSUME NEW p \in Pair, WaitRecv(p) \/ DrainRecv(p) PROVE FieldTells(k)'
  <2>1. early' = early /\ round' = round /\ mcts' = mcts
    BY <1>6 DEF WaitRecv, DrainRecv
  <2>2. \/ pc'[k] = pc[k]
        \/ pc[k] \in {"members", "drain"} /\ pc'[k] \in {"members", "drain"}
    BY <1>1, <1>6 DEF WaitRecv, DrainRecv, TypeOK
  <2> QED BY <1>1, <2>1, <2>2 DEF FieldTells
<1>7. ASSUME NEW m \in Multi, ClearToSend(m) PROVE FieldTells(k)'
  <2>1. early' = early /\ round' = round /\ pc' = pc
    BY <1>7 DEF ClearToSend
  <2>2. \/ mcts'[k] = mcts[k]
        \/ mcts'[k] = READY /\ pc[k] = "idle" /\ round[k] \in early
    BY <1>1, <1>7 DEF ClearToSend, TypeOK
  <2> QED BY <1>1, <2>1, <2>2 DEF FieldTells
<1>8. ASSUME NEW m \in Multi, Free(m) PROVE FieldTells(k)'
  <2>1. early' = early /\ round' = round /\ mcts' = mcts
    BY <1>8 DEF Free
  <2>2. \/ pc'[k] = pc[k]
        \/ pc[k] = "idle" /\ pc'[k] = "freed" /\ round[k] = Rounds /\ CtsCalled(k)
    BY <1>1, <1>8 DEF Free, TypeOK
  <2> QED BY <1>1, <2>1, <2>2 DEF FieldTells, CtsCalled
<1>9. ASSUME NEW p \in Pair, Unit(p) \/ WaitSend(p) PROVE UNCHANGED <<pc, mcts, round, early>>
  BY <1>9 DEF Unit, WaitSend, CtsRead, CtsStore, CtsCount, DataRead, DataStore, callVars
<1>10. ASSUME NEW m \in Multi, Inside(m) PROVE FieldTells(k)'
  BY <1>2, <1>4, <1>5, <1>6, <1>9, <1>10 DEF Inside, Sends, Recvs
<1>11. ASSUME NEW m \in Multi, Call(m) PROVE FieldTells(k)'
  BY <1>3, <1>7, <1>8, <1>11 DEF Call
<1>12. CASE UNCHANGED vars
  BY <1>2, <1>12 DEF vars, callVars
<1> QED BY <1>2, <1>9, <1>10, <1>11, <1>12 DEF Next

\* At the start nothing is announced and nothing is under way.
LEMMA FreeInit == Init => FreeInv
<1> SUFFICES ASSUME Init PROVE FreeInv
  OBVIOUS
<1>1. SpiInv /\ TypeOK
  BY SpiInit DEF SpiInv
<1>2. ASSUME NEW m \in Multi PROVE FieldTells(m)
  BY DEF Init, FieldTells
<1>3. ASSUME NEW p \in Pair PROVE PairFree(p)
  <2>1. Src[p] \in Multi /\ Dst[p] \in Multi
    BY PairAssumption
  <2>2. /\ ctsOut[p] = 0 /\ ctsLanded[p] = 0 /\ scnt[p] = 1 /\ rcts[p] # READY
        /\ ctsNet[p][READY] = 0 /\ ctsNet[p][NOT_READY] = 0 /\ ~sact[p]
        /\ pc[Src[p]] = "recvs" /\ pc[Dst[p]] = "recvs" /\ round[Src[p]] = 1 /\ round[Dst[p]] = 1
    BY <2>1 DEF Init, NOT_READY, READY
  <2>3. CtsInFlight(p) = 0 /\ Unreaped(p) = 0 /\ Announced(p) = 0 /\ Reaped(p) = 0
    BY <2>2 DEF CtsInFlight, Unreaped, Announced, Ready, Reaped, Starting
  <2> QED BY <2>2, <2>3 DEF PairFree, CtsCounted, CtsWaited
<1> QED BY <1>1, <1>2, <1>3 DEF FreeInv

\* Every step keeps the counts.
LEMMA FreeNext == FreeInv /\ [Next]_vars => FreeInv'
<1> SUFFICES ASSUME FreeInv, [Next]_vars PROVE FreeInv'
  OBVIOUS
<1>1. SpiInv' /\ TypeOK'
  BY SpiNext DEF FreeInv, SpiInv
<1>2. ASSUME NEW m \in Multi PROVE FieldTells(m)'
  BY FieldStep
<1>3. ASSUME NEW q \in Pair PROVE PairFree(q)'
  <2>1. CASE UNCHANGED vars
    <3>1. PairFree(q)
      BY DEF FreeInv
    <3> QED BY <2>1, <3>1
      DEF vars, callVars, memberVars, netVars, bufVars, PairFree, CtsCounted, CtsWaited,
          CtsInFlight, Unreaped, Announced, Ready, Reaped, LastReaped, Starting
  <2>2. ASSUME NEW m \in Multi, Inside(m) PROVE PairFree(q)'
    <3>1. CASE StartRecvs(m) \/ EndStart(m) \/ EndWait(m)
      BY <1>1, <3>1, FreeStartRecvs, FreeEndStart, FreeEndWait
    <3>2. ASSUME NEW p \in Sends(m),
                 SendData(p) \/ Reap(p) \/ Lower(p) \/ WaitSend(p)
          PROVE  PairFree(q)'
      BY <1>1, <3>2, FreeSendData, FreeReap, FreeLower, FreeWaitSend DEF Sends
    <3>3. ASSUME NEW p \in Recvs(m), WaitRecv(p) \/ DrainRecv(p)
          PROVE  PairFree(q)'
      BY <1>1, <3>3, FreeWaitRecv, FreeDrainRecv DEF Recvs
    <3> QED BY <2>2, <3>1, <3>2, <3>3 DEF Inside
  <2>3. ASSUME NEW m \in Multi, Call(m) PROVE PairFree(q)'
    BY <1>1, <2>3, FreeStart, FreeBeginWait, FreeClearToSend, FreeFree DEF Call
  <2>4. ASSUME NEW p \in Pair, Unit(p) PROVE PairFree(q)'
    BY <1>1, <2>4, FreeCtsRead, FreeCtsStore, FreeCtsCount, FreeDataRead,
       FreeDataStore DEF Unit
  <2> QED BY <2>1, <2>2, <2>3, <2>4 DEF Next
<1> QED BY <1>1, <1>2, <1>3 DEF FreeInv

\* At the free nothing announced is left, and nothing the sender injected.
LEMMA FreeInvSafe == FreeInv => NoPutIntoFreed
<1> SUFFICES ASSUME FreeInv, NEW p \in Pair
             PROVE  /\ pc[Src[p]] = "freed" => CtsInFlight(p) = 0 /\ dataOut[p] = {}
                    /\ pc[Dst[p]] = "freed" => ctsOut[p] = 0 /\ ~DataInFlight(p)
  BY DEF NoPutIntoFreed
<1>1. /\ SpiInv /\ TypeOK /\ OneMode /\ PairInv(p) /\ PairFree(p)
      /\ Src[p] \in Multi /\ Dst[p] \in Multi
  BY PairAssumption DEF FreeInv, SpiInv
<1>2. /\ round[Src[p]] \in Nat /\ round[Src[p]] <= Rounds /\ Rounds \in Nat
      /\ round[Dst[p]] \in Nat /\ round[Dst[p]] <= Rounds
  BY <1>1, PairAssumption DEF TypeOK
<1>3. FieldTells(Src[p]) /\ FieldTells(Dst[p])
  BY <1>1 DEF FreeInv
<1>4. ASSUME pc[Src[p]] = "freed" PROVE CtsInFlight(p) = 0 /\ dataOut[p] = {}
  <2>1. dataOut[p] = {}
    BY <1>1, <1>4 DEF PairInv, PutOut, SendPhase
  <2>2. CASE mcts[Src[p]] = DISABLED
    BY <1>1, <2>1, <2>2 DEF PairFree, CtsCounted
  <2>3. CASE mcts[Src[p]] # DISABLED
    <3> DEFINE Extra == IF Rounds \in early THEN 1 ELSE 0
    <3>1. Reaped(p) = Rounds + Extra
      BY <1>2, <1>3, <1>4 DEF FieldTells, Reaped, LastReaped, Starting
    <3>2. Announced(p) <= Rounds + Extra
      <4>1. CASE pc[Dst[p]] \in {"idle", "freed"}
        <5>1. Announced(p) = round[Dst[p]] + Ready(p)
          BY <4>1 DEF Announced
        <5>2. rcts[p] = READY => round[Dst[p]] \in early
          BY <1>1, <1>3, <4>1 DEF PairFree, CtsWaited, FieldTells
        <5> QED BY <1>2, <5>1, <5>2 DEF Ready
      <4>2. CASE pc[Dst[p]] \notin {"idle", "freed"}
        <5>1. Announced(p) <= round[Dst[p]]
          BY <1>2, <4>2 DEF Announced, Ready
        <5> QED BY <1>1, <1>2, <5>1, PutTypes
      <4> QED BY <4>1, <4>2
    <3>3. Unreaped(p) <= 0 /\ scnt[p] <= 1
      BY <1>1, <1>2, <2>3, <3>1, <3>2, PutTypes DEF PairFree, CtsCounted, Unreaped
    <3> QED BY <1>1, <2>1, <3>3, PutTypes DEF Unreaped
  <2> QED BY <2>2, <2>3
<1>5. ASSUME pc[Dst[p]] = "freed" PROVE ctsOut[p] = 0 /\ ~DataInFlight(p)
  <2>1. Drained(p) = Rounds /\ Sent(p) <= Rounds
    BY <1>2, <1>3, <1>5 DEF Drained, Over, Sent, FieldTells
  <2>2. Flying(p) = 0
    BY <1>1, <1>2, <2>1, CountTypes DEF PairInv, PutCount
  <2> QED BY <1>1, <1>5, <2>2 DEF Flying, PairFree, CtsWaited
<1> QED BY <1>4, <1>5

\* QMP_free_msghandle leaves no put under way to or from what it frees, whatever the
\* numbers of nodes, pairs and rounds and the order of the calls and the puts.
THEOREM FreedIsQuiet == Spec => []NoPutIntoFreed
BY FreeInit, FreeNext, FreeInvSafe, PTL DEF Spec
=============================================================================
