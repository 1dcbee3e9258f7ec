------------------------ MODULE QMPMsgHandle_proofs ------------------------
(***************************************************************************)
(* Theorems about QMPMsgHandle, for every set of nodes, handles, requests  *)
(* and buffers, every set of declare calls and every program, the          *)
(* erroneous ones included: the state has its shape, handles and MPI       *)
(* requests stay in step, and the "next" lists stay well formed.           *)
(***************************************************************************)
EXTENDS QMPMsgHandle, FiniteSetTheorems, SequenceTheorems, TLAPS

-----------------------------------------------------------------------------
(* What the type invariant needs to be inductive *)

\* A handle that stands for one message has a peer, a buffer and a request.
SinglesFilled ==
  \A h \in Handle : Single(h) =>
    mh[h].peer \in Node /\ mh[h].base \in Buf /\ request[h] \in Req

\* A request MPI holds has been initialised with a kind, a channel, a buffer.
RequestsFilled ==
  \A r \in Req : req[r].st # "free" =>
    /\ req[r].kind \in Kinds
    /\ req[r].chan \in Chan
    /\ req[r].link \in Link
    /\ req[r].base \in Buf

\* The "next" lists hold individual handles marked num = 0, each on one list.
Chained ==
  /\ \A h \in Handle : \A k \in chain[h] :
       Multiple(h) /\ Single(k) /\ mh[k].num = 0
  /\ \A h, p \in Handle : h # p => chain[h] \cap chain[p] = {}

TypeInv == TypeOK /\ SinglesFilled /\ RequestsFilled /\ Chained

-----------------------------------------------------------------------------
(* Lemmas about the operators *)

\* The tags the two declare hooks compute are the three QMP uses.
LEMMA TagsInRange ==
  \A axis \in Int, dir \in {-1, 0, 1} :
    SendTag(axis, dir) \in Tags /\ RecvTag(axis, dir) \in Tags
  BY DEF SendTag, RecvTag, Tags, TAG_CHANNEL

\* The remote node of a declare call is a node of the communicator.
LEMMA PeerInNode == ASSUME NEW d \in Decls PROVE Peer(d) \in Node
  <1>1. d \in DeclCall
    BY DeclAssumption
  <1>2. CASE d.axis < 0
    BY <1>1, <1>2 DEF Peer, DeclCall
  <1>3. CASE d.axis >= 0
    BY <1>1, <1>3, DeclAssumption DEF Peer, DeclCall
  <1> QED
    BY <1>1, <1>2, <1>3 DEF DeclCall

\* The request initialised for an individual handle describes that handle.
LEMMA PersistentRequestType ==
  ASSUME NEW n \in Node, NEW m \in HandleRec,
         m.type \in Kinds, m.peer \in Node, m.base \in Buf
  PROVE  /\ PersistentRequest(n, m) \in ReqRec
         /\ PersistentRequest(n, m).st = "inactive"
         /\ PersistentRequest(n, m).kind = m.type
         /\ PersistentRequest(n, m).chan \in Chan
         /\ PersistentRequest(n, m).link \in Link
         /\ PersistentRequest(n, m).base = m.base
         /\ PersistentRequest(n, m).seq = 0
  <1>1. ChanOf(n, m) \in Chan
    BY TagsInRange DEF ChanOf, Chan, HandleRec
  <1>2. LinkOf(n, m) \in Link
    BY DEF LinkOf, Link, HandleRec
  <1> QED
    BY <1>1, <1>2 DEF PersistentRequest, ReqRec, HandleRec

\* The members of a multiple can be counted.
LEMMA HandlesFinite ==
  ASSUME NEW S \in SUBSET Handle
  PROVE  IsFiniteSet(S) /\ Cardinality(S) \in Nat
  BY PoolAssumption, FS_Subset, FS_CardinalityType

LEMMA NoHandleType == NoHandle \in HandleRec
  BY DEF NoHandle, HandleRec

\* Marking a handle as a member changes its num and nothing else.
LEMMA MarkType ==
  ASSUME NEW m \in HandleRec
  PROVE  /\ Mark(m) \in HandleRec
         /\ Mark(m).num = 0 /\ Mark(m).type = m.type /\ Mark(m).activeP = m.activeP
         /\ Mark(m).peer = m.peer /\ Mark(m).axis = m.axis /\ Mark(m).dir = m.dir
         /\ Mark(m).base = m.base
  <1>1. Mark(m) = [type |-> m.type, num |-> 0, activeP |-> m.activeP,
                   peer |-> m.peer, axis |-> m.axis, dir |-> m.dir, base |-> m.base]
    BY DEF Mark, HandleRec
  <1> QED
    BY <1>1 DEF HandleRec

\* Where the elements of two sequences are in their concatenation.
LEMMA ConcatIndex ==
  ASSUME NEW D, NEW s \in Seq(D), NEW t \in Seq(D)
  PROVE  /\ s \o t \in Seq(D) /\ Len(s \o t) = Len(s) + Len(t)
         /\ \A i \in 1 .. Len(s) : (s \o t)[i] = s[i]
         /\ \A i \in 1 .. Len(t) : (s \o t)[Len(s) + i] = t[i]
  <1>1. /\ s \o t \in Seq(D) /\ Len(s \o t) = Len(s) + Len(t)
        /\ Len(s) \in Nat /\ Len(t) \in Nat
        /\ \A i \in 1 .. Len(s) + Len(t) :
             (s \o t)[i] = IF i <= Len(s) THEN s[i] ELSE t[i - Len(s)]
    BY ConcatProperties
  <1>2. ASSUME NEW i \in 1 .. Len(s) PROVE (s \o t)[i] = s[i]
    <2>1. i \in 1 .. Len(s) + Len(t) /\ i <= Len(s)
      BY <1>1
    <2> QED
      BY <1>1, <2>1
  <1>3. ASSUME NEW i \in 1 .. Len(t) PROVE (s \o t)[Len(s) + i] = t[i]
    <2> DEFINE j == Len(s) + i
    <2>1. j \in 1 .. Len(s) + Len(t) /\ ~(j <= Len(s)) /\ j - Len(s) = i
      BY <1>1
    <2> HIDE DEF j
    <2>2. (s \o t)[j] = t[j - Len(s)]
      BY <1>1, <2>1
    <2> QED
      BY <2>1, <2>2 DEF j
  <1> QED
    BY <1>1, <1>2, <1>3

LEMMA NoRequestType == NoRequest \in ReqRec
  BY DEF NoRequest, ReqRec

-----------------------------------------------------------------------------
(* Type correctness *)

LEMMA InitTypeInv == Init => TypeInv
  <1> SUFFICES ASSUME Init PROVE TypeInv
    OBVIOUS
  <1>1. TypeOK
    BY NoHandleType, NoRequestType DEF Init, TypeOK
  <1>2. SinglesFilled /\ RequestsFilled /\ Chained
    BY DEF Init, SinglesFilled, RequestsFilled, Chained, Single, Kinds,
           NoHandle, NoRequest
  <1> QED
    BY <1>1, <1>2 DEF TypeInv

LEMMA DeclareTypeInv ==
  ASSUME TypeInv, NEW h \in Handle, NEW d \in Decls, Declare(h, d)
  PROVE  TypeInv'
  <1> DEFINE m == [type |-> d.kind, num |-> 1, activeP |-> 0, peer |-> Peer(d),
                   axis |-> d.axis, dir |-> d.dir, base |-> d.base]
  <1>1. /\ d \in DeclCall /\ d.node \in Node
        /\ m \in HandleRec
        /\ m.type \in Kinds /\ m.peer \in Node /\ m.base \in Buf
    BY DeclAssumption, PeerInNode DEF DeclCall, HandleRec
  <1>2. PICK r \in FreeReqs(d.node) :
          /\ mh' = [mh EXCEPT ![h] = m]
          /\ request' = [request EXCEPT ![h] = r]
          /\ req' = [req EXCEPT ![r] = PersistentRequest(d.node, m)]
    BY DEF Declare
  <1>3. /\ mh[h].type = "free"
        /\ UNCHANGED <<chain, request_array, sent, posted, wire, clientVars, stop>>
    BY DEF Declare
  <1>4. r \in Req
    BY DEF FreeReqs
  <1> HIDE DEF m
  <1>5. /\ PersistentRequest(d.node, m) \in ReqRec
        /\ PersistentRequest(d.node, m).kind \in Kinds
        /\ PersistentRequest(d.node, m).chan \in Chan
        /\ PersistentRequest(d.node, m).link \in Link
        /\ PersistentRequest(d.node, m).base \in Buf
    BY <1>1, PersistentRequestType
  <1>6. TypeOK'
    BY <1>1, <1>2, <1>3, <1>4, <1>5 DEF TypeInv, TypeOK, clientVars
  <1>7. SinglesFilled'
    BY <1>1, <1>2, <1>4 DEF TypeInv, TypeOK, SinglesFilled, Single
  <1>8. RequestsFilled'
    BY <1>2, <1>4, <1>5 DEF TypeInv, TypeOK, RequestsFilled
  <1>9. Chained'
    <2>1. \A p \in Handle : h \notin chain[p] /\ chain[h] = {}
      BY <1>3 DEF TypeInv, TypeOK, Chained, Single, Multiple, Kinds
    <2> QED
      BY <1>2, <1>3, <2>1 DEF TypeInv, TypeOK, Chained, Single, Multiple
  <1> QED
    BY <1>6, <1>7, <1>8, <1>9 DEF TypeInv

\* What a multiple made from live idle handles of one process links together.
LEMMA SpliceMembers ==
  ASSUME TypeInv, NEW h \in Handle, NEW S \in SUBSET Handle, mh[h].type = "free",
         \A s \in S : Live(s) /\ (Multiple(s) \/ mh[s].num = 1)
  PROVE  /\ Splice(S) \subseteq Handle
         /\ h \notin Splice(S) /\ h \notin S
         /\ chain[h] = {}
         /\ \A p \in Handle : h \notin chain[p]
         /\ \A k \in Splice(S) : Single(k) /\ ~Multiple(k)
         /\ \A k \in Splice(S), p \in Handle \ S : k \notin chain[p]
         /\ \A s \in S, p \in Handle : Multiple(s) => s \notin chain[p]
  <1>1. \A k \in Splice(S) : \E s \in S :
          \/ Multiple(s) /\ k \in chain[s]
          \/ ~Multiple(s) /\ k = s
    BY DEF Splice, Leaves
  <1>2. Splice(S) \subseteq Handle
    BY <1>1 DEF TypeInv, TypeOK
  <1>3. \A k \in Splice(S) : Single(k) /\ ~Multiple(k)
    BY <1>1, <1>2 DEF TypeInv, TypeOK, Chained, Live, Single, Multiple, Kinds
  <1>4. /\ h \notin Splice(S) /\ h \notin S
        /\ chain[h] = {}
        /\ \A p \in Handle : h \notin chain[p]
    BY <1>3 DEF TypeInv, TypeOK, Chained, Live, Single, Multiple, Kinds
  <1>5. ASSUME NEW k \in Splice(S), NEW p \in Handle \ S, k \in chain[p]
        PROVE  FALSE
    <2>1. PICK s \in S : \/ Multiple(s) /\ k \in chain[s]
                         \/ ~Multiple(s) /\ k = s
      BY <1>1
    <2>2. CASE Multiple(s) /\ k \in chain[s]
      BY <1>5, <2>2 DEF TypeInv, Chained
    <2>3. CASE ~Multiple(s) /\ k = s
      BY <1>5, <2>3 DEF TypeInv, TypeOK, Chained
    <2> QED
      BY <2>1, <2>2, <2>3
  <1>6. \A s \in S, p \in Handle : Multiple(s) => s \notin chain[p]
    BY DEF TypeInv, TypeOK, Chained, Single, Multiple, Kinds
  <1> QED
    BY <1>2, <1>3, <1>4, <1>5, <1>6

LEMMA DeclareMultipleTypeInv ==
  ASSUME TypeInv, NEW h \in Handle, NEW S \in SUBSET Handle, DeclareMultiple(h, S)
  PROVE  TypeInv'
  <1> DEFINE K     == Splice(S)
             inner == {s \in S : Multiple(s)}
             top   == NewMultiple(K)
  <1>1. /\ mh[h].type = "free"
        /\ \A s \in S : Live(s) /\ (Multiple(s) \/ mh[s].num = 1)
        /\ mh' = [k \in Handle |-> CASE k = h -> top
                                     [] k \in K -> Mark(mh[k])
                                     [] k \in inner -> NoHandle
                                     [] OTHER -> mh[k]]
        /\ chain' = [k \in Handle |-> IF k = h THEN K
                                      ELSE IF k \in inner THEN {} ELSE chain[k]]
        /\ request_array' =
             [k \in Handle |-> IF k = h THEN RequestArray(K)
                               ELSE IF k \in inner THEN RequestArray({})
                               ELSE request_array[k]]
        /\ UNCHANGED <<request, mpiVars, clientVars, stop>>
    BY DEF DeclareMultiple
  <1>2. /\ K \subseteq Handle
        /\ h \notin K /\ h \notin S
        /\ chain[h] = {}
        /\ \A p \in Handle : h \notin chain[p]
        /\ \A k \in K : Single(k) /\ ~Multiple(k)
        /\ \A k \in K, p \in Handle \ S : k \notin chain[p]
        /\ \A s \in S, p \in Handle : Multiple(s) => s \notin chain[p]
    BY <1>1, SpliceMembers
  <1>3. Cardinality(K) \in Nat
    BY <1>2, HandlesFinite
  <1> HIDE DEF K
  <1>4. top \in HandleRec /\ top.type = "multiple" /\ top.num = Cardinality(K)
    BY <1>3 DEF NewMultiple, HandleRec
  <1>5. \A k \in Handle : Mark(mh[k]) \in HandleRec /\ Mark(mh[k]).num = 0
                          /\ Mark(mh[k]).type = mh[k].type
                          /\ Mark(mh[k]).peer = mh[k].peer
                          /\ Mark(mh[k]).base = mh[k].base
    BY MarkType DEF TypeInv, TypeOK
  <1> HIDE DEF top
  <1>6. /\ mh'[h] = top
        /\ \A k \in K : mh'[k] = Mark(mh[k])
        /\ \A k \in inner : mh'[k] = NoHandle
        /\ \A k \in Handle \ (K \cup inner \cup {h}) : mh'[k] = mh[k]
    <2>1. \A k \in K : k # h
      BY <1>2
    <2>2. \A k \in inner : k # h /\ k \notin K /\ k \in Handle
      BY <1>2
    <2> QED
      BY <1>1, <1>2, <2>1, <2>2
  <1>7. TypeOK'
    <2>1. mh' \in [Handle -> HandleRec]
      <3>1. \A k \in Handle : mh'[k] \in HandleRec
        BY <1>4, <1>5, <1>6, NoHandleType DEF TypeInv, TypeOK
      <3> QED
        BY <1>1, <3>1
    <2>2. chain' \in [Handle -> SUBSET Handle]
      BY <1>1, <1>2 DEF TypeInv, TypeOK
    <2>3. request_array' \in [Handle -> [Handle -> Req \cup {None}]]
      BY <1>1 DEF TypeInv, TypeOK, RequestArray
    <2> QED
      BY <1>1, <2>1, <2>2, <2>3 DEF TypeInv, TypeOK, mpiVars, clientVars
  <1>8. SinglesFilled'
    <2> SUFFICES ASSUME NEW k \in Handle, Single(k)'
                 PROVE  (mh[k].peer \in Node /\ mh[k].base \in Buf
                          /\ request[k] \in Req)'
      BY DEF SinglesFilled
    <2>1. k # h /\ k \notin inner
      BY <1>4, <1>6 DEF Single, Kinds, NoHandle
    <2>2. CASE k \in K
      BY <1>1, <1>2, <1>5, <1>6, <2>2 DEF TypeInv, SinglesFilled
    <2>3. CASE k \notin K
      BY <1>1, <1>6, <2>1, <2>3 DEF TypeInv, SinglesFilled, Single
    <2> QED
      BY <2>2, <2>3
  <1>9. RequestsFilled'
    BY <1>1 DEF TypeInv, RequestsFilled, mpiVars
  <1>10. Chained'
    <2>1. ASSUME NEW p \in Handle, NEW k \in chain'[p]
          PROVE  (Multiple(p) /\ Single(k) /\ mh[k].num = 0)'
      <3>1. CASE p = h
        BY <1>1, <1>2, <1>4, <1>5, <1>6, <2>1, <3>1 DEF Single, Multiple
      <3>2. CASE p # h
        <4>1. p \notin inner /\ k \in chain[p] /\ p \notin S
          BY <1>1, <2>1, <3>2 DEF TypeInv, TypeOK, Chained, Live, Multiple
        <4>2. p \notin K /\ k \notin K
          BY <1>2, <4>1 DEF TypeInv, TypeOK, Chained
        <4>3. k # h /\ k \notin inner /\ k \in Handle
          BY <1>2, <4>1 DEF TypeInv, TypeOK
        <4> QED
          BY <1>6, <3>2, <4>1, <4>2, <4>3 DEF TypeInv, TypeOK, Chained, Single, Multiple
      <3> QED
        BY <3>1, <3>2
    <2>2. ASSUME NEW p \in Handle, NEW q \in Handle, p # q
          PROVE  chain'[p] \cap chain'[q] = {}
      <3>1. \A x \in Handle \ S : K \cap chain[x] = {}
        BY <1>2
      <3>2. \A x \in Handle : x # h /\ chain'[x] # {} =>
              x \notin S /\ chain'[x] = chain[x]
        BY <1>1 DEF TypeInv, TypeOK, Chained, Live, Multiple
      <3> QED
        BY <1>1, <2>2, <3>1, <3>2 DEF TypeInv, Chained
    <2> QED
      BY <2>1, <2>2 DEF Chained
  <1> QED
    BY <1>7, <1>8, <1>9, <1>10 DEF TypeInv

LEMMA FreeTypeInv ==
  ASSUME TypeInv, NEW h \in Handle, Free(h)
  PROVE  TypeInv'
  <1>1. /\ Live(h) /\ mh[h].num # 0
        /\ mh' = [k \in Handle |-> IF k \in Released(h) THEN NoHandle ELSE mh[k]]
        /\ chain' = [chain EXCEPT ![h] = {}]
        /\ request' = [k \in Handle |-> IF k \in Released(h) THEN None ELSE request[k]]
        /\ request_array' = [request_array EXCEPT ![h] = RequestArray({})]
        /\ req' = [r \in Req |-> IF \E k \in Leaves(h) : request[k] = r
                                 THEN NoRequest ELSE req[r]]
        /\ UNCHANGED <<sent, posted, wire, clientVars, stop>>
    BY DEF Free
  <1>2. TypeOK'
    BY <1>1, NoHandleType, NoRequestType
    DEF TypeInv, TypeOK, clientVars, RequestArray
  <1>3. SinglesFilled'
    BY <1>1 DEF TypeInv, TypeOK, SinglesFilled, Single, NoHandle, Kinds
  <1>4. RequestsFilled'
    BY <1>1 DEF TypeInv, TypeOK, RequestsFilled, NoRequest
  <1>5. Chained'
    <2>1. \A p \in Handle : h \notin chain[p]
      BY <1>1 DEF TypeInv, TypeOK, Chained
    <2>2. \A p \in Handle : p # h => chain[p] \cap Released(h) = {}
      BY <2>1 DEF TypeInv, TypeOK, Chained, Released
    <2>3. \A p \in Handle : p \in chain[h] => chain[p] = {}
      BY DEF TypeInv, TypeOK, Chained, Single, Multiple, Kinds
    <2>4. ASSUME NEW p \in Handle, NEW k \in chain'[p]
          PROVE  (Multiple(p) /\ Single(k) /\ mh[k].num = 0)'
      <3>1. p # h /\ k \in chain[p] /\ k \in Handle
        BY <1>1, <2>4 DEF TypeInv, TypeOK
      <3>2. p \notin Released(h) /\ k \notin Released(h)
        BY <2>2, <2>3, <3>1 DEF Released
      <3> QED
        BY <1>1, <3>1, <3>2 DEF TypeInv, Chained, Single, Multiple
    <2>5. ASSUME NEW p \in Handle, NEW q \in Handle, p # q
          PROVE  chain'[p] \cap chain'[q] = {}
      BY <1>1, <2>5 DEF TypeInv, TypeOK, Chained
    <2> QED
      BY <2>4, <2>5 DEF Chained
  <1> QED
    BY <1>2, <1>3, <1>4, <1>5 DEF TypeInv

\* Replacing the base of a handle structure replaces nothing else.
LEMMA RebaseType ==
  ASSUME NEW m \in HandleRec, NEW b \in Buf
  PROVE  /\ [m EXCEPT !.base = b] \in HandleRec
         /\ [m EXCEPT !.base = b].type = m.type
         /\ [m EXCEPT !.base = b].num = m.num
         /\ [m EXCEPT !.base = b].activeP = m.activeP
         /\ [m EXCEPT !.base = b].peer = m.peer
         /\ [m EXCEPT !.base = b].axis = m.axis
         /\ [m EXCEPT !.base = b].dir = m.dir
         /\ [m EXCEPT !.base = b].base = b
  <1>1. [m EXCEPT !.base = b] =
          [type |-> m.type, num |-> m.num, activeP |-> m.activeP, peer |-> m.peer,
           axis |-> m.axis, dir |-> m.dir, base |-> b]
    BY DEF HandleRec
  <1> QED
    BY <1>1 DEF HandleRec

LEMMA ChangeAddressTypeInv ==
  ASSUME TypeInv, NEW h \in Handle, NEW b \in Buf, ChangeAddress(h, b)
  PROVE  TypeInv'
  <1> DEFINE n == HOwner[h]
             m == [mh[h] EXCEPT !.base = b]
  <1>1. /\ Single(h) /\ mh[h].num # 0
        /\ UNCHANGED <<chain, request_array, sent, posted, wire, clientVars, stop>>
    BY DEF ChangeAddress
  <1>2. PICK r \in FreeReqs(n) \cup {request[h]} :
          /\ mh' = [mh EXCEPT ![h] = m]
          /\ request' = [request EXCEPT ![h] = r]
          /\ req' = [[req EXCEPT ![request[h]] = NoRequest]
                       EXCEPT ![r] = PersistentRequest(n, m)]
    BY DEF ChangeAddress
  <1>3. /\ n \in Node /\ m \in HandleRec
        /\ m.type = mh[h].type /\ m.num = mh[h].num
        /\ m.type \in Kinds /\ m.peer \in Node /\ m.base \in Buf
    BY <1>1, RebaseType, PoolAssumption
    DEF TypeInv, TypeOK, SinglesFilled, Single
  <1>4. r \in Req /\ request[h] \in Req
    BY <1>1 DEF FreeReqs, TypeInv, SinglesFilled
  <1> HIDE DEF m, n
  <1>5. /\ PersistentRequest(n, m) \in ReqRec
        /\ PersistentRequest(n, m).kind \in Kinds
        /\ PersistentRequest(n, m).chan \in Chan
        /\ PersistentRequest(n, m).link \in Link
        /\ PersistentRequest(n, m).base \in Buf
    BY <1>3, PersistentRequestType
  <1>6. TypeOK'
    BY <1>1, <1>2, <1>3, <1>4, <1>5, NoRequestType DEF TypeInv, TypeOK, clientVars
  <1>7. SinglesFilled'
    BY <1>1, <1>2, <1>3, <1>4 DEF TypeInv, TypeOK, SinglesFilled, Single
  <1>8. RequestsFilled'
    BY <1>2, <1>4, <1>5 DEF TypeInv, TypeOK, RequestsFilled, NoRequest
  <1>9. Chained'
    BY <1>1, <1>2, <1>3 DEF TypeInv, TypeOK, Chained, Single, Multiple
  <1> QED
    BY <1>6, <1>7, <1>8, <1>9 DEF TypeInv

LEMMA ChangeAddressMultipleTypeInv ==
  ASSUME TypeInv, NEW h \in Handle, NEW addr \in [chain[h] -> Buf],
         ChangeAddressMultiple(h, addr)
  PROVE  TypeInv'
  <1> DEFINE n    == HOwner[h]
             m(k) == [mh[k] EXCEPT !.base = addr[k]]
             old  == {request[k] : k \in chain[h]}
  <1>1. /\ Multiple(h)
        /\ UNCHANGED <<chain, request_array, sent, posted, wire, clientVars, stop>>
    BY DEF ChangeAddressMultiple
  <1>2. PICK new \in [chain[h] -> FreeReqs(n) \cup old] :
          /\ mh' = [k \in Handle |-> IF k \in chain[h] THEN m(k) ELSE mh[k]]
          /\ request' = [k \in Handle |->
                           IF k \in chain[h] THEN new[k] ELSE request[k]]
          /\ req' = [r \in Req |->
                       IF \E k \in chain[h] : new[k] = r
                       THEN PersistentRequest(n,
                              m(CHOOSE k \in chain[h] : new[k] = r))
                       ELSE IF r \in old THEN NoRequest ELSE req[r]]
    BY DEF ChangeAddressMultiple
  <1>3. \A k \in chain[h] :
          /\ k \in Handle /\ Single(k)
          /\ m(k) \in HandleRec
          /\ m(k).type = mh[k].type /\ m(k).num = mh[k].num
          /\ m(k).type \in Kinds /\ m(k).peer \in Node /\ m(k).base \in Buf
    <2> SUFFICES ASSUME NEW k \in chain[h]
                 PROVE  /\ k \in Handle /\ Single(k)
                        /\ m(k) \in HandleRec
                        /\ m(k).type = mh[k].type /\ m(k).num = mh[k].num
                        /\ m(k).type \in Kinds /\ m(k).peer \in Node
                        /\ m(k).base \in Buf
      OBVIOUS
    <2>1. k \in Handle /\ Single(k) /\ mh[k] \in HandleRec /\ mh[k].peer \in Node
          /\ addr[k] \in Buf
      BY DEF TypeInv, TypeOK, SinglesFilled, Chained
    <2> QED
      BY <2>1, RebaseType DEF Single
  <1>4. n \in Node
    BY PoolAssumption
  <1>5. \A k \in chain[h] : new[k] \in Req
    <2>1. old \subseteq Req
      BY <1>3 DEF TypeInv, SinglesFilled
    <2>2. FreeReqs(n) \subseteq Req
      BY DEF FreeReqs
    <2> HIDE DEF old, n
    <2> QED
      BY <2>1, <2>2
  <1> HIDE DEF m, n
  <1>6. \A k \in chain[h] :
          /\ PersistentRequest(n, m(k)) \in ReqRec
          /\ PersistentRequest(n, m(k)).kind \in Kinds
          /\ PersistentRequest(n, m(k)).chan \in Chan
          /\ PersistentRequest(n, m(k)).link \in Link
          /\ PersistentRequest(n, m(k)).base \in Buf
    BY <1>3, <1>4, PersistentRequestType
  <1>7. \A r \in Req :
          \/ \E k \in chain[h] : req'[r] = PersistentRequest(n, m(k))
          \/ req'[r] = NoRequest
          \/ req'[r] = req[r]
    BY <1>2
  <1>8. TypeOK'
    <2>1. mh' \in [Handle -> HandleRec]
      BY <1>2, <1>3 DEF TypeInv, TypeOK
    <2>2. request' \in [Handle -> Req \cup {None}]
      BY <1>2, <1>5 DEF TypeInv, TypeOK
    <2>3. req' \in [Req -> ReqRec]
      <3>1. \A r \in Req : req'[r] \in ReqRec
        BY <1>6, <1>7, NoRequestType DEF TypeInv, TypeOK
      <3>2. req' = [r \in Req |-> req'[r]]
        BY <1>2
      <3> QED
        BY <3>1, <3>2
    <2> QED
      BY <1>1, <2>1, <2>2, <2>3 DEF TypeInv, TypeOK, clientVars
  <1>9. SinglesFilled'
    BY <1>2, <1>3, <1>5 DEF TypeInv, TypeOK, SinglesFilled, Single
  <1>10. RequestsFilled'
    <2> SUFFICES ASSUME NEW r \in Req, req'[r].st # "free"
                 PROVE  /\ req'[r].kind \in Kinds /\ req'[r].chan \in Chan
                        /\ req'[r].link \in Link /\ req'[r].base \in Buf
      BY DEF RequestsFilled
    <2>1. CASE \E k \in chain[h] : req'[r] = PersistentRequest(n, m(k))
      BY <1>6, <2>1
    <2>2. CASE req'[r] = NoRequest
      BY <2>2 DEF NoRequest
    <2>3. CASE req'[r] = req[r]
      BY <2>3 DEF TypeInv, RequestsFilled
    <2> QED
      BY <1>7, <2>1, <2>2, <2>3
  <1>11. Chained'
    BY <1>1, <1>2, <1>3 DEF TypeInv, TypeOK, Chained, Single, Multiple
  <1> QED
    BY <1>8, <1>9, <1>10, <1>11 DEF TypeInv

\* What MPI_Start and MPI_Startall do to requests and channels: the started
\* requests R become active in new places of their channels, in which the
\* channel's history shows what they carry, and the older places are kept.
PostEffect(R) ==
  /\ req' \in [Req -> ReqRec]
  /\ \A r \in Req \ R : req'[r] = req[r]
  /\ \A r \in R : /\ req'[r].st = "active"
                  /\ req'[r].kind = req[r].kind /\ req'[r].chan = req[r].chan
                  /\ req'[r].link = req[r].link /\ req'[r].base = req[r].base
  /\ sent' \in [Chan -> Seq(SentRec)]
  /\ posted' \in [Chan -> Seq(Link)]
  /\ \A c \in Chan : \A i \in DOMAIN sent[c] :
       i \in DOMAIN sent'[c] /\ sent'[c][i] = sent[c][i]
  /\ \A r \in R : req[r].kind = "send" =>
       /\ req'[r].seq \in DOMAIN sent'[req[r].chan]
       /\ sent'[req[r].chan][req'[r].seq] = Entry(r)

\* The places they get: on either side of a channel, each one of its own, and
\* together exactly those by which that side has grown.
PlaceEffect(R) ==
  \A c \in Chan, kind \in Kinds :
    LET S == OnSide(R, c, kind)
        l == SideLen(c, kind)
    IN /\ l \in Nat /\ Cardinality(S) \in Nat
       /\ SideLen(c, kind)' = l + Cardinality(S)
       /\ {req'[r].seq : r \in S} = l + 1 .. l + Cardinality(S)
       /\ \A r, q \in S : req'[r].seq = req'[q].seq => r = q

LEMMA PostHasEffect ==
  ASSUME TypeInv, NEW R \in SUBSET Req, \A r \in R : req[r].st = "inactive", Post(R)
  PROVE  PostEffect(R) /\ PlaceEffect(R)
  <1> DEFINE S(c, kind) == OnSide(R, c, kind)
             N(c, kind) == Cardinality(S(c, kind))
             L(c, kind) == SideLen(c, kind)
  <1>1. PICK place \in Places(R) :
          LET at(c, kind, i) ==
                CHOOSE r \in OnSide(R, c, kind) : place[r] = SideLen(c, kind) + i
          IN /\ req' = [r \in Req |-> IF r \in R
                                      THEN [req[r] EXCEPT !.st = "active", !.seq = place[r]]
                                      ELSE req[r]]
             /\ sent' = [c \in Chan |->
                           sent[c] \o [i \in 1 .. Cardinality(OnSide(R, c, "send")) |->
                                         Entry(at(c, "send", i))]]
             /\ posted' = [c \in Chan |->
                             posted[c] \o [i \in 1 .. Cardinality(OnSide(R, c, "recv")) |->
                                             req[at(c, "recv", i)].link]]
    BY DEF Post
  <1> DEFINE at(c, kind, i) == CHOOSE r \in S(c, kind) : place[r] = L(c, kind) + i
             newSent(c) == [i \in 1 .. N(c, "send") |-> Entry(at(c, "send", i))]
             newPosted(c) == [i \in 1 .. N(c, "recv") |-> req[at(c, "recv", i)].link]
  <1>2. /\ req' = [r \in Req |-> IF r \in R
                                 THEN [req[r] EXCEPT !.st = "active", !.seq = place[r]]
                                 ELSE req[r]]
        /\ sent' = [c \in Chan |-> sent[c] \o newSent(c)]
        /\ posted' = [c \in Chan |-> posted[c] \o newPosted(c)]
    BY <1>1
  <1>3. /\ place \in [R -> 1 .. MaxStarts]
        /\ \A c \in Chan, kind \in Kinds :
             /\ \A r, q \in S(c, kind) : place[r] = place[q] => r = q
             /\ {place[r] : r \in S(c, kind)} = L(c, kind) + 1 .. L(c, kind) + N(c, kind)
    BY DEF Places
  <1>4. \A c \in Chan, kind \in Kinds : N(c, kind) \in Nat /\ L(c, kind) \in Nat
    <2> SUFFICES ASSUME NEW c \in Chan, NEW kind \in Kinds
                 PROVE  N(c, kind) \in Nat /\ L(c, kind) \in Nat
      OBVIOUS
    <2>1. S(c, kind) \subseteq Req
      BY DEF OnSide
    <2>2. N(c, kind) \in Nat
      BY <2>1, PoolAssumption, FS_Subset, FS_CardinalityType
    <2>3. L(c, kind) \in Nat
      BY DEF SideLen, TypeInv, TypeOK
    <2> QED
      BY <2>2, <2>3
  <1>5. \A c \in Chan, kind \in Kinds : \A i \in 1 .. N(c, kind) :
          at(c, kind, i) \in S(c, kind) /\ place[at(c, kind, i)] = L(c, kind) + i
    <2> SUFFICES ASSUME NEW c \in Chan, NEW kind \in Kinds, NEW i \in 1 .. N(c, kind)
                 PROVE  at(c, kind, i) \in S(c, kind)
                        /\ place[at(c, kind, i)] = L(c, kind) + i
      OBVIOUS
    <2> HIDE DEF S, N, L
    <2>1. L(c, kind) + i \in {place[r] : r \in S(c, kind)}
      <3> DEFINE l == L(c, kind)
                 n == N(c, kind)
                 P == {place[r] : r \in S(c, kind)}
      <3>1. P = l + 1 .. l + n
        BY <1>3
      <3>2. l \in Nat /\ n \in Nat /\ i \in 1 .. n
        BY <1>4
      <3> HIDE DEF l, n, P
      <3>3. l + i \in l + 1 .. l + n
        BY <3>2
      <3> QED
        BY <3>1, <3>3 DEF l, P
    <2>2. \E r \in S(c, kind) : place[r] = L(c, kind) + i
      BY <2>1
    <2> QED
      BY <2>2
  <1>6. \A r \in R : r \in Req /\ req[r] \in ReqRec /\ req[r].kind \in Kinds
                     /\ req[r].chan \in Chan /\ req[r].link \in Link
                     /\ req[r].base \in Buf /\ Entry(r) \in SentRec
    <2> SUFFICES ASSUME NEW r \in R
                 PROVE  r \in Req /\ req[r] \in ReqRec /\ req[r].kind \in Kinds
                        /\ req[r].chan \in Chan /\ req[r].link \in Link
                        /\ req[r].base \in Buf /\ Entry(r) \in SentRec
      OBVIOUS
    <2>1. r \in Req /\ req[r] \in ReqRec /\ req[r].kind \in Kinds
          /\ req[r].chan \in Chan /\ req[r].link \in Link /\ req[r].base \in Buf
      BY DEF TypeInv, TypeOK, RequestsFilled
    <2>2. mem[ROwner[r]][req[r].base] \in Data
      BY <2>1, PoolAssumption DEF TypeInv, TypeOK
    <2> QED
      BY <2>1, <2>2 DEF Entry, SentRec
  <1>7. \A c \in Chan : newSent(c) \in Seq(SentRec) /\ Len(newSent(c)) = N(c, "send")
    <2> SUFFICES ASSUME NEW c \in Chan
                 PROVE  newSent(c) \in Seq(SentRec) /\ Len(newSent(c)) = N(c, "send")
      OBVIOUS
    <2>1. N(c, "send") \in Nat
      BY <1>4 DEF Kinds
    <2>2. \A i \in 1 .. N(c, "send") : Entry(at(c, "send", i)) \in SentRec
      <3>1. \A i \in 1 .. N(c, "send") : at(c, "send", i) \in S(c, "send")
        BY <1>5 DEF Kinds
      <3>2. S(c, "send") \subseteq R
        BY DEF OnSide
      <3> HIDE DEF at, S, N
      <3> QED
        BY <1>6, <3>1, <3>2
    <2> HIDE DEF at, S, N
    <2> QED
      BY <2>1, <2>2
  <1>8. \A c \in Chan : newPosted(c) \in Seq(Link) /\ Len(newPosted(c)) = N(c, "recv")
    <2> SUFFICES ASSUME NEW c \in Chan
                 PROVE  newPosted(c) \in Seq(Link) /\ Len(newPosted(c)) = N(c, "recv")
      OBVIOUS
    <2>1. N(c, "recv") \in Nat
      BY <1>4 DEF Kinds
    <2>2. \A i \in 1 .. N(c, "recv") : req[at(c, "recv", i)].link \in Link
      <3>1. \A i \in 1 .. N(c, "recv") : at(c, "recv", i) \in S(c, "recv")
        BY <1>5 DEF Kinds
      <3>2. S(c, "recv") \subseteq R
        BY DEF OnSide
      <3> HIDE DEF at, S, N
      <3> QED
        BY <1>6, <3>1, <3>2
    <2> HIDE DEF at, S, N
    <2> QED
      BY <2>1, <2>2
  <1>9. ASSUME NEW r \in R
        PROVE  /\ req'[r] \in ReqRec
               /\ req'[r].st = "active" /\ req'[r].seq = place[r]
               /\ req'[r].kind = req[r].kind /\ req'[r].chan = req[r].chan
               /\ req'[r].link = req[r].link /\ req'[r].base = req[r].base
    <2>1. req'[r] = [req[r] EXCEPT !.st = "active", !.seq = place[r]]
      BY <1>2, <1>6
    <2>2. req'[r] = [st |-> "active", kind |-> req[r].kind, chan |-> req[r].chan,
                     link |-> req[r].link, base |-> req[r].base, seq |-> place[r]]
      BY <1>6, <2>1 DEF ReqRec
    <2>3. place[r] \in Nat
      BY <1>3
    <2> QED
      BY <1>6, <2>2, <2>3 DEF ReqRec
  <1>10. req' \in [Req -> ReqRec]
    <2>1. \A r \in Req : req'[r] \in ReqRec
      BY <1>2, <1>9 DEF TypeInv, TypeOK
    <2> QED
      BY <1>2, <2>1
  <1> HIDE DEF newSent, newPosted
  <1>11. sent' \in [Chan -> Seq(SentRec)] /\ posted' \in [Chan -> Seq(Link)]
    <2>1. \A c \in Chan : sent[c] \in Seq(SentRec) /\ posted[c] \in Seq(Link)
      BY DEF TypeInv, TypeOK
    <2>2. \A c \in Chan : sent[c] \o newSent(c) \in Seq(SentRec)
      BY <1>7, <2>1, ConcatProperties
    <2>3. \A c \in Chan : posted[c] \o newPosted(c) \in Seq(Link)
      BY <1>8, <2>1, ConcatProperties
    <2> QED
      BY <1>2, <2>2, <2>3
  <1>12. ASSUME NEW c \in Chan
         PROVE  /\ sent[c] \in Seq(SentRec) /\ sent'[c] \in Seq(SentRec)
                /\ Len(sent'[c]) = Len(sent[c]) + N(c, "send")
                /\ \A i \in 1 .. Len(sent[c]) : sent'[c][i] = sent[c][i]
                /\ \A i \in 1 .. N(c, "send") :
                     sent'[c][Len(sent[c]) + i] = newSent(c)[i]
    <2>1. sent[c] \in Seq(SentRec)
      BY DEF TypeInv, TypeOK
    <2>2. sent'[c] = sent[c] \o newSent(c)
      BY <1>2
    <2>3. N(c, "send") \in Nat
      BY <1>4 DEF Kinds
    <2>4. newSent(c) \in Seq(SentRec) /\ Len(newSent(c)) = N(c, "send")
      BY <1>7
    <2> HIDE DEF N, S
    <2>5. \A a, b \in Seq(SentRec) :
            /\ Len(a \o b) = Len(a) + Len(b)
            /\ \A i \in 1 .. Len(a) : (a \o b)[i] = a[i]
            /\ \A i \in 1 .. Len(b) : (a \o b)[Len(a) + i] = b[i]
      <3>1. ASSUME NEW a \in Seq(SentRec), NEW b \in Seq(SentRec)
            PROVE  Len(a \o b) = Len(a) + Len(b)
        BY ConcatIndex
      <3>2. ASSUME NEW a \in Seq(SentRec), NEW b \in Seq(SentRec)
            PROVE  \A i \in 1 .. Len(a) : (a \o b)[i] = a[i]
        BY ConcatIndex
      <3>3. ASSUME NEW a \in Seq(SentRec), NEW b \in Seq(SentRec)
            PROVE  \A i \in 1 .. Len(b) : (a \o b)[Len(a) + i] = b[i]
        BY ConcatIndex
      <3> QED
        BY <3>1, <3>2, <3>3
    <2> DEFINE a == sent[c]
               b == newSent(c)
               n == N(c, "send")
               t == sent'[c]
    <2>6. /\ a \in Seq(SentRec) /\ b \in Seq(SentRec)
          /\ t = a \o b /\ Len(b) = n
      BY <2>1, <2>2, <2>4
    <2> HIDE DEF a, b, n, t
    <2>7. Len(a \o b) = Len(a) + Len(b)
      BY <2>5, <2>6
    <2>8. \A i \in 1 .. Len(a) : (a \o b)[i] = a[i]
      BY <2>5, <2>6
    <2>9. \A i \in 1 .. Len(b) : (a \o b)[Len(a) + i] = b[i]
      BY <2>5, <2>6
    <2>10. Len(t) = Len(a) + n
      BY <2>6, <2>7
    <2>11. \A i \in 1 .. Len(a) : t[i] = a[i]
      BY <2>6, <2>8
    <2>12. \A i \in 1 .. n : t[Len(a) + i] = b[i]
      BY <2>6, <2>9
    <2> QED
      BY <1>11, <2>1, <2>10, <2>11, <2>12 DEF a, b, n, t
  <1>13. \A c \in Chan : \A i \in DOMAIN sent[c] :
           i \in DOMAIN sent'[c] /\ sent'[c][i] = sent[c][i]
    <2> SUFFICES ASSUME NEW c \in Chan, NEW i \in DOMAIN sent[c]
                 PROVE  i \in DOMAIN sent'[c] /\ sent'[c][i] = sent[c][i]
      OBVIOUS
    <2> DEFINE s == sent[c]
               t == sent'[c]
               n == N(c, "send")
    <2>1. n \in Nat
      BY <1>4 DEF Kinds
    <2>2. /\ s \in Seq(SentRec) /\ t \in Seq(SentRec) /\ Len(t) = Len(s) + n
          /\ \A j \in 1 .. Len(s) : t[j] = s[j]
      BY <1>12
    <2>3. i \in DOMAIN s
      OBVIOUS
    <2> HIDE DEF N, S, s, t, n
    <2>4. i \in 1 .. Len(s) /\ Len(s) \in Nat /\ DOMAIN t = 1 .. Len(t)
      BY <2>2, <2>3
    <2>5. i \in 1 .. Len(t)
      BY <2>1, <2>2, <2>4
    <2> QED
      BY <2>2, <2>4, <2>5 DEF s, t
  <1>14. ASSUME NEW r \in R, req[r].kind = "send"
         PROVE  /\ req'[r].seq \in DOMAIN sent'[req[r].chan]
                /\ sent'[req[r].chan][req'[r].seq] = Entry(r)
    <2> DEFINE c == req[r].chan
               i == place[r] - Len(sent[c])
    <2>1. c \in Chan /\ r \in S(c, "send") /\ "send" \in Kinds
      BY <1>6, <1>14 DEF OnSide, Kinds
    <2>2. L(c, "send") = Len(sent[c])
      BY DEF SideLen
    <2>3. N(c, "send") \in Nat /\ L(c, "send") \in Nat
      BY <1>4, <2>1
    <2>4. place[r] \in L(c, "send") + 1 .. L(c, "send") + N(c, "send")
      BY <1>3, <2>1
    <2> HIDE DEF c
    <2>5. i \in 1 .. N(c, "send") /\ place[r] = Len(sent[c]) + i
      <3>1. \A x, l, n \in Int : x \in l + 1 .. l + n =>
              x - l \in 1 .. n /\ x = l + (x - l)
        OBVIOUS
      <3>2. place[r] \in Int
        BY <1>3
      <3>3. \A x \in Nat : x \in Int
        OBVIOUS
      <3> HIDE DEF L, N, S
      <3> QED
        BY <2>2, <2>3, <2>4, <3>1, <3>2, <3>3
    <2>6. at(c, "send", i) = r
      <3>1. at(c, "send", i) \in S(c, "send")
            /\ place[at(c, "send", i)] = L(c, "send") + i
        BY <1>5, <2>1, <2>5
      <3>2. \A q, p \in S(c, "send") : place[q] = place[p] => q = p
        BY <1>3, <2>1
      <3>3. place[at(c, "send", i)] = place[r]
        BY <2>2, <2>5, <3>1
      <3> HIDE DEF at, L, N, S, i
      <3> QED
        BY <2>1, <3>1, <3>2, <3>3
    <2>7. sent'[c][place[r]] = Entry(r)
      <3>1. newSent(c)[i] = Entry(at(c, "send", i))
        BY <2>5 DEF newSent
      <3>2. \A j \in 1 .. N(c, "send") : sent'[c][Len(sent[c]) + j] = newSent(c)[j]
        BY <1>12, <2>1
      <3> HIDE DEF at, L, N, S, i
      <3>3. sent'[c][Len(sent[c]) + i] = newSent(c)[i]
        BY <2>5, <3>2
      <3> QED
        BY <2>5, <2>6, <3>1, <3>3
    <2>8. place[r] \in DOMAIN sent'[c]
      <3> HIDE DEF N, S, i
      <3> QED
        BY <1>12, <2>1, <2>3, <2>5
    <2> QED
      BY <1>9, <2>7, <2>8 DEF c
  <1>15. ASSUME NEW c \in Chan, NEW kind \in Kinds
         PROVE  SideLen(c, kind)' = L(c, kind) + N(c, kind)
    <2>1. CASE kind = "send"
      <3>1. Len(sent'[c]) = Len(sent[c]) + N(c, "send")
        BY <1>12
      <3> QED
        BY <2>1, <3>1 DEF SideLen
    <2>2. CASE kind = "recv"
      <3> DEFINE a == posted[c]
                 b == newPosted(c)
      <3>1. a \in Seq(Link) /\ b \in Seq(Link) /\ Len(b) = N(c, "recv")
        BY <1>8 DEF TypeInv, TypeOK
      <3>2. posted'[c] = a \o b
        BY <1>2
      <3> HIDE DEF a, b, N, S
      <3>3. Len(a \o b) = Len(a) + Len(b)
        BY <3>1, ConcatIndex
      <3>4. Len(posted'[c]) = Len(posted[c]) + N(c, "recv")
        BY <3>1, <3>2, <3>3 DEF a
      <3> QED
        BY <2>2, <3>4 DEF SideLen
    <2> QED
      BY <2>1, <2>2 DEF Kinds
  <1>16. ASSUME NEW c \in Chan, NEW kind \in Kinds
         PROVE  /\ {req'[r].seq : r \in S(c, kind)} = L(c, kind) + 1 .. L(c, kind) + N(c, kind)
                /\ \A r, q \in S(c, kind) : req'[r].seq = req'[q].seq => r = q
    <2>1. S(c, kind) \subseteq R
      BY DEF OnSide
    <2>2. \A r \in S(c, kind) : req'[r].seq = place[r]
      BY <1>9, <2>1
    <2>3. {req'[r].seq : r \in S(c, kind)} = {place[r] : r \in S(c, kind)}
      BY <2>2
    <2> HIDE DEF S, L, N
    <2> QED
      BY <1>3, <2>2, <2>3
  <1>17. PlaceEffect(R)
    BY <1>4, <1>15, <1>16 DEF PlaceEffect
  <1> QED
    BY <1>2, <1>9, <1>10, <1>11, <1>13, <1>14, <1>17 DEF PostEffect

LEMMA ReqsInRange ==
  ASSUME TypeInv, NEW h \in Handle, Live(h), \A r \in Reqs(h) : r # None
  PROVE  Reqs(h) \subseteq Req
  <1>1. CASE Multiple(h)
    <2>1. \A k \in chain[h] : request_array[h][k] \in Req \cup {None}
      BY DEF TypeInv, TypeOK
    <2> QED
      BY <1>1, <2>1 DEF Reqs
  <1>2. CASE Single(h)
    BY <1>2 DEF Reqs, TypeInv, SinglesFilled, Single, Multiple, Kinds
  <1> QED
    BY <1>1, <1>2 DEF Live

\* A step that only sets the activeP of h, and keeps the chains and requests of
\* the handles, keeps the parts of the type invariant that are about handles.
LEMMA ActivateKeeps ==
  ASSUME TypeInv, NEW h \in Handle, NEW p \in {0, 1},
         mh' = [mh EXCEPT ![h].activeP = p], UNCHANGED <<chain, request>>
  PROVE  mh' \in [Handle -> HandleRec] /\ SinglesFilled' /\ Chained'
  <1>1. \A k \in Handle : /\ mh'[k] \in HandleRec
                          /\ mh'[k].type = mh[k].type /\ mh'[k].num = mh[k].num
                          /\ mh'[k].peer = mh[k].peer /\ mh'[k].base = mh[k].base
    <2> SUFFICES ASSUME NEW k \in Handle
                 PROVE  /\ mh'[k] \in HandleRec
                        /\ mh'[k].type = mh[k].type /\ mh'[k].num = mh[k].num
                        /\ mh'[k].peer = mh[k].peer /\ mh'[k].base = mh[k].base
      OBVIOUS
    <2>1. mh[k] \in HandleRec /\ mh'[k] = IF k = h THEN [mh[k] EXCEPT !.activeP = p]
                                          ELSE mh[k]
      BY DEF TypeInv, TypeOK
    <2>2. CASE k = h
      <3>1. mh'[k] = [mh[k] EXCEPT !.activeP = p]
        BY <2>1, <2>2
      <3>2. mh'[k] = [type |-> mh[k].type, num |-> mh[k].num, activeP |-> p,
                      peer |-> mh[k].peer, axis |-> mh[k].axis, dir |-> mh[k].dir,
                      base |-> mh[k].base]
        BY <2>1, <3>1 DEF HandleRec
      <3> QED
        BY <2>1, <3>2 DEF HandleRec
    <2>3. CASE k # h
      BY <2>1, <2>3
    <2> QED
      BY <2>2, <2>3
  <1>2. mh' \in [Handle -> HandleRec]
    BY <1>1 DEF TypeInv, TypeOK
  <1>3. SinglesFilled'
    BY <1>1 DEF TypeInv, SinglesFilled, Single
  <1>4. Chained'
    <2>1. \A k \in Handle : (Single(k) <=> Single(k)') /\ (Multiple(k) <=> Multiple(k)')
      BY <1>1 DEF Single, Multiple
    <2>2. \A k \in Handle : chain[k] \subseteq Handle
      BY DEF TypeInv, TypeOK
    <2> QED
      BY <1>1, <2>1, <2>2 DEF TypeInv, Chained
  <1> QED
    BY <1>2, <1>3, <1>4

LEMMA StartTypeInv ==
  ASSUME TypeInv, NEW h \in Handle, Start(h)
  PROVE  TypeInv'
  <1>1. /\ mh' = [mh EXCEPT ![h].activeP = 1]
        /\ lent' = [lent EXCEPT ![HOwner[h]] = @ \cup Bases(h)]
        /\ UNCHANGED <<chain, request, request_array, wire, mem, waiting>>
        /\ Live(h)
    BY DEF Start
  <1>2. mh' \in [Handle -> HandleRec] /\ SinglesFilled' /\ Chained'
    BY <1>1, ActivateKeeps
  <1>3. Bases(h) \subseteq Buf
    <2>1. \A k \in Leaves(h) : k \in Handle /\ Single(k)
      BY <1>1 DEF Leaves, Live, TypeInv, TypeOK, Chained
    <2> QED
      BY <2>1 DEF Bases, TypeInv, SinglesFilled
  <1>4. lent' \in [Node -> SUBSET Buf]
    BY <1>1, <1>3 DEF TypeInv, TypeOK
  <1>5. /\ req' \in [Req -> ReqRec] /\ RequestsFilled'
        /\ sent' \in [Chan -> Seq(SentRec)] /\ posted' \in [Chan -> Seq(Link)]
        /\ stop' \in {"no", "assert", "mpi"}
    <2>1. CASE /\ \A r \in Reqs(h) : r # None /\ req[r].st = "inactive"
               /\ Post(Reqs(h))
               /\ UNCHANGED stop
      <3>1. Reqs(h) \in SUBSET Req
        BY <1>1, <2>1, ReqsInRange
      <3>2. PostEffect(Reqs(h))
        BY <2>1, <3>1, PostHasEffect
      <3>3. RequestsFilled'
        BY <2>1, <3>1, <3>2 DEF PostEffect, TypeInv, RequestsFilled
      <3> QED
        BY <2>1, <3>2, <3>3 DEF PostEffect, TypeInv, TypeOK
    <2>2. CASE stop' = "mpi" /\ UNCHANGED <<req, sent, posted>>
      BY <2>2 DEF TypeInv, TypeOK, RequestsFilled
    <2> QED
      BY <2>1, <2>2 DEF Start
  <1>6. TypeOK'
    BY <1>1, <1>2, <1>4, <1>5 DEF TypeInv, TypeOK
  <1> QED
    BY <1>2, <1>5, <1>6 DEF TypeInv

\* What MPI_Wait, MPI_Waitall and successful tests leave of the requests.
CompleteEffect(h) ==
  /\ req' \in [Req -> ReqRec]
  /\ \A r \in Req :
       /\ req'[r].kind = req[r].kind /\ req'[r].chan = req[r].chan
       /\ req'[r].link = req[r].link /\ req'[r].base = req[r].base
       /\ \/ req'[r] = req[r] /\ (r \in Reqs(h) => req[r].st = "inactive")
          \/ r \in Reqs(h) /\ req[r].st = "complete" /\ req'[r].st = "inactive"

LEMMA CompleteHasEffect ==
  ASSUME TypeInv, NEW h \in Handle, Complete(h)
  PROVE  CompleteEffect(h)
  <1>1. req' = [r \in Req |-> IF r \in Reqs(h) /\ req[r].st = "complete"
                              THEN [req[r] EXCEPT !.st = "inactive", !.seq = 0]
                              ELSE req[r]]
        /\ \A r \in Reqs(h) : req[r].st \in {"complete", "inactive"}
    BY DEF Complete, AllDone
  <1>2. ASSUME NEW r \in Req
        PROVE  /\ req'[r] \in ReqRec
               /\ req'[r].kind = req[r].kind /\ req'[r].chan = req[r].chan
               /\ req'[r].link = req[r].link /\ req'[r].base = req[r].base
               /\ \/ req'[r] = req[r] /\ (r \in Reqs(h) => req[r].st = "inactive")
                  \/ r \in Reqs(h) /\ req[r].st = "complete" /\ req'[r].st = "inactive"
    <2>1. req[r] \in ReqRec
      BY DEF TypeInv, TypeOK
    <2>2. CASE r \in Reqs(h) /\ req[r].st = "complete"
      <3>1. req'[r] = [st |-> "inactive", kind |-> req[r].kind, chan |-> req[r].chan,
                       link |-> req[r].link, base |-> req[r].base, seq |-> 0]
        BY <1>1, <2>1, <2>2 DEF ReqRec
      <3> QED
        BY <2>1, <2>2, <3>1 DEF ReqRec
    <2>3. CASE ~(r \in Reqs(h) /\ req[r].st = "complete")
      BY <1>1, <2>1, <2>3
    <2> QED
      BY <2>2, <2>3
  <1>3. req' \in [Req -> ReqRec]
    BY <1>1, <1>2
  <1> QED
    BY <1>2, <1>3 DEF CompleteEffect

LEMMA CompleteTypeInv ==
  ASSUME TypeInv, NEW h \in Handle, Complete(h),
         waiting' \in [Node -> Handle \cup {None}]
  PROVE  TypeInv'
  <1>1. /\ mh' = [mh EXCEPT ![h].activeP = 0]
        /\ lent' = [lent EXCEPT ![HOwner[h]] = @ \ Bases(h)]
        /\ UNCHANGED <<chain, request, request_array, sent, posted, wire, mem, stop>>
    BY DEF Complete
  <1>2. CompleteEffect(h)
    BY CompleteHasEffect
  <1>3. mh' \in [Handle -> HandleRec] /\ SinglesFilled' /\ Chained'
    BY <1>1, ActivateKeeps
  <1>4. RequestsFilled'
    BY <1>2 DEF CompleteEffect, TypeInv, RequestsFilled
  <1>5. lent' \in [Node -> SUBSET Buf]
    BY <1>1 DEF TypeInv, TypeOK
  <1>6. TypeOK'
    BY <1>1, <1>2, <1>3, <1>5 DEF CompleteEffect, TypeInv, TypeOK
  <1> QED
    BY <1>3, <1>4, <1>6 DEF TypeInv

LEMMA IsCompleteTypeInv ==
  ASSUME TypeInv, NEW h \in Handle, IsComplete(h)
  PROVE  TypeInv'
  <1>1. Complete(h) /\ waiting' = waiting
    BY DEF IsComplete
  <1>2. waiting' \in [Node -> Handle \cup {None}]
    BY <1>1 DEF TypeInv, TypeOK
  <1> QED
    BY <1>1, <1>2, CompleteTypeInv

LEMMA EndWaitTypeInv ==
  ASSUME TypeInv, NEW n \in Node, EndWait(n)
  PROVE  TypeInv'
  <1>1. Complete(waiting[n]) /\ waiting[n] # None
        /\ waiting' = [waiting EXCEPT ![n] = None]
    BY DEF EndWait
  <1>2. waiting[n] \in Handle /\ waiting' \in [Node -> Handle \cup {None}]
    BY <1>1 DEF TypeInv, TypeOK
  <1> QED
    BY <1>1, <1>2, CompleteTypeInv

\* The steps of the program that change neither handles nor requests.
LEMMA ClientTypeInv ==
  ASSUME TypeInv, UNCHANGED <<handleVars, mpiVars>>,
         mem' \in [Node -> [Buf -> Data]],
         lent' \in [Node -> SUBSET Buf],
         waiting' \in [Node -> Handle \cup {None}],
         stop' \in {"no", "assert", "mpi"}
  PROVE  TypeInv'
  BY DEF TypeInv, TypeOK, SinglesFilled, RequestsFilled, Chained, Single,
         Multiple, handleVars, mpiVars

LEMMA CallTypeInv ==
  ASSUME TypeInv, NEW h \in Handle,
         \/ BeginWait(h) \/ Misuse(h) \/ \E k \in Handle : WaitMember(h, k)
  PROVE  TypeInv'
  <1>1. UNCHANGED <<handleVars, mpiVars>>
    BY DEF BeginWait, Misuse, WaitMember
  <1>2. mem' \in [Node -> [Buf -> Data]]
    BY DEF BeginWait, Misuse, WaitMember, clientVars, TypeInv, TypeOK
  <1>3. lent' \in [Node -> SUBSET Buf]
    BY DEF BeginWait, Misuse, WaitMember, clientVars, TypeInv, TypeOK
  <1>4. waiting' \in [Node -> Handle \cup {None}]
    BY DEF BeginWait, Misuse, WaitMember, clientVars, TypeInv, TypeOK
  <1>5. stop' \in {"no", "assert", "mpi"}
    BY DEF BeginWait, Misuse, WaitMember, TypeInv, TypeOK
  <1> QED
    BY <1>1, <1>2, <1>3, <1>4, <1>5, ClientTypeInv

LEMMA WriteTypeInv ==
  ASSUME TypeInv, NEW n \in Node, NEW b \in Buf, NEW v \in Data, Write(n, b, v)
  PROVE  TypeInv'
  <1>1. UNCHANGED <<handleVars, mpiVars, lent, waiting, stop>>
        /\ mem' = [mem EXCEPT ![n][b] = v]
    BY DEF Write
  <1>2. mem' \in [Node -> [Buf -> Data]]
    BY <1>1 DEF TypeInv, TypeOK
  <1> QED
    BY <1>1, <1>2, ClientTypeInv DEF TypeInv, TypeOK

\* MPI completing a request changes nothing of it but its state.
LEMMA FinishedType ==
  ASSUME NEW r \in Req, req[r] \in ReqRec
  PROVE  /\ Finished(r) \in ReqRec
         /\ Finished(r).st = "complete" /\ Finished(r).kind = req[r].kind
         /\ Finished(r).chan = req[r].chan /\ Finished(r).link = req[r].link
         /\ Finished(r).base = req[r].base /\ Finished(r).seq = req[r].seq
  <1>1. Finished(r) = [st |-> "complete", kind |-> req[r].kind, chan |-> req[r].chan,
                       link |-> req[r].link, base |-> req[r].base, seq |-> req[r].seq]
    BY DEF Finished, ReqRec
  <1> QED
    BY <1>1 DEF ReqRec

\* A step of MPI that completes active requests keeps the type invariant.
LEMMA FinishTypeInv ==
  ASSUME TypeInv, NEW R \in SUBSET Req, \A r \in R : req[r].st = "active",
         req' = [r \in Req |-> IF r \in R THEN Finished(r) ELSE req[r]],
         UNCHANGED <<handleVars, sent, posted, lent, waiting, stop>>,
         mem' \in [Node -> [Buf -> Data]], wire' \subseteq WireRec
  PROVE  TypeInv'
  <1>1. \A r \in Req :
          /\ Finished(r) \in ReqRec
          /\ Finished(r).kind = req[r].kind /\ Finished(r).chan = req[r].chan
          /\ Finished(r).link = req[r].link /\ Finished(r).base = req[r].base
    BY FinishedType DEF TypeInv, TypeOK
  <1>2. req' \in [Req -> ReqRec]
    BY <1>1 DEF TypeInv, TypeOK
  <1>3. RequestsFilled'
    <2> SUFFICES ASSUME NEW r \in Req, req'[r].st # "free"
                 PROVE  /\ req'[r].kind \in Kinds /\ req'[r].chan \in Chan
                        /\ req'[r].link \in Link /\ req'[r].base \in Buf
      BY DEF RequestsFilled
    <2>1. CASE r \in R
      BY <1>1, <2>1 DEF TypeInv, RequestsFilled
    <2>2. CASE r \notin R
      BY <2>2 DEF TypeInv, RequestsFilled
    <2> QED
      BY <2>1, <2>2
  <1>4. TypeOK'
    BY <1>2 DEF TypeInv, TypeOK, handleVars
  <1>5. SinglesFilled' /\ Chained'
    BY DEF TypeInv, SinglesFilled, Chained, Single, Multiple, handleVars
  <1> QED
    BY <1>3, <1>4, <1>5 DEF TypeInv

LEMMA BufferTypeInv ==
  ASSUME TypeInv, NEW r \in Req, Buffer(r)
  PROVE  TypeInv'
  <1>1. /\ req[r].st = "active"
        /\ wire' = wire \cup {[chan |-> req[r].chan, seq |-> req[r].seq,
                               val |-> mem[ROwner[r]][req[r].base],
                               link |-> req[r].link]}
        /\ req' = [q \in Req |-> IF q \in {r} THEN Finished(q) ELSE req[q]]
        /\ UNCHANGED <<handleVars, sent, posted, lent, waiting, stop, mem>>
    BY DEF Buffer, clientVars, TypeInv, TypeOK
  <1>2. /\ req[r].chan \in Chan /\ req[r].seq \in Nat /\ req[r].link \in Link
        /\ req[r].base \in Buf /\ ROwner[r] \in Node
    BY <1>1, PoolAssumption DEF TypeInv, TypeOK, RequestsFilled, ReqRec
  <1>3. mem[ROwner[r]][req[r].base] \in Data
    BY <1>2 DEF TypeInv, TypeOK
  <1>4. wire' \subseteq WireRec
    BY <1>1, <1>2, <1>3 DEF TypeInv, TypeOK, WireRec
  <1> DEFINE R == {r}
  <1>5. /\ R \in SUBSET Req /\ \A q \in R : req[q].st = "active"
        /\ req' = [q \in Req |-> IF q \in R THEN Finished(q) ELSE req[q]]
    BY <1>1
  <1>6. /\ UNCHANGED <<handleVars, sent, posted, lent, waiting, stop>>
        /\ mem' \in [Node -> [Buf -> Data]] /\ wire' \subseteq WireRec
    BY <1>1, <1>4 DEF TypeInv, TypeOK
  <1> HIDE DEF R
  <1> QED
    BY <1>5, <1>6, FinishTypeInv

LEMMA DeliverTypeInv ==
  ASSUME TypeInv, NEW m \in wire, NEW q \in Req, Deliver(m, q)
  PROVE  TypeInv'
  <1>1. /\ req[q].st = "active"
        /\ wire' = wire \ {m}
        /\ mem' = [mem EXCEPT ![ROwner[q]][req[q].base] = m.val]
        /\ req' = [r \in Req |-> IF r \in {q} THEN Finished(r) ELSE req[r]]
        /\ UNCHANGED <<handleVars, sent, posted, lent, waiting, stop>>
    BY DEF Deliver, TypeInv, TypeOK
  <1>2. m.val \in Data
    BY DEF TypeInv, TypeOK, WireRec
  <1>3. mem' \in [Node -> [Buf -> Data]] /\ wire' \subseteq WireRec
    BY <1>1, <1>2 DEF TypeInv, TypeOK
  <1> DEFINE R == {q}
  <1>4. /\ R \in SUBSET Req /\ \A r \in R : req[r].st = "active"
        /\ req' = [r \in Req |-> IF r \in R THEN Finished(r) ELSE req[r]]
    BY <1>1
  <1>5. /\ UNCHANGED <<handleVars, sent, posted, lent, waiting, stop>>
        /\ mem' \in [Node -> [Buf -> Data]] /\ wire' \subseteq WireRec
    BY <1>1, <1>3 DEF TypeInv, TypeOK
  <1> HIDE DEF R
  <1> QED
    BY <1>4, <1>5, FinishTypeInv

LEMMA TransferTypeInv ==
  ASSUME TypeInv, NEW r \in Req, NEW q \in Req, Transfer(r, q)
  PROVE  TypeInv'
  <1>1. /\ req[r].st = "active" /\ req[q].st = "active"
        /\ mem' = [mem EXCEPT ![ROwner[q]][req[q].base] = mem[ROwner[r]][req[r].base]]
        /\ req' = [p \in Req |-> IF p \in {r, q} THEN Finished(p) ELSE req[p]]
        /\ UNCHANGED <<handleVars, sent, posted, wire, lent, waiting, stop>>
    BY DEF Transfer, TypeInv, TypeOK
  <1>2. req[r].base \in Buf /\ ROwner[r] \in Node
    BY <1>1, PoolAssumption DEF TypeInv, RequestsFilled
  <1>3. mem[ROwner[r]][req[r].base] \in Data
    BY <1>2 DEF TypeInv, TypeOK
  <1>4. mem' \in [Node -> [Buf -> Data]] /\ wire' \subseteq WireRec
    BY <1>1, <1>3 DEF TypeInv, TypeOK
  <1> DEFINE R == {r, q}
  <1>5. /\ R \in SUBSET Req /\ \A p \in R : req[p].st = "active"
        /\ req' = [p \in Req |-> IF p \in R THEN Finished(p) ELSE req[p]]
    BY <1>1
  <1>6. /\ UNCHANGED <<handleVars, sent, posted, lent, waiting, stop>>
        /\ mem' \in [Node -> [Buf -> Data]] /\ wire' \subseteq WireRec
    BY <1>1, <1>4 DEF TypeInv, TypeOK
  <1> HIDE DEF R
  <1> QED
    BY <1>5, <1>6, FinishTypeInv

LEMMA NextTypeInv == TypeInv /\ [Next]_vars => TypeInv'
  <1> SUFFICES ASSUME TypeInv, [Next]_vars PROVE TypeInv'
    OBVIOUS
  <1>1. ASSUME NEW h \in Handle, NEW d \in Decls, Declare(h, d) PROVE TypeInv'
    BY <1>1, DeclareTypeInv
  <1>2. ASSUME NEW h \in Handle, NEW S \in SUBSET {k \in Handle : Live(k)},
               DeclareMultiple(h, S)
        PROVE  TypeInv'
    BY <1>2, DeclareMultipleTypeInv
  <1>3. ASSUME NEW h \in Handle, Free(h) PROVE TypeInv'
    BY <1>3, FreeTypeInv
  <1>4. ASSUME NEW h \in Handle, NEW b \in Buf, ChangeAddress(h, b) PROVE TypeInv'
    BY <1>4, ChangeAddressTypeInv
  <1>5. ASSUME NEW h \in Handle, NEW addr \in [chain[h] -> Buf],
               ChangeAddressMultiple(h, addr)
        PROVE  TypeInv'
    BY <1>5, ChangeAddressMultipleTypeInv
  <1>6. ASSUME NEW h \in Handle, Start(h) PROVE TypeInv'
    BY <1>6, StartTypeInv
  <1>7. ASSUME NEW h \in Handle, IsComplete(h) PROVE TypeInv'
    BY <1>7, IsCompleteTypeInv
  <1>8. ASSUME NEW n \in Node, EndWait(n) PROVE TypeInv'
    BY <1>8, EndWaitTypeInv
  <1>9. ASSUME NEW h \in Handle,
               \/ BeginWait(h) \/ Misuse(h) \/ \E k \in Handle : WaitMember(h, k)
        PROVE  TypeInv'
    BY <1>9, CallTypeInv
  <1>10. ASSUME NEW n \in Node, NEW b \in Buf, NEW v \in Data, Write(n, b, v)
         PROVE  TypeInv'
    BY <1>10, WriteTypeInv
  <1>11. CASE Progress
    BY <1>11, BufferTypeInv, DeliverTypeInv, TransferTypeInv DEF Progress
  <1>12. CASE UNCHANGED vars
    BY <1>12, ClientTypeInv DEF vars, clientVars, TypeInv, TypeOK
  <1> QED
    BY <1>1, <1>2, <1>3, <1>4, <1>5, <1>6, <1>7, <1>8, <1>9, <1>10, <1>11, <1>12
       DEF Next

\* Whatever the program calls, every structure keeps its shape: a handle in use
\* has a peer, a buffer and a request, a request MPI holds is fully described,
\* and the "next" lists are disjoint lists of marked individual handles.
THEOREM TypeCorrect == Spec => []TypeOK
  <1>1. Spec => []TypeInv
    BY InitTypeInv, NextTypeInv, PTL DEF Spec
  <1>2. TypeInv => TypeOK
    BY DEF TypeInv
  <1> QED
    BY <1>1, <1>2, PTL

-----------------------------------------------------------------------------
(* Handles and requests in step: RequestOwnership in parts *)

\* The request of handle h was initialised with what h describes.
Describes(h) ==
  /\ req[request[h]].kind = mh[h].type
  /\ req[request[h]].chan = ChanOf(HOwner[h], mh[h])
  /\ req[request[h]].link = LinkOf(HOwner[h], mh[h])
  /\ req[request[h]].base = mh[h].base

Owned ==
  \A h \in Handle : Single(h) =>
    /\ request[h] \in Req
    /\ ROwner[request[h]] = HOwner[h]
    /\ req[request[h]].st # "free"
    /\ Describes(h)

Unshared ==
  \A h, k \in Handle : Single(h) /\ Single(k) /\ request[h] = request[k] => h = k

NotLeaked ==
  \A r \in Req : req[r].st # "free" => \E h \in Handle : Single(h) /\ request[h] = r

OwnInv == Owned /\ Unshared /\ NotLeaked

\* Two handle structures that agree on where they lead lead to one channel.
LEMMA SameChannel ==
  ASSUME NEW n \in Node, NEW m1 \in HandleRec, NEW m2 \in HandleRec,
         m1.type = m2.type, m1.peer = m2.peer, m1.axis = m2.axis, m1.dir = m2.dir
  PROVE  ChanOf(n, m1) = ChanOf(n, m2) /\ LinkOf(n, m1) = LinkOf(n, m2)
  BY DEF ChanOf, LinkOf

\* A request that agrees with a handle structure on what it was initialised
\* with is, but for its progress, the request the handle's hook initialises.
LEMMA DescribedRequest ==
  ASSUME NEW q \in ReqRec, NEW n \in Node, NEW m \in HandleRec,
         q.kind = m.type, q.chan = ChanOf(n, m), q.link = LinkOf(n, m),
         q.base = m.base
  PROVE  [q EXCEPT !.st = "inactive", !.seq = 0] = PersistentRequest(n, m)
  <1> SUFFICES ASSUME NEW x, x = [q EXCEPT !.st = "inactive", !.seq = 0]
               PROVE  x = PersistentRequest(n, m)
    OBVIOUS
  <1>1. x = [st |-> "inactive", kind |-> q.kind, chan |-> q.chan,
             link |-> q.link, base |-> q.base, seq |-> 0]
    BY DEF ReqRec
  <1> QED
    BY <1>1 DEF PersistentRequest

LEMMA OwnInvSuffices == TypeInv /\ OwnInv => RequestOwnership
  <1> SUFFICES ASSUME TypeInv, OwnInv PROVE RequestOwnership
    OBVIOUS
  <1>1. ASSUME NEW h \in Handle, Single(h)
        PROVE  [req[request[h]] EXCEPT !.st = "inactive", !.seq = 0]
                 = PersistentRequest(HOwner[h], mh[h])
    <2> DEFINE q == req[request[h]]
               m == mh[h]
               n == HOwner[h]
    <2>1. /\ q \in ReqRec /\ m \in HandleRec /\ n \in Node
          /\ q.kind = m.type /\ q.chan = ChanOf(n, m) /\ q.link = LinkOf(n, m)
          /\ q.base = m.base
      BY <1>1, PoolAssumption DEF TypeInv, TypeOK, OwnInv, Owned, Describes
    <2> HIDE DEF q, m, n
    <2>2. [q EXCEPT !.st = "inactive", !.seq = 0] = PersistentRequest(n, m)
      BY <2>1, DescribedRequest
    <2> QED
      BY <2>2 DEF q, m, n
  <1> QED
    BY <1>1 DEF OwnInv, Owned, Unshared, NotLeaked, RequestOwnership

-----------------------------------------------------------------------------
(* Steps that keep what requests and handles describe *)

LEMMA KeepOwnInv ==
  ASSUME TypeInv, TypeInv', OwnInv,
         \A h \in Handle : Single(h)' <=> Single(h),
         \A h \in Handle : Single(h) =>
           /\ mh'[h].type = mh[h].type /\ mh'[h].peer = mh[h].peer
           /\ mh'[h].axis = mh[h].axis /\ mh'[h].dir = mh[h].dir
           /\ mh'[h].base = mh[h].base
           /\ request'[h] = request[h],
         \A r \in Req :
           /\ req'[r].st = "free" <=> req[r].st = "free"
           /\ req'[r].kind = req[r].kind /\ req'[r].chan = req[r].chan
           /\ req'[r].link = req[r].link /\ req'[r].base = req[r].base
  PROVE  OwnInv'
  <1>1. Owned'
    <2> SUFFICES ASSUME NEW h \in Handle, Single(h)'
                 PROVE  (/\ request[h] \in Req
                         /\ ROwner[request[h]] = HOwner[h]
                         /\ req[request[h]].st # "free"
                         /\ Describes(h))'
      BY DEF Owned
    <2>1. Single(h) /\ request'[h] = request[h]
      OBVIOUS
    <2>2. /\ request[h] \in Req /\ ROwner[request[h]] = HOwner[h]
          /\ req[request[h]].st # "free" /\ Describes(h)
      BY <2>1 DEF OwnInv, Owned
    <2>3. /\ ChanOf(HOwner[h], mh'[h]) = ChanOf(HOwner[h], mh[h])
          /\ LinkOf(HOwner[h], mh'[h]) = LinkOf(HOwner[h], mh[h])
      <3> DEFINE m1 == mh'[h]
                 m2 == mh[h]
                 n  == HOwner[h]
      <3>1. m1 \in HandleRec /\ m2 \in HandleRec /\ n \in Node
        BY PoolAssumption DEF TypeInv, TypeOK
      <3>2. m1.type = m2.type /\ m1.peer = m2.peer /\ m1.axis = m2.axis
            /\ m1.dir = m2.dir
        BY <2>1
      <3> HIDE DEF m1, m2, n
      <3>3. ChanOf(n, m1) = ChanOf(n, m2) /\ LinkOf(n, m1) = LinkOf(n, m2)
        BY <3>1, <3>2, SameChannel
      <3> QED
        BY <3>3 DEF m1, m2, n
    <2>4. Describes(h)'
      BY <2>1, <2>2, <2>3 DEF Describes
    <2> QED
      BY <2>1, <2>2, <2>4
  <1>2. Unshared'
    BY DEF OwnInv, Unshared
  <1>3. NotLeaked'
    BY DEF OwnInv, NotLeaked
  <1> QED
    BY <1>1, <1>2, <1>3 DEF OwnInv

-----------------------------------------------------------------------------
(* Steps that free the requests of the handles in G and initialise requests *)
(* for the handles in C                                                     *)

Renewal(C, G) ==
  /\ \A h \in G : Single(h)
  /\ \A h \in Handle : Single(h)' <=> h \in C \/ (Single(h) /\ h \notin G)
  /\ \A h \in Handle \ C : Single(h) /\ h \notin G =>
       mh'[h] = mh[h] /\ request'[h] = request[h]
  /\ \A h \in C :
       /\ request'[h] \in Req
       /\ ROwner[request'[h]] = HOwner[h]
       /\ req'[request'[h]] = PersistentRequest(HOwner[h], mh'[h])
       /\ \/ req[request'[h]].st = "free"
          \/ \E g \in G : request[g] = request'[h]
  /\ \A h, k \in C : request'[h] = request'[k] => h = k
  /\ \A h \in C : ~Single(h) \/ h \in G
  /\ \A r \in Req : (\A h \in C : request'[h] # r) =>
       req'[r] = IF \E g \in G : request[g] = r THEN NoRequest ELSE req[r]

LEMMA RenewOwnInv ==
  ASSUME TypeInv, TypeInv', OwnInv,
         NEW C \in SUBSET Handle, NEW G \in SUBSET Handle, Renewal(C, G)
  PROVE  OwnInv'
  <1> USE DEF Renewal
  <1> DEFINE Kept == {h \in Handle \ C : Single(h) /\ h \notin G}
  <1>1. \A h \in Handle : Single(h)' <=> h \in C \/ h \in Kept
    OBVIOUS
  <1>2. ASSUME NEW h \in Kept
        PROVE  /\ \A k \in C : request'[k] # request[h]
               /\ \A g \in G : request[g] # request[h]
               /\ request[h] \in Req /\ ROwner[request[h]] = HOwner[h]
               /\ req[request[h]].st # "free" /\ Describes(h)
    <2>1. /\ request[h] \in Req /\ ROwner[request[h]] = HOwner[h]
          /\ req[request[h]].st # "free" /\ Describes(h)
      BY DEF OwnInv, Owned
    <2>2. \A g \in G : request[g] # request[h]
      BY DEF OwnInv, Unshared
    <2> QED
      BY <2>1, <2>2
  <1>3. \A h \in Kept : req'[request[h]] = req[request[h]]
    BY <1>2
  <1> HIDE DEF Kept
  <1>4. \A h \in Kept : h \in Handle /\ mh'[h] = mh[h] /\ request'[h] = request[h]
    BY DEF Kept
  <1>5. ASSUME NEW h \in C
        PROVE  /\ req'[request'[h]].st # "free"
               /\ Describes(h)'
    <2> DEFINE m == mh'[h]
               n == HOwner[h]
               q == req'[request'[h]]
    <2>1. m \in HandleRec /\ n \in Node /\ m.type \in Kinds /\ m.peer \in Node
          /\ m.base \in Buf
      BY PoolAssumption DEF TypeInv, TypeOK, SinglesFilled, Single
    <2>2. q = PersistentRequest(n, m)
      OBVIOUS
    <2> HIDE DEF m, n, q
    <2>3. /\ q.st = "inactive" /\ q.kind = m.type /\ q.chan = ChanOf(n, m)
          /\ q.link = LinkOf(n, m) /\ q.base = m.base
      BY <2>2 DEF PersistentRequest
    <2> QED
      BY <2>3 DEF m, n, q, Describes
  <1>6. Owned'
    <2> SUFFICES ASSUME NEW h \in Handle, Single(h)'
                 PROVE  (/\ request[h] \in Req
                         /\ ROwner[request[h]] = HOwner[h]
                         /\ req[request[h]].st # "free"
                         /\ Describes(h))'
      BY DEF Owned
    <2>1. CASE h \in C
      BY <1>5, <2>1
    <2>2. CASE h \in Kept
      BY <1>2, <1>3, <1>4, <2>2 DEF Describes
    <2> QED
      BY <1>1, <2>1, <2>2
  <1>7. Unshared'
    <2> SUFFICES ASSUME NEW h \in Handle, NEW k \in Handle,
                        Single(h)', Single(k)', request'[h] = request'[k]
                 PROVE  h = k
      BY DEF Unshared
    <2>1. CASE h \in C /\ k \in C
      BY <2>1
    <2>2. CASE h \in Kept /\ k \in Kept
      BY <1>4, <2>2 DEF Kept, OwnInv, Unshared
    <2>3. CASE h \in Kept /\ k \in C
      BY <1>2, <1>4, <2>3
    <2>4. CASE h \in C /\ k \in Kept
      BY <1>2, <1>4, <2>4
    <2> QED
      BY <1>1, <2>1, <2>2, <2>3, <2>4
  <1>8. NotLeaked'
    <2> SUFFICES ASSUME NEW r \in Req, req'[r].st # "free"
                 PROVE  \E h \in Handle : Single(h)' /\ request'[h] = r
      BY DEF NotLeaked
    <2>1. CASE \E h \in C : request'[h] = r
      BY <1>1, <2>1
    <2>2. CASE \A h \in C : request'[h] # r
      <3>1. \A g \in G : request[g] # r
        BY <2>2 DEF NoRequest
      <3>2. req'[r] = req[r]
        BY <2>2, <3>1
      <3>3. PICK h \in Handle : Single(h) /\ request[h] = r
        BY <3>2 DEF OwnInv, NotLeaked
      <3>4. h \in Kept
        BY <3>1, <3>3 DEF Kept
      <3> QED
        BY <1>1, <1>4, <3>3, <3>4
    <2> QED
      BY <2>1, <2>2
  <1> QED
    BY <1>6, <1>7, <1>8 DEF OwnInv
-----------------------------------------------------------------------------
(* ChainsWellFormed in parts; that the lists are disjoint is in TypeInv *)

ListsFilled  == \A h \in Handle : chain[h] # {} <=> Multiple(h)
ListsCounted == \A h \in Handle : Multiple(h) => mh[h].num = Cardinality(chain[h])
MembersIdle  ==
  \A h \in Handle : \A k \in chain[h] :
    Single(k) /\ HOwner[k] = HOwner[h] /\ mh[k].num = 0 /\ mh[k].activeP = 0
MarkedListed ==
  \A h \in Handle : Single(h) /\ mh[h].num = 0 => \E p \in Handle : h \in chain[p]

ChainInv == ListsFilled /\ ListsCounted /\ MembersIdle /\ MarkedListed

HandleInv == TypeInv /\ OwnInv /\ ChainInv

LEMMA ChainInvSuffices == TypeInv /\ ChainInv => ChainsWellFormed
  BY DEF TypeInv, Chained, ChainInv, ListsFilled, ListsCounted, MembersIdle,
         MarkedListed, ChainsWellFormed

\* Steps that change no list, no type and no num, and activate no member.
LEMMA KeepChainInv ==
  ASSUME TypeInv, ChainInv, chain' = chain,
         \A h \in Handle :
           /\ mh'[h].type = mh[h].type /\ mh'[h].num = mh[h].num
           /\ mh[h].num = 0 => mh'[h].activeP \in {mh[h].activeP, 0}
  PROVE  ChainInv'
  <1>1. \A h \in Handle : (Multiple(h)' <=> Multiple(h)) /\ (Single(h)' <=> Single(h))
    BY DEF Multiple, Single
  <1>2. \A h \in Handle : \A k \in chain[h] : k \in Handle
    BY DEF TypeInv, TypeOK
  <1>3. ListsFilled' /\ ListsCounted' /\ MarkedListed'
    BY <1>1 DEF ChainInv, ListsFilled, ListsCounted, MarkedListed
  <1>4. MembersIdle'
    BY <1>1, <1>2 DEF ChainInv, MembersIdle
  <1> QED
    BY <1>3, <1>4 DEF ChainInv

\* Setting the activeP of a handle with num # 0, or clearing that of any.
LEMMA ActivateHandleInv ==
  ASSUME HandleInv, TypeInv', NEW h \in Handle, NEW p \in {0, 1},
         mh' = [mh EXCEPT ![h].activeP = p], UNCHANGED <<chain, request>>,
         p = 0 \/ mh[h].num # 0,
         \A r \in Req :
           /\ req'[r].st = "free" <=> req[r].st = "free"
           /\ req'[r].kind = req[r].kind /\ req'[r].chan = req[r].chan
           /\ req'[r].link = req[r].link /\ req'[r].base = req[r].base
  PROVE  HandleInv'
  <1>1. \A k \in Handle :
          /\ mh'[k].type = mh[k].type /\ mh'[k].num = mh[k].num
          /\ mh'[k].peer = mh[k].peer /\ mh'[k].axis = mh[k].axis
          /\ mh'[k].dir = mh[k].dir /\ mh'[k].base = mh[k].base
          /\ mh[k].num = 0 => mh'[k].activeP \in {mh[k].activeP, 0}
    <2> SUFFICES ASSUME NEW k \in Handle
                 PROVE  /\ mh'[k].type = mh[k].type /\ mh'[k].num = mh[k].num
                        /\ mh'[k].peer = mh[k].peer /\ mh'[k].axis = mh[k].axis
                        /\ mh'[k].dir = mh[k].dir /\ mh'[k].base = mh[k].base
                        /\ mh[k].num = 0 => mh'[k].activeP \in {mh[k].activeP, 0}
      OBVIOUS
    <2>1. mh[k] \in HandleRec
      BY DEF HandleInv, TypeInv, TypeOK
    <2>2. CASE k = h
      <3>1. mh'[k] = [mh[k] EXCEPT !.activeP = p]
        BY <2>2 DEF HandleInv, TypeInv, TypeOK
      <3>2. mh'[k] = [type |-> mh[k].type, num |-> mh[k].num, activeP |-> p,
                      peer |-> mh[k].peer, axis |-> mh[k].axis, dir |-> mh[k].dir,
                      base |-> mh[k].base]
        BY <2>1, <3>1 DEF HandleRec
      <3> QED
        BY <2>2, <3>2
    <2>3. CASE k # h
      BY <2>3 DEF HandleInv, TypeInv, TypeOK
    <2> QED
      BY <2>2, <2>3
  <1>2. \A k \in Handle : Single(k)' <=> Single(k)
    BY <1>1 DEF Single
  <1>3. OwnInv'
    BY <1>1, <1>2, KeepOwnInv DEF HandleInv
  <1>4. ChainInv'
    BY <1>1, KeepChainInv DEF HandleInv
  <1> QED
    BY <1>3, <1>4 DEF HandleInv

-----------------------------------------------------------------------------
(* One lemma per action *)

LEMMA InitHandleInv == Init => HandleInv
  <1> SUFFICES ASSUME Init PROVE HandleInv
    OBVIOUS
  <1>1. \A h \in Handle : ~Single(h) /\ ~Multiple(h) /\ chain[h] = {}
    BY DEF Init, Single, Multiple, Kinds, NoHandle
  <1>2. \A r \in Req : req[r].st = "free"
    BY DEF Init, NoRequest
  <1>3. OwnInv
    BY <1>1, <1>2 DEF OwnInv, Owned, Unshared, NotLeaked
  <1>4. ChainInv
    BY <1>1 DEF ChainInv, ListsFilled, ListsCounted, MembersIdle, MarkedListed
  <1> QED
    BY <1>3, <1>4, InitTypeInv DEF HandleInv

LEMMA DeclareHandleInv ==
  ASSUME HandleInv, TypeInv', NEW h \in Handle, NEW d \in Decls, Declare(h, d)
  PROVE  HandleInv'
  <1> DEFINE m == [type |-> d.kind, num |-> 1, activeP |-> 0, peer |-> Peer(d),
                   axis |-> d.axis, dir |-> d.dir, base |-> d.base]
  <1>1. PICK r \in FreeReqs(d.node) :
          /\ mh' = [mh EXCEPT ![h] = m]
          /\ request' = [request EXCEPT ![h] = r]
          /\ req' = [req EXCEPT ![r] = PersistentRequest(d.node, m)]
    BY DEF Declare
  <1>2. /\ mh[h].type = "free" /\ d.node = HOwner[h] /\ chain' = chain
    BY DEF Declare
  <1>3. m.type \in Kinds /\ m.num = 1
    BY DeclAssumption DEF DeclCall
  <1>4. r \in Req /\ ROwner[r] = HOwner[h] /\ req[r].st = "free"
    BY <1>2 DEF FreeReqs
  <1> HIDE DEF m
  <1>5. /\ mh'[h] = m /\ request'[h] = r
        /\ req'[r] = PersistentRequest(HOwner[h], m)
        /\ \A k \in Handle \ {h} : mh'[k] = mh[k] /\ request'[k] = request[k]
        /\ \A q \in Req \ {r} : req'[q] = req[q]
    BY <1>1, <1>2, <1>4 DEF HandleInv, TypeInv, TypeOK
  <1>6. ~Single(h) /\ ~Multiple(h) /\ Single(h)' /\ ~Multiple(h)'
    BY <1>2, <1>3, <1>5 DEF Single, Multiple, Kinds
  <1>7. OwnInv'
    <2> DEFINE C == {h}
               G == {}
    <2>1. C \in SUBSET Handle /\ G \in SUBSET Handle /\ \A k \in G : Single(k)
      OBVIOUS
    <2>2. \A k \in Handle : Single(k)' <=> k \in C \/ (Single(k) /\ k \notin G)
      BY <1>5, <1>6 DEF Single
    <2>3. \A k \in Handle \ C : Single(k) /\ k \notin G =>
            mh'[k] = mh[k] /\ request'[k] = request[k]
      BY <1>5
    <2>4. \A k \in C :
            /\ request'[k] \in Req
            /\ ROwner[request'[k]] = HOwner[k]
            /\ req'[request'[k]] = PersistentRequest(HOwner[k], mh'[k])
            /\ \/ req[request'[k]].st = "free"
               \/ \E g \in G : request[g] = request'[k]
      BY <1>4, <1>5
    <2>5. /\ \A j, k \in C : request'[j] = request'[k] => j = k
          /\ \A k \in C : ~Single(k) \/ k \in G
      BY <1>6
    <2>6. \A q \in Req : (\A k \in C : request'[k] # q) =>
            req'[q] = IF \E g \in G : request[g] = q THEN NoRequest ELSE req[q]
      BY <1>5
    <2> HIDE DEF C, G
    <2>7. Renewal(C, G)
      BY <2>1, <2>2, <2>3, <2>4, <2>5, <2>6 DEF Renewal
    <2> QED
      BY <2>1, <2>7, RenewOwnInv DEF HandleInv
  <1>8. ChainInv'
    <2>1. \A p \in Handle : h \notin chain[p]
      BY <1>6 DEF HandleInv, ChainInv, MembersIdle
    <2>2. ListsFilled' /\ ListsCounted'
      BY <1>2, <1>5, <1>6 DEF HandleInv, ChainInv, ListsFilled, ListsCounted, Multiple
    <2>3. MembersIdle'
      <3> SUFFICES ASSUME NEW p \in Handle, NEW k \in chain[p]
                   PROVE  (Single(k) /\ HOwner[k] = HOwner[p] /\ mh[k].num = 0
                            /\ mh[k].activeP = 0)'
        BY <1>2 DEF MembersIdle
      <3>1. k \in Handle \ {h}
        BY <2>1 DEF HandleInv, TypeInv, TypeOK
      <3>2. Single(k) /\ HOwner[k] = HOwner[p] /\ mh[k].num = 0 /\ mh[k].activeP = 0
        BY DEF HandleInv, ChainInv, MembersIdle
      <3>3. mh'[k] = mh[k]
        BY <1>5, <3>1
      <3> QED
        BY <3>2, <3>3 DEF Single
    <2>4. MarkedListed'
      BY <1>2, <1>3, <1>5 DEF HandleInv, ChainInv, MarkedListed, Single
    <2> QED
      BY <2>2, <2>3, <2>4 DEF ChainInv
  <1> QED
    BY <1>7, <1>8 DEF HandleInv

LEMMA FreeHandleInv ==
  ASSUME HandleInv, TypeInv', NEW h \in Handle, Free(h)
  PROVE  HandleInv'
  <1>1. /\ Live(h) /\ mh[h].num # 0
        /\ mh' = [k \in Handle |-> IF k \in Released(h) THEN NoHandle ELSE mh[k]]
        /\ chain' = [chain EXCEPT ![h] = {}]
        /\ request' = [k \in Handle |-> IF k \in Released(h) THEN None ELSE request[k]]
        /\ req' = [r \in Req |-> IF \E k \in Leaves(h) : request[k] = r
                                 THEN NoRequest ELSE req[r]]
    BY DEF Free
  <1>2. /\ Leaves(h) \subseteq Released(h) /\ Released(h) \subseteq Handle
        /\ \A k \in Leaves(h) : Single(k)
        /\ \A k \in Released(h) : Single(k) => k \in Leaves(h)
        /\ \A k \in chain[h] : chain[k] = {}
    <2>1. \A k \in chain[h] : k \in Handle /\ Single(k) /\ ~Multiple(k) /\ chain[k] = {}
      <3> SUFFICES ASSUME NEW k \in chain[h]
                   PROVE  k \in Handle /\ Single(k) /\ ~Multiple(k) /\ chain[k] = {}
        OBVIOUS
      <3>1. k \in Handle /\ Single(k)
        BY DEF HandleInv, TypeInv, TypeOK, Chained
      <3>2. ~Multiple(k)
        BY <3>1 DEF Single, Multiple, Kinds
      <3> QED
        BY <3>1, <3>2 DEF HandleInv, ChainInv, ListsFilled
    <2>2. CASE Multiple(h)
      BY <2>1, <2>2 DEF Leaves, Released, Single, Multiple, Kinds
    <2>3. CASE ~Multiple(h)
      <3>1. chain[h] = {}
        BY <2>3 DEF HandleInv, ChainInv, ListsFilled
      <3> QED
        BY <1>1, <2>3, <3>1 DEF Leaves, Released, Live
    <2> QED
      BY <2>2, <2>3
  <1>3. \A k \in Released(h) : ~Single(k)' /\ ~Multiple(k)'
    BY <1>1, <1>2 DEF Single, Multiple, NoHandle, Kinds
  <1>4. \A k \in Handle \ Released(h) :
          /\ mh'[k] = mh[k] /\ request'[k] = request[k]
          /\ Single(k)' <=> Single(k)
          /\ Multiple(k)' <=> Multiple(k)
    BY <1>1 DEF Single, Multiple
  <1>5. OwnInv'
    <2> DEFINE C == {}
               G == Leaves(h)
    <2>1. C \in SUBSET Handle /\ G \in SUBSET Handle /\ \A k \in G : Single(k)
      BY <1>2
    <2>2. \A k \in Handle : Single(k)' <=> k \in C \/ (Single(k) /\ k \notin G)
      BY <1>2, <1>3, <1>4
    <2>3. \A k \in Handle \ C : Single(k) /\ k \notin G =>
            mh'[k] = mh[k] /\ request'[k] = request[k]
      BY <1>2, <1>4
    <2>4. \A q \in Req : (\A k \in C : request'[k] # q) =>
            req'[q] = IF \E g \in G : request[g] = q THEN NoRequest ELSE req[q]
      BY <1>1
    <2>5. /\ \A k \in C :
               /\ request'[k] \in Req
               /\ ROwner[request'[k]] = HOwner[k]
               /\ req'[request'[k]] = PersistentRequest(HOwner[k], mh'[k])
               /\ \/ req[request'[k]].st = "free"
                  \/ \E g \in G : request[g] = request'[k]
          /\ \A j, k \in C : request'[j] = request'[k] => j = k
          /\ \A k \in C : ~Single(k) \/ k \in G
      OBVIOUS
    <2> HIDE DEF C, G
    <2>6. Renewal(C, G)
      BY <2>1, <2>2, <2>3, <2>4, <2>5 DEF Renewal
    <2> QED
      BY <2>1, <2>6, RenewOwnInv DEF HandleInv
  <1>6. ChainInv'
    <2>1. \A p \in Handle : p # h => chain'[p] = chain[p] /\ chain[p] \cap Released(h) = {}
      BY <1>1, <1>2 DEF HandleInv, TypeInv, TypeOK, Chained, Released
    <2>2. chain'[h] = {} /\ h \in Released(h)
      BY <1>1 DEF HandleInv, TypeInv, TypeOK, Released
    <2>3. \A p \in Released(h) : chain'[p] = {}
      BY <1>2, <2>1, <2>2 DEF Released
    <2>4. ListsFilled' /\ ListsCounted'
      BY <1>3, <1>4, <2>1, <2>2, <2>3
         DEF HandleInv, ChainInv, ListsFilled, ListsCounted
    <2>5. MembersIdle'
      <3> SUFFICES ASSUME NEW p \in Handle, NEW k \in chain'[p]
                   PROVE  (Single(k) /\ HOwner[k] = HOwner[p] /\ mh[k].num = 0
                            /\ mh[k].activeP = 0)'
        BY DEF MembersIdle
      <3>1. p # h /\ k \in chain[p] /\ k \in Handle \ Released(h)
        BY <2>1, <2>2 DEF HandleInv, TypeInv, TypeOK
      <3> QED
        BY <1>4, <3>1 DEF HandleInv, ChainInv, MembersIdle
    <2>6. MarkedListed'
      <3> SUFFICES ASSUME NEW k \in Handle, Single(k)', mh'[k].num = 0
                   PROVE  \E p \in Handle : k \in chain'[p]
        BY DEF MarkedListed
      <3>1. k \notin Released(h) /\ Single(k) /\ mh[k].num = 0
        BY <1>3, <1>4
      <3>2. PICK p \in Handle : k \in chain[p]
        BY <3>1 DEF HandleInv, ChainInv, MarkedListed
      <3>3. p # h
        BY <3>1, <3>2 DEF Released
      <3> QED
        BY <2>1, <3>2, <3>3
    <2> QED
      BY <2>4, <2>5, <2>6 DEF ChainInv
  <1> QED
    BY <1>5, <1>6 DEF HandleInv
LEMMA DeclareMultipleHandleInv ==
  ASSUME HandleInv, TypeInv', NEW h \in Handle, NEW S \in SUBSET Handle,
         DeclareMultiple(h, S)
  PROVE  HandleInv'
  <1> DEFINE K     == Splice(S)
             inner == {s \in S : Multiple(s)}
             top   == NewMultiple(K)
  <1>1. /\ mh[h].type = "free" /\ S # {}
        /\ \A s \in S : Live(s) /\ HOwner[s] = HOwner[h] /\ mh[s].activeP = 0
        /\ \A s \in S : Multiple(s) \/ mh[s].num = 1
        /\ mh' = [k \in Handle |-> CASE k = h -> top
                                     [] k \in K -> Mark(mh[k])
                                     [] k \in inner -> NoHandle
                                     [] OTHER -> mh[k]]
        /\ chain' = [k \in Handle |-> IF k = h THEN K
                                      ELSE IF k \in inner THEN {} ELSE chain[k]]
        /\ UNCHANGED <<request, req>>
    BY DEF DeclareMultiple, mpiVars
  <1>2. /\ K \subseteq Handle
        /\ h \notin K /\ h \notin S
        /\ chain[h] = {}
        /\ \A p \in Handle : h \notin chain[p]
        /\ \A k \in K : Single(k) /\ ~Multiple(k)
        /\ \A k \in K, p \in Handle \ S : k \notin chain[p]
    BY <1>1, SpliceMembers DEF HandleInv
  <1>3. \A k \in K : \E s \in S : \/ Multiple(s) /\ k \in chain[s]
                                  \/ ~Multiple(s) /\ k = s
    BY DEF Splice, Leaves
  <1>4. \A s \in S : IF Multiple(s) THEN chain[s] # {} /\ chain[s] \subseteq K
                     ELSE s \in K
    BY DEF Splice, Leaves, HandleInv, ChainInv, ListsFilled
  <1>5. K # {}
    BY <1>1, <1>4
  <1>6. \A k \in K : HOwner[k] = HOwner[h] /\ mh[k].activeP = 0
    BY <1>1, <1>3 DEF HandleInv, ChainInv, MembersIdle
  <1> HIDE DEF K
  <1>7. top.type = "multiple" /\ top.num = Cardinality(K)
    BY DEF NewMultiple
  <1>8. \A k \in Handle :
          /\ Mark(mh[k]).num = 0 /\ Mark(mh[k]).type = mh[k].type
          /\ Mark(mh[k]).activeP = mh[k].activeP
          /\ Mark(mh[k]).peer = mh[k].peer /\ Mark(mh[k]).axis = mh[k].axis
          /\ Mark(mh[k]).dir = mh[k].dir /\ Mark(mh[k]).base = mh[k].base
    BY MarkType DEF HandleInv, TypeInv, TypeOK
  <1> HIDE DEF top
  <1>9. /\ mh'[h] = top
        /\ \A k \in K : mh'[k] = Mark(mh[k])
        /\ \A k \in inner : mh'[k] = NoHandle
        /\ \A k \in Handle \ (K \cup inner \cup {h}) : mh'[k] = mh[k]
    <2>1. \A k \in K : k # h
      BY <1>2
    <2>2. \A k \in inner : k # h /\ k \notin K /\ k \in Handle
      BY <1>2
    <2> QED
      BY <1>1, <1>2, <2>1, <2>2
  <1>10. \A k \in inner : ~Single(k) /\ ~Single(k)' /\ ~Multiple(k)'
    BY <1>9 DEF Single, Multiple, NoHandle, Kinds
  <1>11. ~Single(h) /\ ~Multiple(h) /\ ~Single(h)' /\ Multiple(h)'
    BY <1>1, <1>7, <1>9 DEF Single, Multiple, Kinds
  <1>12. \A k \in K : Single(k)' /\ ~Multiple(k)' /\ mh'[k].num = 0
    BY <1>2, <1>8, <1>9 DEF Single, Multiple
  <1>13. \A k \in Handle : k \notin inner /\ k # h =>
           /\ Single(k)' <=> Single(k)
           /\ Multiple(k)' <=> Multiple(k)
           /\ mh'[k].type = mh[k].type
           /\ mh'[k].peer = mh[k].peer /\ mh'[k].axis = mh[k].axis
           /\ mh'[k].dir = mh[k].dir /\ mh'[k].base = mh[k].base
           /\ mh'[k].activeP = mh[k].activeP
           /\ Multiple(k) => mh'[k].num = mh[k].num
    BY <1>2, <1>8, <1>9 DEF Single, Multiple
  <1>14. /\ chain'[h] = K
         /\ \A p \in inner : chain'[p] = {}
         /\ \A p \in Handle : p # h /\ p \notin inner => chain'[p] = chain[p]
    BY <1>1, <1>2
  <1>15. OwnInv'
    BY <1>1, <1>10, <1>11, <1>13, KeepOwnInv DEF HandleInv
  <1> HIDE DEF inner
  <1>16. ListsFilled'
    <2> SUFFICES ASSUME NEW p \in Handle PROVE chain'[p] # {} <=> Multiple(p)'
      BY DEF ListsFilled
    <2>1. CASE p = h
      BY <1>5, <1>11, <1>14, <2>1
    <2>2. CASE p \in inner
      BY <1>10, <1>14, <2>2
    <2>3. CASE p # h /\ p \notin inner
      BY <1>13, <1>14, <2>3 DEF HandleInv, ChainInv, ListsFilled
    <2> QED
      BY <2>1, <2>2, <2>3
  <1>17. ListsCounted'
    <2> SUFFICES ASSUME NEW p \in Handle, Multiple(p)'
                 PROVE  mh'[p].num = Cardinality(chain'[p])
      BY DEF ListsCounted
    <2>1. CASE p = h
      BY <1>7, <1>9, <1>14, <2>1
    <2>2. CASE p # h
      BY <1>10, <1>13, <1>14, <2>2 DEF HandleInv, ChainInv, ListsCounted
    <2> QED
      BY <2>1, <2>2
  <1>18. MembersIdle'
    <2> SUFFICES ASSUME NEW p \in Handle, NEW k \in chain'[p]
                 PROVE  (Single(k) /\ HOwner[k] = HOwner[p] /\ mh[k].num = 0
                          /\ mh[k].activeP = 0)'
      BY DEF MembersIdle
    <2>1. CASE p = h
      <3>1. k \in K
        BY <1>14, <2>1
      <3> QED
        BY <1>2, <1>6, <1>8, <1>9, <1>12, <2>1, <3>1
    <2>2. CASE p # h
      <3>1. p \notin inner /\ k \in chain[p] /\ k \in Handle
        BY <1>14, <2>2 DEF HandleInv, TypeInv, TypeOK
      <3>2. Single(k) /\ HOwner[k] = HOwner[p] /\ mh[k].num = 0 /\ mh[k].activeP = 0
        BY <3>1 DEF HandleInv, ChainInv, MembersIdle
      <3>3. k \notin inner /\ k # h
        BY <1>2, <1>10, <3>1, <3>2
      <3>4. p \notin S
        BY <3>1 DEF inner, HandleInv, TypeInv, Chained
      <3>5. k \notin K
        BY <1>2, <3>1, <3>4
      <3>6. mh'[k] = mh[k]
        BY <1>9, <3>1, <3>3, <3>5
      <3> QED
        BY <1>13, <3>1, <3>2, <3>3, <3>6
    <2> QED
      BY <2>1, <2>2
  <1>19. MarkedListed'
    <2> SUFFICES ASSUME NEW k \in Handle, Single(k)', mh'[k].num = 0
                 PROVE  \E p \in Handle : k \in chain'[p]
      BY DEF MarkedListed
    <2>1. CASE k \in K
      BY <1>14, <2>1
    <2>2. CASE k \notin K
      <3>1. k \notin inner /\ k # h
        BY <1>10, <1>11
      <3>2. Single(k) /\ mh[k].num = 0
        BY <1>9, <1>13, <2>2, <3>1
      <3>3. PICK p \in Handle : k \in chain[p]
        BY <3>2 DEF HandleInv, ChainInv, MarkedListed
      <3>4. p # h
        BY <1>2, <3>3
      <3>5. p \notin inner
        BY <1>4, <2>2, <3>3 DEF inner
      <3> QED
        BY <1>14, <3>3, <3>4, <3>5
    <2> QED
      BY <2>1, <2>2
  <1> QED
    BY <1>15, <1>16, <1>17, <1>18, <1>19 DEF HandleInv, ChainInv

LEMMA ChangeAddressHandleInv ==
  ASSUME HandleInv, TypeInv', NEW h \in Handle, NEW b \in Buf, ChangeAddress(h, b)
  PROVE  HandleInv'
  <1> DEFINE n == HOwner[h]
             m == [mh[h] EXCEPT !.base = b]
  <1>1. Single(h) /\ mh[h].num # 0 /\ mh[h].activeP = 0 /\ chain' = chain
    BY DEF ChangeAddress
  <1>2. PICK r \in FreeReqs(n) \cup {request[h]} :
          /\ mh' = [mh EXCEPT ![h] = m]
          /\ request' = [request EXCEPT ![h] = r]
          /\ req' = [[req EXCEPT ![request[h]] = NoRequest]
                       EXCEPT ![r] = PersistentRequest(n, m)]
    BY DEF ChangeAddress
  <1>3. /\ m \in HandleRec /\ m.type = mh[h].type /\ m.num = mh[h].num
        /\ m.activeP = mh[h].activeP
    <2>1. mh[h] \in HandleRec
      BY DEF HandleInv, TypeInv, TypeOK
    <2> QED
      BY <2>1, RebaseType
  <1>4. /\ request[h] \in Req /\ ROwner[request[h]] = n
        /\ r \in Req /\ ROwner[r] = n
        /\ req[r].st = "free" \/ r = request[h]
    BY <1>1 DEF HandleInv, OwnInv, Owned, FreeReqs
  <1> HIDE DEF m
  <1>5. /\ mh'[h] = m /\ request'[h] = r
        /\ req'[r] = PersistentRequest(n, m)
        /\ \A k \in Handle \ {h} : mh'[k] = mh[k] /\ request'[k] = request[k]
        /\ \A q \in Req \ {r} :
             req'[q] = IF q = request[h] THEN NoRequest ELSE req[q]
    BY <1>2, <1>4 DEF HandleInv, TypeInv, TypeOK
  <1>6. OwnInv'
    <2> DEFINE C == {h}
               G == {h}
    <2>1. C \in SUBSET Handle /\ G \in SUBSET Handle /\ \A k \in G : Single(k)
      BY <1>1
    <2>2. \A k \in Handle : Single(k)' <=> k \in C \/ (Single(k) /\ k \notin G)
      BY <1>1, <1>3, <1>5 DEF Single
    <2>3. \A k \in Handle \ C : Single(k) /\ k \notin G =>
            mh'[k] = mh[k] /\ request'[k] = request[k]
      BY <1>5
    <2>4. \A k \in C :
            /\ request'[k] \in Req
            /\ ROwner[request'[k]] = HOwner[k]
            /\ req'[request'[k]] = PersistentRequest(HOwner[k], mh'[k])
            /\ \/ req[request'[k]].st = "free"
               \/ \E g \in G : request[g] = request'[k]
      BY <1>4, <1>5
    <2>5. /\ \A j, k \in C : request'[j] = request'[k] => j = k
          /\ \A k \in C : ~Single(k) \/ k \in G
      OBVIOUS
    <2>6. \A q \in Req : (\A k \in C : request'[k] # q) =>
            req'[q] = IF \E g \in G : request[g] = q THEN NoRequest ELSE req[q]
      BY <1>5
    <2> HIDE DEF C, G
    <2>7. Renewal(C, G)
      BY <2>1, <2>2, <2>3, <2>4, <2>5, <2>6 DEF Renewal
    <2> QED
      BY <2>1, <2>7, RenewOwnInv DEF HandleInv
  <1>7. ChainInv'
    <2>1. \A k \in Handle :
            /\ mh'[k].type = mh[k].type /\ mh'[k].num = mh[k].num
            /\ mh[k].num = 0 => mh'[k].activeP \in {mh[k].activeP, 0}
      BY <1>3, <1>5
    <2> QED
      BY <1>1, <2>1, KeepChainInv DEF HandleInv
  <1> QED
    BY <1>6, <1>7 DEF HandleInv

LEMMA ChangeAddressMultipleHandleInv ==
  ASSUME HandleInv, TypeInv', NEW h \in Handle, NEW addr \in [chain[h] -> Buf],
         ChangeAddressMultiple(h, addr)
  PROVE  HandleInv'
  <1> DEFINE n    == HOwner[h]
             m(k) == [mh[k] EXCEPT !.base = addr[k]]
             old  == {request[k] : k \in chain[h]}
  <1>1. Multiple(h) /\ chain' = chain
    BY DEF ChangeAddressMultiple
  <1>2. PICK new \in [chain[h] -> FreeReqs(n) \cup old] :
          /\ \A j, k \in chain[h] : j # k => new[j] # new[k]
          /\ mh' = [k \in Handle |-> IF k \in chain[h] THEN m(k) ELSE mh[k]]
          /\ request' = [k \in Handle |->
                           IF k \in chain[h] THEN new[k] ELSE request[k]]
          /\ req' = [r \in Req |->
                       IF \E k \in chain[h] : new[k] = r
                       THEN PersistentRequest(n,
                              m(CHOOSE k \in chain[h] : new[k] = r))
                       ELSE IF r \in old THEN NoRequest ELSE req[r]]
    BY DEF ChangeAddressMultiple
  <1>3. \A k \in chain[h] : k \in Handle /\ Single(k) /\ HOwner[k] = n
    BY DEF HandleInv, TypeInv, TypeOK, ChainInv, MembersIdle
  <1>4. \A k \in chain[h] :
          /\ m(k).type = mh[k].type /\ m(k).num = mh[k].num
          /\ m(k).activeP = mh[k].activeP
    <2> SUFFICES ASSUME NEW k \in chain[h]
                 PROVE  /\ m(k).type = mh[k].type /\ m(k).num = mh[k].num
                        /\ m(k).activeP = mh[k].activeP
      OBVIOUS
    <2>1. mh[k] \in HandleRec /\ addr[k] \in Buf
      BY <1>3 DEF HandleInv, TypeInv, TypeOK
    <2> QED
      BY <2>1, RebaseType
  <1>5. \A k \in chain[h] :
          /\ new[k] \in Req /\ ROwner[new[k]] = n
          /\ req[new[k]].st = "free" \/ \E g \in chain[h] : request[g] = new[k]
    <2>1. \A r \in old : r \in Req /\ ROwner[r] = n
                         /\ \E g \in chain[h] : request[g] = r
      BY <1>3 DEF HandleInv, OwnInv, Owned
    <2>2. \A r \in FreeReqs(n) : r \in Req /\ ROwner[r] = n /\ req[r].st = "free"
      BY DEF FreeReqs
    <2> HIDE DEF old, n
    <2> QED
      BY <2>1, <2>2
  <1> HIDE DEF m, n
  <1>6. \A k \in chain[h] : req'[new[k]] = PersistentRequest(n, m(k))
    <2> SUFFICES ASSUME NEW k \in chain[h]
                 PROVE  req'[new[k]] = PersistentRequest(n, m(k))
      OBVIOUS
    <2> DEFINE c == CHOOSE j \in chain[h] : new[j] = new[k]
    <2>1. c \in chain[h] /\ new[c] = new[k]
      OBVIOUS
    <2>2. c = k
      BY <1>2, <2>1
    <2>3. req'[new[k]] = PersistentRequest(n, m(c))
      BY <1>2, <1>5
    <2> HIDE DEF c
    <2> QED
      BY <2>2, <2>3
  <1>7. /\ \A k \in chain[h] : mh'[k] = m(k) /\ request'[k] = new[k]
        /\ \A k \in Handle \ chain[h] : mh'[k] = mh[k] /\ request'[k] = request[k]
        /\ \A r \in Req : (\A k \in chain[h] : new[k] # r) =>
             req'[r] = IF \E g \in chain[h] : request[g] = r THEN NoRequest
                       ELSE req[r]
    BY <1>2, <1>3
  <1>8. OwnInv'
    <2> DEFINE C == chain[h]
    <2>1. C \in SUBSET Handle /\ \A k \in C : Single(k)
      BY <1>3
    <2>2. \A k \in Handle : Single(k)' <=> k \in C \/ (Single(k) /\ k \notin C)
      BY <1>3, <1>4, <1>7 DEF Single
    <2>3. \A k \in Handle \ C : Single(k) /\ k \notin C =>
            mh'[k] = mh[k] /\ request'[k] = request[k]
      BY <1>7
    <2>4. \A k \in C :
            /\ request'[k] \in Req
            /\ ROwner[request'[k]] = HOwner[k]
            /\ req'[request'[k]] = PersistentRequest(HOwner[k], mh'[k])
            /\ \/ req[request'[k]].st = "free"
               \/ \E g \in C : request[g] = request'[k]
      BY <1>3, <1>5, <1>6, <1>7
    <2>5. /\ \A j, k \in C : request'[j] = request'[k] => j = k
          /\ \A k \in C : ~Single(k) \/ k \in C
      <3>1. ASSUME NEW j \in chain[h], NEW k \in chain[h],
                   request'[j] = request'[k]
            PROVE  j = k
        <4>1. new[j] = new[k]
          BY <1>7, <3>1
        <4> QED
          BY <1>2, <4>1
      <3> QED
        BY <3>1
    <2>6. \A q \in Req : (\A k \in C : request'[k] # q) =>
            req'[q] = IF \E g \in C : request[g] = q THEN NoRequest ELSE req[q]
      BY <1>7
    <2> HIDE DEF C
    <2>7. Renewal(C, C)
      BY <2>1, <2>2, <2>3, <2>4, <2>5, <2>6 DEF Renewal
    <2> QED
      BY <2>1, <2>7, RenewOwnInv DEF HandleInv
  <1>9. ChainInv'
    <2>1. \A k \in Handle :
            /\ mh'[k].type = mh[k].type /\ mh'[k].num = mh[k].num
            /\ mh[k].num = 0 => mh'[k].activeP \in {mh[k].activeP, 0}
      BY <1>4, <1>7
    <2> QED
      BY <1>1, <2>1, KeepChainInv DEF HandleInv
  <1> QED
    BY <1>8, <1>9 DEF HandleInv

LEMMA StartHandleInv ==
  ASSUME HandleInv, TypeInv', NEW h \in Handle, Start(h)
  PROVE  HandleInv'
  <1>1. /\ mh' = [mh EXCEPT ![h].activeP = 1] /\ mh[h].num # 0
        /\ UNCHANGED <<chain, request>>
        /\ Live(h)
    BY DEF Start
  <1>2. \A r \in Req :
          /\ req'[r].st = "free" <=> req[r].st = "free"
          /\ req'[r].kind = req[r].kind /\ req'[r].chan = req[r].chan
          /\ req'[r].link = req[r].link /\ req'[r].base = req[r].base
    <2>1. CASE (\A r \in Reqs(h) : r # None /\ req[r].st = "inactive") /\ Post(Reqs(h))
      <3>1. Reqs(h) \in SUBSET Req
        BY <1>1, <2>1, ReqsInRange DEF HandleInv
      <3>2. PostEffect(Reqs(h))
        BY <2>1, <3>1, PostHasEffect DEF HandleInv
      <3> QED
        BY <2>1, <3>1, <3>2 DEF PostEffect
    <2>2. CASE req' = req
      BY <2>2
    <2> QED
      BY <2>1, <2>2 DEF Start
  <1> QED
    BY <1>1, <1>2, ActivateHandleInv

LEMMA CompleteHandleInv ==
  ASSUME HandleInv, TypeInv', NEW h \in Handle, Complete(h)
  PROVE  HandleInv'
  <1>1. /\ mh' = [mh EXCEPT ![h].activeP = 0]
        /\ UNCHANGED <<chain, request>>
    BY DEF Complete
  <1>2. CompleteEffect(h)
    BY CompleteHasEffect DEF HandleInv
  <1>3. \A r \in Req :
          /\ req'[r].st = "free" <=> req[r].st = "free"
          /\ req'[r].kind = req[r].kind /\ req'[r].chan = req[r].chan
          /\ req'[r].link = req[r].link /\ req'[r].base = req[r].base
    BY <1>2 DEF CompleteEffect
  <1> QED
    BY <1>1, <1>3, ActivateHandleInv

\* Steps that change no handle, and of the requests their progress only.
LEMMA ProgressHandleInv ==
  ASSUME HandleInv, TypeInv', UNCHANGED handleVars,
         NEW R \in SUBSET Req, \A r \in R : req[r].st = "active",
         req' = [r \in Req |-> IF r \in R THEN Finished(r) ELSE req[r]]
  PROVE  HandleInv'
  <1>1. \A r \in Req :
          /\ req'[r].st = "free" <=> req[r].st = "free"
          /\ req'[r].kind = req[r].kind /\ req'[r].chan = req[r].chan
          /\ req'[r].link = req[r].link /\ req'[r].base = req[r].base
    <2> SUFFICES ASSUME NEW r \in Req
                 PROVE  /\ req'[r].st = "free" <=> req[r].st = "free"
                        /\ req'[r].kind = req[r].kind /\ req'[r].chan = req[r].chan
                        /\ req'[r].link = req[r].link /\ req'[r].base = req[r].base
      OBVIOUS
    <2>1. CASE r \in R
      <3>1. req'[r] = Finished(r) /\ req[r].st = "active" /\ req[r] \in ReqRec
        BY <2>1 DEF HandleInv, TypeInv, TypeOK
      <3> QED
        BY <3>1, FinishedType
    <2>2. CASE r \notin R
      BY <2>2
    <2> QED
      BY <2>1, <2>2
  <1>2. \A h \in Handle : (Single(h)' <=> Single(h)) /\ mh'[h] = mh[h]
                          /\ request'[h] = request[h]
    BY DEF handleVars, Single
  <1>3. OwnInv'
    BY <1>1, <1>2, KeepOwnInv DEF HandleInv
  <1>4. ChainInv'
    <2>1. chain' = chain /\ \A h \in Handle : mh'[h].activeP \in {mh[h].activeP, 0}
      BY <1>2 DEF handleVars
    <2> QED
      BY <1>2, <2>1, KeepChainInv DEF HandleInv
  <1> QED
    BY <1>3, <1>4 DEF HandleInv

LEMMA StutterHandleInv ==
  ASSUME HandleInv, TypeInv', UNCHANGED <<handleVars, req>>
  PROVE  HandleInv'
  <1> DEFINE R == {}
  <1>1. /\ R \in SUBSET Req /\ \A r \in R : req[r].st = "active"
        /\ req' = [r \in Req |-> IF r \in R THEN Finished(r) ELSE req[r]]
    BY DEF HandleInv, TypeInv, TypeOK
  <1> HIDE DEF R
  <1> QED
    BY <1>1, ProgressHandleInv

LEMMA MpiHandleInv ==
  ASSUME HandleInv, TypeInv', Progress
  PROVE  HandleInv'
  <1>1. ASSUME NEW r \in Req, Buffer(r) PROVE HandleInv'
    <2> DEFINE R == {r}
    <2>1. /\ R \in SUBSET Req /\ \A q \in R : req[q].st = "active"
          /\ req' = [q \in Req |-> IF q \in R THEN Finished(q) ELSE req[q]]
          /\ UNCHANGED handleVars
      BY <1>1 DEF Buffer, HandleInv, TypeInv, TypeOK
    <2> HIDE DEF R
    <2> QED
      BY <2>1, ProgressHandleInv
  <1>2. ASSUME NEW m \in wire, NEW q \in Req, Deliver(m, q) PROVE HandleInv'
    <2> DEFINE R == {q}
    <2>1. /\ R \in SUBSET Req /\ \A r \in R : req[r].st = "active"
          /\ req' = [r \in Req |-> IF r \in R THEN Finished(r) ELSE req[r]]
          /\ UNCHANGED handleVars
      BY <1>2 DEF Deliver, HandleInv, TypeInv, TypeOK
    <2> HIDE DEF R
    <2> QED
      BY <2>1, ProgressHandleInv
  <1>3. ASSUME NEW r \in Req, NEW q \in Req, Transfer(r, q) PROVE HandleInv'
    <2> DEFINE R == {r, q}
    <2>1. /\ R \in SUBSET Req /\ \A p \in R : req[p].st = "active"
          /\ req' = [p \in Req |-> IF p \in R THEN Finished(p) ELSE req[p]]
          /\ UNCHANGED handleVars
      BY <1>3 DEF Transfer, HandleInv, TypeInv, TypeOK
    <2> HIDE DEF R
    <2> QED
      BY <2>1, ProgressHandleInv
  <1> QED
    BY <1>1, <1>2, <1>3 DEF Progress

LEMMA NextHandleInv == HandleInv /\ [Next]_vars => HandleInv'
  <1> SUFFICES ASSUME HandleInv, [Next]_vars PROVE HandleInv'
    OBVIOUS
  <1>0. TypeInv'
    BY NextTypeInv DEF HandleInv
  <1>1. ASSUME NEW h \in Handle, NEW d \in Decls, Declare(h, d) PROVE HandleInv'
    BY <1>0, <1>1, DeclareHandleInv
  <1>2. ASSUME NEW h \in Handle, NEW S \in SUBSET {k \in Handle : Live(k)},
               DeclareMultiple(h, S)
        PROVE  HandleInv'
    BY <1>0, <1>2, DeclareMultipleHandleInv
  <1>3. ASSUME NEW h \in Handle, Free(h) PROVE HandleInv'
    BY <1>0, <1>3, FreeHandleInv
  <1>4. ASSUME NEW h \in Handle, NEW b \in Buf, ChangeAddress(h, b) PROVE HandleInv'
    BY <1>0, <1>4, ChangeAddressHandleInv
  <1>5. ASSUME NEW h \in Handle, NEW addr \in [chain[h] -> Buf],
               ChangeAddressMultiple(h, addr)
        PROVE  HandleInv'
    BY <1>0, <1>5, ChangeAddressMultipleHandleInv
  <1>6. ASSUME NEW h \in Handle, Start(h) PROVE HandleInv'
    BY <1>0, <1>6, StartHandleInv
  <1>7. ASSUME NEW h \in Handle, IsComplete(h) PROVE HandleInv'
    BY <1>0, <1>7, CompleteHandleInv DEF IsComplete
  <1>8. ASSUME NEW n \in Node, EndWait(n) PROVE HandleInv'
    <2>1. waiting[n] \in Handle /\ Complete(waiting[n])
      BY <1>8 DEF EndWait, HandleInv, TypeInv, TypeOK
    <2> QED
      BY <1>0, <2>1, CompleteHandleInv
  <1>9. ASSUME NEW h \in Handle,
               \/ BeginWait(h) \/ Misuse(h) \/ \E k \in Handle : WaitMember(h, k)
        PROVE  HandleInv'
    BY <1>0, <1>9, StutterHandleInv DEF BeginWait, Misuse, WaitMember, mpiVars
  <1>10. ASSUME NEW n \in Node, NEW b \in Buf, NEW v \in Data, Write(n, b, v)
         PROVE  HandleInv'
    BY <1>0, <1>10, StutterHandleInv DEF Write, mpiVars
  <1>11. CASE Progress
    BY <1>0, <1>11, MpiHandleInv
  <1>12. CASE UNCHANGED vars
    BY <1>0, <1>12, StutterHandleInv DEF vars, mpiVars
  <1> QED
    BY <1>1, <1>2, <1>3, <1>4, <1>5, <1>6, <1>7, <1>8, <1>9, <1>10, <1>11, <1>12
       DEF Next

-----------------------------------------------------------------------------
(* The theorems *)

LEMMA HandleInvHolds == Spec => []HandleInv
  BY InitHandleInv, NextHandleInv, PTL DEF Spec

\* Whatever the program calls, each individual handle has a request of its own
\* that was initialised with its current peer, tag and address, and no request
\* is left behind: declare, change_address and free keep the two in step.
THEOREM OwnershipHolds == Spec => []RequestOwnership
  <1>1. HandleInv => RequestOwnership
    BY OwnInvSuffices DEF HandleInv
  <1> QED
    BY <1>1, HandleInvHolds, PTL

\* Whatever the program calls, the "next" lists made by QMP_declare_multiple
\* stay disjoint lists of idle marked handles, counted by num.
THEOREM ChainsHold == Spec => []ChainsWellFormed
  <1>1. HandleInv => ChainsWellFormed
    BY ChainInvSuffices DEF HandleInv
  <1> QED
    BY <1>1, HandleInvHolds, PTL
=============================================================================
