------------------------- MODULE QMPMsgHandle_calls -------------------------
(***************************************************************************)
(* What depends on the calls a program makes: without                       *)
(* QMP_change_address_multiple the copies of the requests that multiples    *)
(* keep are those of their members and no MPI call is erroneous; without    *)
(* QMP_wait on a member as well no buffer is given back too early.          *)
(*                                                                         *)
(* Then what becomes of the messages between QMP_start and QMP_wait: that   *)
(* the n-th send of a channel meets its n-th receive, with the data it was  *)
(* started with, and that the tags tell the directions of the logical grid  *)
(* apart.                                                                  *)
(***************************************************************************)
EXTENDS QMPMsgHandle_proofs

NoReaddress == "change_address_multiple" \notin Calls
NoMemberWait == "wait_member" \notin Calls

Active(h)     == Live(h) /\ mh[h].activeP = 1
Carries(h, r) == \E k \in Leaves(h) : request[k] = r

\* A request that MPI works on is one of an active handle.
UseIsActive == \A r \in Req : InUse(r) => \E h \in Handle : Active(h) /\ Carries(h, r)

\* The buffers of the active handles are lent to QMP, each to one of them, and a
\* node waits for an active handle of its own.
ActiveLent == \A h \in Handle : Active(h) => Bases(h) \subseteq lent[HOwner[h]]
ActiveApart ==
  \A h, p \in Handle : Active(h) /\ Active(p) /\ HOwner[h] = HOwner[p] /\ h # p
                         => Bases(h) \cap Bases(p) = {}
WaitsForOwn ==
  \A n \in Node : waiting[n] # None => Active(waiting[n]) /\ HOwner[waiting[n]] = n

CopyInv == HandleInv /\ ArrayMirrorsMembers /\ UseIsActive /\ NoMpiError /\ WaitsForOwn
LentInv == CopyInv /\ ActiveLent /\ ActiveApart

-----------------------------------------------------------------------------
(* Handles, their leaves and their requests *)

\* The leaves of a live handle are individual handles of its process.
LEMMA LeavesSingle ==
  ASSUME HandleInv, NEW h \in Handle, Live(h)
  PROVE  \A k \in Leaves(h) : k \in Handle /\ Single(k) /\ HOwner[k] = HOwner[h]
  BY DEF HandleInv, TypeInv, TypeOK, ChainInv, MembersIdle, Leaves, Live, Multiple

\* What a live handle passes to MPI are the requests of its leaves.
LEMMA ReqsCarried ==
  ASSUME HandleInv, ArrayMirrorsMembers, NEW h \in Handle, Live(h)
  PROVE  Reqs(h) = {request[k] : k \in Leaves(h)}
  BY DEF Reqs, Leaves, ArrayMirrorsMembers

\* An active or unmarked handle is on no list.
LEMMA NotListed ==
  ASSUME HandleInv, NEW h \in Handle, Active(h) \/ Multiple(h) \/ mh[h].num # 0,
         NEW p \in Handle
  PROVE  h \notin chain[p]
  BY DEF HandleInv, ChainInv, MembersIdle, Active, Single, Multiple, Kinds

\* Two handles that the program may start, or that are active, have no leaf in common.
LEMMA LeavesApart ==
  ASSUME HandleInv, NEW h \in Handle, NEW p \in Handle, h # p, Live(h), Live(p),
         Active(h) \/ mh[h].num # 0, Active(p) \/ mh[p].num # 0
  PROVE  Leaves(h) \cap Leaves(p) = {}
  <1>1. \A q \in Handle : h \notin chain[q] /\ p \notin chain[q]
    BY NotListed
  <1>2. chain[h] \cap chain[p] = {}
    BY DEF HandleInv, TypeInv, Chained
  <1> QED
    BY <1>1, <1>2 DEF Leaves

\* Requests of different handles are different.
LEMMA CarriedApart ==
  ASSUME HandleInv, NEW h \in Handle, NEW p \in Handle, h # p, Live(h), Live(p),
         Active(h) \/ mh[h].num # 0, Active(p) \/ mh[p].num # 0,
         NEW r, Carries(h, r)
  PROVE  ~Carries(p, r)
  <1>1. Leaves(h) \cap Leaves(p) = {}
    BY LeavesApart
  <1>2. /\ \A k \in Leaves(h) : k \in Handle /\ Single(k)
        /\ \A k \in Leaves(p) : k \in Handle /\ Single(k)
    BY LeavesSingle
  <1> QED
    BY <1>1, <1>2 DEF Carries, HandleInv, OwnInv, Unshared

-----------------------------------------------------------------------------
(* Steps that leave the active handles alone *)

\* Nothing about an active handle changes, and no handle becomes active.
Untouched ==
  /\ \A h \in Handle : Active(h)' <=> Active(h)
  /\ \A h \in Handle : Active(h) =>
       /\ Leaves(h)' = Leaves(h)
       /\ \A k \in Leaves(h) : mh'[k].base = mh[k].base /\ request'[k] = request[k]
  /\ \A r \in Req : InUse(r)' => InUse(r)

LEMMA KeepUse ==
  ASSUME UseIsActive, Untouched
  PROVE  UseIsActive'
  <1> SUFFICES ASSUME NEW r \in Req, InUse(r)'
               PROVE  \E h \in Handle : Active(h)' /\ Carries(h, r)'
    BY DEF UseIsActive
  <1>1. PICK h \in Handle : Active(h) /\ Carries(h, r)
    BY DEF UseIsActive, Untouched
  <1>2. Active(h)' /\ Carries(h, r)'
    BY <1>1 DEF Untouched, Carries
  <1> QED
    BY <1>2

LEMMA KeepWaits ==
  ASSUME WaitsForOwn, HandleInv, Untouched, waiting' = waiting
  PROVE  WaitsForOwn'
  <1>1. \A n \in Node : waiting[n] # None => waiting[n] \in Handle
    BY DEF HandleInv, TypeInv, TypeOK
  <1> QED
    BY <1>1 DEF Untouched, WaitsForOwn

LEMMA KeepLent ==
  ASSUME ActiveLent, ActiveApart, Untouched,
         \A n \in Node : lent[n] \subseteq lent'[n]
  PROVE  ActiveLent' /\ ActiveApart'
  <1>1. \A h \in Handle : Active(h) => Bases(h)' = Bases(h)
    BY DEF Untouched, Bases
  <1>2. \A h \in Handle : HOwner[h] \in Node
    BY PoolAssumption
  <1>3. ActiveLent'
    BY <1>1, <1>2 DEF Untouched, ActiveLent
  <1>4. ActiveApart'
    BY <1>1 DEF Untouched, ActiveApart
  <1> QED
    BY <1>3, <1>4

LEMMA DeclareUntouched ==
  ASSUME HandleInv, ArrayMirrorsMembers, NEW h \in Handle, NEW d \in Decls, Declare(h, d)
  PROVE  Untouched /\ ArrayMirrorsMembers'
  <1> DEFINE m == [type |-> d.kind, num |-> 1, activeP |-> 0, peer |-> Peer(d),
                   axis |-> d.axis, dir |-> d.dir, base |-> d.base]
  <1>1. PICK r \in FreeReqs(d.node) :
          /\ mh' = [mh EXCEPT ![h] = m]
          /\ request' = [request EXCEPT ![h] = r]
          /\ req' = [req EXCEPT ![r] = PersistentRequest(d.node, m)]
    BY DEF Declare
  <1>2. /\ mh[h].type = "free" /\ chain' = chain /\ request_array' = request_array
        /\ m.type \in Kinds /\ m.activeP = 0
    BY DeclAssumption DEF Declare, DeclCall
  <1>3. PersistentRequest(d.node, m).st = "inactive"
    BY DEF PersistentRequest
  <1> HIDE DEF m
  <1>4. /\ mh'[h] = m
        /\ \A k \in Handle \ {h} : mh'[k] = mh[k] /\ request'[k] = request[k]
    BY <1>1 DEF HandleInv, TypeInv, TypeOK
  <1>5. /\ \A k \in Handle \ {h} : (Live(k)' <=> Live(k)) /\ (Multiple(k)' <=> Multiple(k))
        /\ ~Live(h) /\ ~Multiple(h)' /\ ~Active(h) /\ ~Active(h)'
    BY <1>2, <1>4 DEF Live, Single, Multiple, Kinds, Active
  <1>6. \A p \in Handle : h \notin chain[p]
    BY <1>5 DEF HandleInv, ChainInv, MembersIdle, Live
  <1>7. \A q \in Req : InUse(q)' => InUse(q)
    BY <1>1, <1>3 DEF InUse, HandleInv, TypeInv, TypeOK
  <1>8. \A p \in Handle : Active(p) =>
          /\ Leaves(p)' = Leaves(p)
          /\ \A k \in Leaves(p) : mh'[k].base = mh[k].base /\ request'[k] = request[k]
    <2> SUFFICES ASSUME NEW p \in Handle, Active(p)
                 PROVE  /\ Leaves(p)' = Leaves(p)
                        /\ \A k \in Leaves(p) : mh'[k].base = mh[k].base /\ request'[k] = request[k]
      OBVIOUS
    <2>1. p # h /\ Live(p)
      BY <1>5 DEF Active
    <2>2. \A k \in Leaves(p) : k \in Handle \ {h}
      BY <1>6, <2>1, LeavesSingle DEF Leaves
    <2> QED
      BY <1>2, <1>4, <1>5, <2>1, <2>2 DEF Leaves
  <1>9. Untouched
    BY <1>4, <1>5, <1>7, <1>8 DEF Untouched, Active
  <1>10. ArrayMirrorsMembers'
    <2> SUFFICES ASSUME NEW p \in Handle, Multiple(p)', NEW k \in chain'[p]
                 PROVE  request_array'[p][k] = request'[k]
      BY DEF ArrayMirrorsMembers
    <2>1. p # h /\ Multiple(p) /\ k \in chain[p] /\ k \in Handle \ {h}
      BY <1>2, <1>5, <1>6 DEF HandleInv, TypeInv, TypeOK
    <2> QED
      BY <1>2, <1>4, <2>1 DEF ArrayMirrorsMembers
  <1> QED
    BY <1>9, <1>10

LEMMA DeclareMultipleUntouched ==
  ASSUME HandleInv, ArrayMirrorsMembers, NEW h \in Handle, NEW S \in SUBSET Handle,
         DeclareMultiple(h, S)
  PROVE  Untouched /\ ArrayMirrorsMembers'
  <1> DEFINE K     == Splice(S)
             inner == {s \in S : Multiple(s)}
             top   == NewMultiple(K)
  <1>1. /\ mh[h].type = "free"
        /\ \A s \in S : Live(s) /\ HOwner[s] = HOwner[h] /\ mh[s].activeP = 0
        /\ \A s \in S : Multiple(s) \/ mh[s].num = 1
        /\ mh' = [k \in Handle |-> CASE k = h -> top
                                     [] k \in K -> Mark(mh[k])
                                     [] k \in inner -> NoHandle
                                     [] OTHER -> mh[k]]
        /\ chain' = [k \in Handle |-> IF k = h THEN K
                                      ELSE IF k \in inner THEN {} ELSE chain[k]]
        /\ request_array' =
             [k \in Handle |->
                IF k = h THEN RequestArray(K)
                ELSE IF k \in inner THEN RequestArray({}) ELSE request_array[k]]
        /\ UNCHANGED <<request, req>>
    BY DEF DeclareMultiple, mpiVars
  <1>2. /\ K \subseteq Handle /\ h \notin K /\ h \notin S
        /\ \A p \in Handle : h \notin chain[p]
        /\ \A k \in K : Single(k) /\ ~Multiple(k)
        /\ \A k \in K, p \in Handle \ S : k \notin chain[p]
        /\ \A s \in S, p \in Handle : Multiple(s) => s \notin chain[p]
    BY <1>1, SpliceMembers DEF HandleInv
  <1>3. \A k \in K : \E s \in S : \/ Multiple(s) /\ k \in chain[s]
                                  \/ ~Multiple(s) /\ k = s
    BY DEF Splice, Leaves
  <1>4. \A k \in K : mh[k].activeP = 0
    BY <1>1, <1>3 DEF HandleInv, ChainInv, MembersIdle
  <1>5. \A k \in K : Mark(mh[k]).activeP = 0 /\ Mark(mh[k]).type = mh[k].type
    <2> SUFFICES ASSUME NEW k \in K
                 PROVE  Mark(mh[k]).activeP = 0 /\ Mark(mh[k]).type = mh[k].type
      OBVIOUS
    <2>1. mh[k] \in HandleRec
      BY <1>2 DEF HandleInv, TypeInv, TypeOK
    <2> QED
      BY <1>4, <2>1, MarkType
  <1> HIDE DEF K
  <1>6. top.type = "multiple" /\ top.activeP = 0
    BY DEF NewMultiple
  <1> HIDE DEF top
  <1>7. \A k \in Handle :
          /\ k = h => mh'[k].type = "multiple" /\ mh'[k].activeP = 0
          /\ k \in K => mh'[k].type = mh[k].type /\ mh'[k].activeP = 0
          /\ k \in inner => mh'[k].type = "free"
          /\ k # h /\ k \notin K /\ k \notin inner => mh'[k] = mh[k]
    BY <1>1, <1>2, <1>5, <1>6 DEF NoHandle
  <1>8. \A p \in Handle : Active(p) => p # h /\ p \notin K /\ p \notin S
    BY <1>1, <1>4 DEF Active, Live, Single, Multiple, Kinds
  <1>9. \A p \in Handle : Active(p)' => p # h /\ p \notin K /\ p \notin inner
    BY <1>7 DEF Active, Live, Single, Multiple, Kinds
  <1>10. \A p \in Handle : p # h /\ p \notin K /\ p \notin inner => (Active(p)' <=> Active(p))
    BY <1>7 DEF Active, Live, Single, Multiple
  <1>11. \A p \in Handle : Active(p)' <=> Active(p)
    BY <1>8, <1>9, <1>10
  <1>12. \A q \in Req : InUse(q)' => InUse(q)
    BY <1>1 DEF InUse
  <1>13. \A p \in Handle : Active(p) =>
           /\ Leaves(p)' = Leaves(p)
           /\ \A k \in Leaves(p) : mh'[k].base = mh[k].base /\ request'[k] = request[k]
    <2> SUFFICES ASSUME NEW p \in Handle, Active(p)
                 PROVE  /\ Leaves(p)' = Leaves(p)
                        /\ \A k \in Leaves(p) : mh'[k].base = mh[k].base /\ request'[k] = request[k]
      OBVIOUS
    <2>1. p # h /\ p \notin K /\ p \notin S /\ Live(p)
      BY <1>8 DEF Active
    <2>2. mh'[p] = mh[p] /\ chain'[p] = chain[p]
      BY <1>1, <1>7, <2>1
    <2>3. Leaves(p)' = Leaves(p)
      BY <2>2 DEF Leaves, Multiple
    <2>4. \A k \in Leaves(p) : k \in Handle /\ k # h /\ k \notin K /\ k \notin inner
      BY <1>2, <2>1, LeavesSingle DEF Leaves
    <2> QED
      BY <1>1, <1>7, <2>3, <2>4
  <1>14. Untouched
    BY <1>11, <1>12, <1>13 DEF Untouched
  <1>15. ArrayMirrorsMembers'
    <2> SUFFICES ASSUME NEW p \in Handle, Multiple(p)', NEW k \in chain'[p]
                 PROVE  request_array'[p][k] = request'[k]
      BY DEF ArrayMirrorsMembers
    <2>1. CASE p = h
      BY <1>1, <1>2, <2>1 DEF RequestArray
    <2>2. CASE p # h
      <3>1. p \notin inner /\ p \notin K
        BY <1>2, <1>7, <2>2 DEF Multiple
      <3>2. Multiple(p) /\ chain'[p] = chain[p] /\ request_array'[p] = request_array[p]
        BY <1>1, <1>7, <2>2, <3>1 DEF Multiple
      <3> QED
        BY <1>1, <3>2 DEF ArrayMirrorsMembers
    <2> QED
      BY <2>1, <2>2
  <1> QED
    BY <1>14, <1>15

LEMMA FreeUntouched ==
  ASSUME HandleInv, ArrayMirrorsMembers, NEW h \in Handle, Free(h)
  PROVE  Untouched /\ ArrayMirrorsMembers'
  <1>1. /\ Live(h) /\ mh[h].num # 0 /\ mh[h].activeP = 0
        /\ mh' = [k \in Handle |-> IF k \in Released(h) THEN NoHandle ELSE mh[k]]
        /\ chain' = [chain EXCEPT ![h] = {}]
        /\ request' = [k \in Handle |-> IF k \in Released(h) THEN None ELSE request[k]]
        /\ request_array' = [request_array EXCEPT ![h] = RequestArray({})]
        /\ req' = [r \in Req |-> IF \E k \in Leaves(h) : request[k] = r
                                 THEN NoRequest ELSE req[r]]
    BY DEF Free
  <1>2. /\ h \in Released(h) /\ Released(h) \subseteq Handle
        /\ \A k \in Released(h) : mh[k].activeP = 0
    BY <1>1 DEF Released, HandleInv, TypeInv, TypeOK, ChainInv, MembersIdle
  <1>3. \A p \in Handle : p # h => /\ chain[p] \cap Released(h) = {}
                                   /\ chain'[p] = chain[p]
                                   /\ request_array'[p] = request_array[p]
    <2>1. \A p \in Handle : h \notin chain[p]
      BY <1>1, NotListed
    <2> QED
      BY <1>1, <2>1 DEF Released, HandleInv, TypeInv, TypeOK, Chained
  <1>4. \A k \in Handle : k \in Released(h) => ~Live(k)' /\ ~Multiple(k)'
    BY <1>1 DEF Live, Single, Multiple, NoHandle, Kinds
  <1>5. \A k \in Handle : k \notin Released(h) => mh'[k] = mh[k] /\ request'[k] = request[k]
    BY <1>1
  <1>6. \A p \in Handle : Active(p) => p \notin Released(h)
    BY <1>2 DEF Active
  <1>7. \A p \in Handle : Active(p)' <=> Active(p)
    BY <1>4, <1>5, <1>6 DEF Active, Live, Single, Multiple
  <1>8. \A q \in Req : InUse(q)' => InUse(q)
    BY <1>1 DEF InUse, NoRequest
  <1>9. \A p \in Handle : Active(p) =>
          /\ Leaves(p)' = Leaves(p)
          /\ \A k \in Leaves(p) : mh'[k].base = mh[k].base /\ request'[k] = request[k]
    <2> SUFFICES ASSUME NEW p \in Handle, Active(p)
                 PROVE  /\ Leaves(p)' = Leaves(p)
                        /\ \A k \in Leaves(p) : mh'[k].base = mh[k].base /\ request'[k] = request[k]
      OBVIOUS
    <2>1. p # h /\ p \notin Released(h) /\ Live(p)
      BY <1>2, <1>6 DEF Active
    <2>2. Leaves(p)' = Leaves(p)
      BY <1>3, <1>5, <2>1 DEF Leaves, Multiple
    <2>3. \A k \in Leaves(p) : k \in Handle /\ k \notin Released(h)
      BY <1>3, <2>1, LeavesSingle DEF Leaves
    <2> QED
      BY <1>5, <2>2, <2>3
  <1>10. Untouched
    BY <1>7, <1>8, <1>9 DEF Untouched
  <1>11. ArrayMirrorsMembers'
    <2> SUFFICES ASSUME NEW p \in Handle, Multiple(p)', NEW k \in chain'[p]
                 PROVE  request_array'[p][k] = request'[k]
      BY DEF ArrayMirrorsMembers
    <2>1. p \notin Released(h) /\ p # h
      BY <1>2, <1>4
    <2>2. Multiple(p) /\ k \in chain[p] /\ k \in Handle /\ k \notin Released(h)
      BY <1>3, <1>5, <2>1 DEF Multiple, HandleInv, TypeInv, TypeOK
    <2> QED
      BY <1>3, <1>5, <2>1, <2>2 DEF ArrayMirrorsMembers
  <1> QED
    BY <1>10, <1>11

LEMMA ChangeAddressUntouched ==
  ASSUME HandleInv, ArrayMirrorsMembers, NEW h \in Handle, NEW b \in Buf,
         ChangeAddress(h, b)
  PROVE  Untouched /\ ArrayMirrorsMembers'
  <1> DEFINE n == HOwner[h]
             m == [mh[h] EXCEPT !.base = b]
  <1>1. /\ Single(h) /\ mh[h].num # 0 /\ mh[h].activeP = 0
        /\ chain' = chain /\ request_array' = request_array
    BY DEF ChangeAddress
  <1>2. PICK r \in FreeReqs(n) \cup {request[h]} :
          /\ mh' = [mh EXCEPT ![h] = m]
          /\ request' = [request EXCEPT ![h] = r]
          /\ req' = [[req EXCEPT ![request[h]] = NoRequest]
                       EXCEPT ![r] = PersistentRequest(n, m)]
    BY DEF ChangeAddress
  <1>3. m.type = mh[h].type /\ m.activeP = 0
    <2>1. mh[h] \in HandleRec
      BY DEF HandleInv, TypeInv, TypeOK
    <2> QED
      BY <1>1, <2>1, RebaseType
  <1>4. PersistentRequest(n, m).st = "inactive" /\ NoRequest.st = "free"
    BY DEF PersistentRequest, NoRequest
  <1> HIDE DEF m
  <1>5. /\ mh'[h] = m
        /\ \A k \in Handle \ {h} : mh'[k] = mh[k] /\ request'[k] = request[k]
        /\ \A q \in Req : \/ req'[q] = PersistentRequest(n, m)
                          \/ req'[q] = NoRequest
                          \/ req'[q] = req[q]
    BY <1>2 DEF HandleInv, TypeInv, TypeOK
  <1>6. \A p \in Handle : h \notin chain[p]
    BY <1>1, NotListed
  <1>7. \A q \in Req : InUse(q)' => InUse(q)
    BY <1>4, <1>5 DEF InUse
  <1>8. \A p \in Handle : (Multiple(p)' <=> Multiple(p)) /\ (Active(p)' <=> Active(p))
    BY <1>1, <1>3, <1>5 DEF Multiple, Single, Live, Active
  <1>9. \A p \in Handle : Active(p) =>
          /\ Leaves(p)' = Leaves(p)
          /\ \A k \in Leaves(p) : mh'[k].base = mh[k].base /\ request'[k] = request[k]
    <2> SUFFICES ASSUME NEW p \in Handle, Active(p)
                 PROVE  /\ Leaves(p)' = Leaves(p)
                        /\ \A k \in Leaves(p) : mh'[k].base = mh[k].base /\ request'[k] = request[k]
      OBVIOUS
    <2>1. p # h /\ Live(p)
      BY <1>1 DEF Active
    <2>2. \A k \in Leaves(p) : k \in Handle \ {h}
      BY <1>6, <2>1, LeavesSingle DEF Leaves
    <2> QED
      BY <1>1, <1>5, <1>8, <2>2 DEF Leaves
  <1>10. Untouched
    BY <1>7, <1>8, <1>9 DEF Untouched
  <1>11. ArrayMirrorsMembers'
    <2> SUFFICES ASSUME NEW p \in Handle, Multiple(p)', NEW k \in chain'[p]
                 PROVE  request_array'[p][k] = request'[k]
      BY DEF ArrayMirrorsMembers
    <2>1. Multiple(p) /\ k \in chain[p] /\ k \in Handle \ {h}
      BY <1>1, <1>6, <1>8 DEF HandleInv, TypeInv, TypeOK
    <2> QED
      BY <1>1, <1>5, <2>1 DEF ArrayMirrorsMembers
  <1> QED
    BY <1>10, <1>11

\* Steps that change no handle and bring no request into use.
LEMMA IdleUntouched ==
  ASSUME ArrayMirrorsMembers, UNCHANGED handleVars, \A r \in Req : InUse(r)' => InUse(r)
  PROVE  Untouched /\ ArrayMirrorsMembers'
  <1>1. mh' = mh /\ chain' = chain /\ request' = request /\ request_array' = request_array
    BY DEF handleVars
  <1>2. Untouched
    BY <1>1 DEF Untouched, Active, Live, Single, Multiple, Leaves
  <1>3. ArrayMirrorsMembers'
    BY <1>1 DEF ArrayMirrorsMembers, Multiple
  <1> QED
    BY <1>2, <1>3

LEMMA ProgressUntouched ==
  ASSUME HandleInv, ArrayMirrorsMembers, Progress
  PROVE  /\ Untouched /\ ArrayMirrorsMembers'
         /\ lent' = lent /\ waiting' = waiting /\ stop' = stop
  <1>1. UNCHANGED handleVars /\ lent' = lent /\ waiting' = waiting /\ stop' = stop
    BY DEF Progress, Buffer, Deliver, Transfer, clientVars
  <1>2. \A r \in Req : InUse(r)' => InUse(r)
    <2>1. ASSUME NEW r \in Req, Buffer(r) PROVE \A q \in Req : InUse(q)' => InUse(q)
      BY <2>1 DEF Buffer, InUse, HandleInv, TypeInv, TypeOK
    <2>2. ASSUME NEW m \in wire, NEW r \in Req, Deliver(m, r)
          PROVE  \A q \in Req : InUse(q)' => InUse(q)
      BY <2>2 DEF Deliver, InUse, HandleInv, TypeInv, TypeOK
    <2>3. ASSUME NEW r \in Req, NEW p \in Req, Transfer(r, p)
          PROVE  \A q \in Req : InUse(q)' => InUse(q)
      BY <2>3 DEF Transfer, InUse, HandleInv, TypeInv, TypeOK
    <2> QED
      BY <2>1, <2>2, <2>3 DEF Progress
  <1> QED
    BY <1>1, <1>2, IdleUntouched

-----------------------------------------------------------------------------
(* Starting and completing *)

\* Setting or clearing the activeP of h changes nothing else about handles.
LEMMA SetActive ==
  ASSUME HandleInv, NEW h \in Handle, NEW a \in {0, 1}, Live(h),
         mh' = [mh EXCEPT ![h].activeP = a], UNCHANGED <<chain, request>>
  PROVE  /\ \A k \in Handle : Multiple(k)' <=> Multiple(k)
         /\ \A k \in Handle : Live(k)' <=> Live(k)
         /\ \A k \in Handle : mh'[k].base = mh[k].base
         /\ \A k \in Handle \ {h} : Active(k)' <=> Active(k)
         /\ Active(h)' <=> a = 1
         /\ \A k \in Handle : Leaves(k)' = Leaves(k)
         /\ \A k \in Handle : \A r : Carries(k, r)' <=> Carries(k, r)
         /\ \A k \in Handle : Live(k) => Bases(k)' = Bases(k)
  <1>1. /\ mh'[h].type = mh[h].type /\ mh'[h].activeP = a /\ mh'[h].base = mh[h].base
        /\ \A k \in Handle \ {h} : mh'[k] = mh[k]
    <2>1. mh[h] \in HandleRec /\ mh'[h] = [mh[h] EXCEPT !.activeP = a]
          /\ \A k \in Handle \ {h} : mh'[k] = mh[k]
      BY DEF HandleInv, TypeInv, TypeOK
    <2>2. mh'[h] = [type |-> mh[h].type, num |-> mh[h].num, activeP |-> a,
                    peer |-> mh[h].peer, axis |-> mh[h].axis, dir |-> mh[h].dir,
                    base |-> mh[h].base]
      BY <2>1 DEF HandleRec
    <2> QED
      BY <2>1, <2>2
  <1>2. /\ \A k \in Handle : Multiple(k)' <=> Multiple(k)
        /\ \A k \in Handle : Live(k)' <=> Live(k)
        /\ \A k \in Handle : mh'[k].base = mh[k].base
    BY <1>1 DEF Multiple, Single, Live
  <1>3. /\ \A k \in Handle \ {h} : Active(k)' <=> Active(k)
        /\ Active(h)' <=> a = 1
    BY <1>1, <1>2 DEF Active
  <1>4. \A k \in Handle : Leaves(k)' = Leaves(k)
    BY <1>2 DEF Leaves
  <1>5. \A k \in Handle : \A r : Carries(k, r)' <=> Carries(k, r)
    BY <1>4 DEF Carries
  <1>6. \A k \in Handle : Live(k) => Bases(k)' = Bases(k)
    <2> SUFFICES ASSUME NEW k \in Handle, Live(k) PROVE Bases(k)' = Bases(k)
      OBVIOUS
    <2>1. \A j \in Leaves(k) : j \in Handle
      BY LeavesSingle
    <2> QED
      BY <1>2, <1>4, <2>1 DEF Bases
  <1> QED
    BY <1>2, <1>3, <1>4, <1>5, <1>6

\* The requests of a handle that the program may start are idle: whatever MPI works
\* on belongs to another handle.  So MPI_Start is never erroneous.
LEMMA StartIsClean ==
  ASSUME CopyInv, NEW h \in Handle, Start(h)
  PROVE  /\ \A r \in Reqs(h) : r # None /\ req[r].st = "inactive"
         /\ Post(Reqs(h)) /\ stop' = stop
  <1>1. Live(h) /\ mh[h].num # 0 /\ mh[h].activeP = 0
    BY DEF Start
  <1>2. ASSUME NEW r \in Reqs(h) PROVE r # None /\ req[r].st = "inactive"
    <2>1. Reqs(h) = {request[j] : j \in Leaves(h)}
      BY <1>1, ReqsCarried DEF CopyInv
    <2>2. PICK k \in Leaves(h) : r = request[k]
      BY <2>1
    <2>3. k \in Handle /\ Single(k)
      BY <1>1, LeavesSingle DEF CopyInv
    <2>4. r \in Req /\ req[r].st # "free"
      BY <2>2, <2>3 DEF CopyInv, HandleInv, OwnInv, Owned
    <2>5. ~InUse(r)
      <3> SUFFICES ASSUME InUse(r) PROVE FALSE
        OBVIOUS
      <3>1. PICK p \in Handle : Active(p) /\ Carries(p, r)
        BY <2>4 DEF CopyInv, UseIsActive
      <3>2. p # h /\ Live(p)
        BY <1>1, <3>1 DEF Active
      <3>3. Carries(h, r)
        BY <2>2 DEF Carries
      <3> QED
        BY <1>1, <3>1, <3>2, <3>3, CarriedApart DEF CopyInv
    <2>6. req[r] \in ReqRec
      BY <2>4 DEF CopyInv, HandleInv, TypeInv, TypeOK
    <2> QED
      BY <2>4, <2>5, <2>6, PoolAssumption DEF InUse, ReqRec
  <1> QED
    BY <1>2 DEF Start

LEMMA StartCopyInv ==
  ASSUME CopyInv, HandleInv', NEW h \in Handle, Start(h)
  PROVE  CopyInv'
  <1>1. /\ Live(h) /\ mh[h].num # 0 /\ mh[h].activeP = 0
        /\ mh' = [mh EXCEPT ![h].activeP = 1]
        /\ UNCHANGED <<chain, request, request_array>>
    BY DEF Start
  <1>2. /\ \A k \in Handle : Multiple(k)' <=> Multiple(k)
        /\ \A k \in Handle \ {h} : Active(k)' <=> Active(k)
        /\ Active(h)' /\ ~Active(h)
        /\ \A k \in Handle : \A r : Carries(k, r)' <=> Carries(k, r)
    <2>1. HandleInv
      BY DEF CopyInv
    <2>2. ~Active(h)
      BY <1>1 DEF Active
    <2>3. Active(h)' <=> 1 = 1
      BY <1>1, <2>1, SetActive
    <2> QED
      BY <1>1, <2>1, <2>2, <2>3, SetActive
  <1>3. /\ \A r \in Reqs(h) : r # None /\ req[r].st = "inactive"
        /\ Post(Reqs(h)) /\ stop' = stop
    BY StartIsClean
  <1>4. Reqs(h) \in SUBSET Req
    BY <1>1, <1>3, ReqsInRange DEF CopyInv, HandleInv
  <1>5. PostEffect(Reqs(h))
    BY <1>3, <1>4, PostHasEffect DEF CopyInv, HandleInv
  <1>6. UseIsActive'
    <2> SUFFICES ASSUME NEW r \in Req, InUse(r)'
                 PROVE  \E p \in Handle : Active(p)' /\ Carries(p, r)'
      BY DEF UseIsActive
    <2>1. CASE r \in Reqs(h)
      <3>1. Reqs(h) = {request[j] : j \in Leaves(h)}
        BY <1>1, ReqsCarried DEF CopyInv
      <3>2. Carries(h, r)
        BY <2>1, <3>1 DEF Carries
      <3> QED
        BY <1>2, <3>2
    <2>2. CASE r \notin Reqs(h)
      <3>1. InUse(r)
        BY <1>5, <2>2 DEF PostEffect, InUse
      <3>2. PICK p \in Handle : Active(p) /\ Carries(p, r)
        BY <3>1 DEF CopyInv, UseIsActive
      <3> QED
        BY <1>2, <3>2
    <2> QED
      BY <2>1, <2>2
  <1>7. ArrayMirrorsMembers'
    BY <1>1, <1>2 DEF CopyInv, ArrayMirrorsMembers
  <1>8. WaitsForOwn'
    <2>1. waiting' = waiting /\ (\A n \in Node : waiting[n] # None => waiting[n] \in Handle)
      BY DEF Start, CopyInv, HandleInv, TypeInv, TypeOK
    <2> QED
      BY <1>2, <2>1 DEF CopyInv, WaitsForOwn
  <1> QED
    BY <1>3, <1>6, <1>7, <1>8 DEF CopyInv, NoMpiError

LEMMA CompleteCopyInv ==
  ASSUME CopyInv, HandleInv', NEW h \in Handle, Live(h), Complete(h),
         \A n \in Node : waiting'[n] # None => waiting'[n] = waiting[n] /\ waiting[n] # h
  PROVE  CopyInv'
  <1>1. /\ mh' = [mh EXCEPT ![h].activeP = 0] /\ stop' = stop
        /\ UNCHANGED <<chain, request, request_array>>
    BY DEF Complete
  <1>2. /\ \A k \in Handle : Multiple(k)' <=> Multiple(k)
        /\ \A k \in Handle \ {h} : Active(k)' <=> Active(k)
        /\ \A k \in Handle : \A r : Carries(k, r)' <=> Carries(k, r)
    BY <1>1, SetActive DEF CopyInv
  <1>3. CompleteEffect(h)
    BY CompleteHasEffect DEF CopyInv, HandleInv
  <1>4. UseIsActive'
    <2> SUFFICES ASSUME NEW r \in Req, InUse(r)'
                 PROVE  \E p \in Handle : Active(p)' /\ Carries(p, r)'
      BY DEF UseIsActive
    <2>1. InUse(r) /\ r \notin Reqs(h)
      BY <1>3 DEF CompleteEffect, InUse
    <2>2. PICK p \in Handle : Active(p) /\ Carries(p, r)
      BY <2>1 DEF CopyInv, UseIsActive
    <2>3. p # h
      <3>1. Reqs(h) = {request[j] : j \in Leaves(h)}
        BY ReqsCarried DEF CopyInv
      <3> QED
        BY <2>1, <2>2, <3>1 DEF Carries
    <2> QED
      BY <1>2, <2>2, <2>3
  <1>5. ArrayMirrorsMembers'
    BY <1>1, <1>2 DEF CopyInv, ArrayMirrorsMembers
  <1>6. WaitsForOwn'
    <2>1. \A n \in Node : waiting[n] # None => waiting[n] \in Handle
      BY DEF CopyInv, HandleInv, TypeInv, TypeOK
    <2> QED
      BY <1>2, <2>1 DEF CopyInv, WaitsForOwn
  <1> QED
    BY <1>1, <1>4, <1>5, <1>6 DEF CopyInv, NoMpiError

\* Starting h lends its buffers, which no active handle of the process had.
LEMMA StartLent ==
  ASSUME LentInv, NEW h \in Handle, Start(h)
  PROVE  ActiveLent' /\ ActiveApart'
  <1>1. /\ Live(h) /\ HOwner[h] \in Node
        /\ mh' = [mh EXCEPT ![h].activeP = 1] /\ UNCHANGED <<chain, request>>
        /\ Bases(h) \cap lent[HOwner[h]] = {}
        /\ lent' = [lent EXCEPT ![HOwner[h]] = @ \cup Bases(h)]
    BY PoolAssumption DEF Start
  <1>2. HandleInv /\ ActiveLent /\ ActiveApart
    BY DEF LentInv, CopyInv
  <1>3. /\ \A k \in Handle \ {h} : Active(k)' <=> Active(k)
        /\ \A k \in Handle : Live(k) => Bases(k)' = Bases(k)
    BY <1>1, <1>2, SetActive
  <1>4. /\ lent'[HOwner[h]] = lent[HOwner[h]] \cup Bases(h)
        /\ \A n \in Node \ {HOwner[h]} : lent'[n] = lent[n]
    BY <1>1, <1>2 DEF HandleInv, TypeInv, TypeOK
  <1>5. \A k \in Handle : HOwner[k] \in Node
    BY PoolAssumption
  <1>6. \A k \in Handle \ {h} : Active(k)' =>
          /\ Active(k) /\ Bases(k)' = Bases(k) /\ Bases(k) \subseteq lent[HOwner[k]]
    BY <1>2, <1>3 DEF Active, ActiveLent
  <1>7. Bases(h)' = Bases(h)
    BY <1>1, <1>3
  <1>8. ActiveLent'
    BY <1>4, <1>5, <1>6, <1>7 DEF ActiveLent
  <1>9. ActiveApart'
    <2> SUFFICES ASSUME NEW j \in Handle, NEW p \in Handle, Active(j)', Active(p)',
                        HOwner[j] = HOwner[p], j # p
                 PROVE  Bases(j)' \cap Bases(p)' = {}
      BY DEF ActiveApart
    <2>1. CASE j = h
      BY <1>1, <1>6, <1>7, <2>1
    <2>2. CASE p = h
      BY <1>1, <1>6, <1>7, <2>2
    <2>3. CASE j # h /\ p # h
      BY <1>2, <1>6, <2>3 DEF ActiveApart
    <2> QED
      BY <2>1, <2>2, <2>3
  <1> QED
    BY <1>8, <1>9

\* Completing h gives back its buffers and those of no other active handle.
LEMMA CompleteLent ==
  ASSUME LentInv, NEW h \in Handle, Active(h), Complete(h)
  PROVE  ActiveLent' /\ ActiveApart'
  <1>1. /\ Live(h) /\ HOwner[h] \in Node
        /\ mh' = [mh EXCEPT ![h].activeP = 0] /\ UNCHANGED <<chain, request>>
        /\ lent' = [lent EXCEPT ![HOwner[h]] = @ \ Bases(h)]
    BY PoolAssumption DEF Complete, Active
  <1>2. HandleInv /\ ActiveLent /\ ActiveApart
    BY DEF LentInv, CopyInv
  <1>3. /\ \A k \in Handle \ {h} : Active(k)' <=> Active(k)
        /\ \A k \in Handle : Live(k) => Bases(k)' = Bases(k)
    BY <1>1, <1>2, SetActive
  <1>4. ~Active(h)'
    <2>1. Active(h)' <=> 0 = 1
      BY <1>1, <1>2, SetActive
    <2> QED
      BY <2>1
  <1>5. \A n \in Node : lent'[n] = (IF n = HOwner[h] THEN lent[n] \ Bases(h) ELSE lent[n])
    BY <1>1, <1>2 DEF HandleInv, TypeInv, TypeOK
  <1>6. \A k \in Handle : Active(k)' =>
          /\ k # h /\ Active(k) /\ Bases(k)' = Bases(k) /\ HOwner[k] \in Node
    BY <1>3, <1>4, PoolAssumption DEF Active
  <1>7. ActiveLent'
    <2> SUFFICES ASSUME NEW k \in Handle, Active(k)' PROVE Bases(k)' \subseteq lent'[HOwner[k]]
      BY DEF ActiveLent
    <2>1. k # h /\ Active(k) /\ Bases(k)' = Bases(k) /\ HOwner[k] \in Node
      BY <1>6
    <2>2. Bases(k) \subseteq lent[HOwner[k]]
      BY <1>2, <2>1 DEF ActiveLent
    <2>3. CASE HOwner[k] = HOwner[h]
      <3>1. Bases(h) \cap Bases(k) = {}
        BY <1>2, <2>1, <2>3 DEF ActiveApart, Complete, Active
      <3> QED
        BY <1>5, <2>1, <2>2, <2>3, <3>1
    <2>4. CASE HOwner[k] # HOwner[h]
      BY <1>5, <2>1, <2>2, <2>4
    <2> QED
      BY <2>3, <2>4
  <1>8. ActiveApart'
    BY <1>2, <1>6 DEF ActiveApart
  <1> QED
    BY <1>7, <1>8

-----------------------------------------------------------------------------
(* Every step *)

LEMMA UntouchedCopyInv ==
  ASSUME CopyInv, HandleInv', Untouched, ArrayMirrorsMembers', waiting' = waiting,
         stop' # "mpi"
  PROVE  CopyInv'
  <1>1. UseIsActive' /\ WaitsForOwn'
    BY KeepUse, KeepWaits DEF CopyInv
  <1> QED
    BY <1>1 DEF CopyInv, NoMpiError

LEMMA CopyInit == Init => CopyInv
  <1> SUFFICES ASSUME Init PROVE CopyInv
    OBVIOUS
  <1>1. HandleInv
    BY InitHandleInv
  <1>2. ArrayMirrorsMembers
    BY DEF Init, ArrayMirrorsMembers, Multiple, NoHandle
  <1>3. UseIsActive /\ NoMpiError /\ WaitsForOwn
    BY DEF Init, UseIsActive, InUse, NoRequest, NoMpiError, WaitsForOwn
  <1> QED
    BY <1>1, <1>2, <1>3 DEF CopyInv

\* The steps that start, complete, await or only observe a handle aside, no step
\* touches an active handle.
LEMMA QuietSteps ==
  ASSUME HandleInv, ArrayMirrorsMembers, NoReaddress,
         \/ \E h \in Handle, d \in Decls : Declare(h, d)
         \/ \E h \in Handle : \E S \in SUBSET {k \in Handle : Live(k)} : DeclareMultiple(h, S)
         \/ \E h \in Handle : Free(h)
         \/ \E h \in Handle, b \in Buf : ChangeAddress(h, b)
         \/ \E h \in Handle : \E addr \in [chain[h] -> Buf] : ChangeAddressMultiple(h, addr)
         \/ \E n \in Node, b \in Buf, v \in Data : Write(n, b, v)
         \/ Progress
         \/ UNCHANGED vars
  PROVE  /\ Untouched /\ ArrayMirrorsMembers'
         /\ waiting' = waiting /\ stop' = stop /\ lent' = lent
  <1>1. ASSUME NEW h \in Handle, NEW d \in Decls, Declare(h, d)
        PROVE  /\ Untouched /\ ArrayMirrorsMembers'
               /\ waiting' = waiting /\ stop' = stop /\ lent' = lent
    <2>1. waiting' = waiting /\ stop' = stop /\ lent' = lent
      BY <1>1 DEF Declare, clientVars
    <2> QED
      BY <1>1, <2>1, DeclareUntouched
  <1>2. ASSUME NEW h \in Handle, NEW S \in SUBSET {k \in Handle : Live(k)},
               DeclareMultiple(h, S)
        PROVE  /\ Untouched /\ ArrayMirrorsMembers'
               /\ waiting' = waiting /\ stop' = stop /\ lent' = lent
    <2>1. waiting' = waiting /\ stop' = stop /\ lent' = lent
      BY <1>2 DEF DeclareMultiple, clientVars
    <2>2. S \in SUBSET Handle
      OBVIOUS
    <2> QED
      BY <1>2, <2>1, <2>2, DeclareMultipleUntouched
  <1>3. ASSUME NEW h \in Handle, Free(h)
        PROVE  /\ Untouched /\ ArrayMirrorsMembers'
               /\ waiting' = waiting /\ stop' = stop /\ lent' = lent
    <2>1. waiting' = waiting /\ stop' = stop /\ lent' = lent
      BY <1>3 DEF Free, clientVars
    <2> QED
      BY <1>3, <2>1, FreeUntouched
  <1>4. ASSUME NEW h \in Handle, NEW b \in Buf, ChangeAddress(h, b)
        PROVE  /\ Untouched /\ ArrayMirrorsMembers'
               /\ waiting' = waiting /\ stop' = stop /\ lent' = lent
    <2>1. waiting' = waiting /\ stop' = stop /\ lent' = lent
      BY <1>4 DEF ChangeAddress, clientVars
    <2> QED
      BY <1>4, <2>1, ChangeAddressUntouched
  <1>5. ASSUME NEW h \in Handle, NEW addr \in [chain[h] -> Buf],
               ChangeAddressMultiple(h, addr)
        PROVE  FALSE
    BY <1>5 DEF ChangeAddressMultiple, NoReaddress
  <1>6. ASSUME NEW n \in Node, NEW b \in Buf, NEW v \in Data, Write(n, b, v)
        PROVE  /\ Untouched /\ ArrayMirrorsMembers'
               /\ waiting' = waiting /\ stop' = stop /\ lent' = lent
    <2>1. /\ UNCHANGED handleVars /\ req' = req
          /\ waiting' = waiting /\ stop' = stop /\ lent' = lent
      BY <1>6 DEF Write, mpiVars
    <2> QED
      BY <2>1, IdleUntouched DEF InUse
  <1>7. CASE Progress
    BY <1>7, ProgressUntouched
  <1>8. CASE UNCHANGED vars
    <2>1. /\ UNCHANGED handleVars /\ req' = req
          /\ waiting' = waiting /\ stop' = stop /\ lent' = lent
      BY <1>8 DEF vars, mpiVars, clientVars
    <2> QED
      BY <2>1, IdleUntouched DEF InUse
  <1> QED
    BY <1>1, <1>2, <1>3, <1>4, <1>5, <1>6, <1>7, <1>8

\* A step that changes neither the handles nor the requests.
LEMMA SameHandles ==
  ASSUME ArrayMirrorsMembers, UNCHANGED handleVars, UNCHANGED mpiVars
  PROVE  Untouched /\ ArrayMirrorsMembers'
  BY IdleUntouched DEF InUse, mpiVars

LEMMA CopyNext == ASSUME NoReaddress, CopyInv, [Next]_vars PROVE CopyInv'
  <1>1. HandleInv'
    BY NextHandleInv DEF CopyInv
  <1>2. HandleInv /\ ArrayMirrorsMembers /\ stop # "mpi"
    BY DEF CopyInv, NoMpiError
  <1>3. ASSUME NEW h \in Handle, Start(h) PROVE CopyInv'
    BY <1>1, <1>3, StartCopyInv
  <1>4. ASSUME NEW h \in Handle, IsComplete(h) PROVE CopyInv'
    <2>1. /\ Live(h) /\ Complete(h) /\ HOwner[h] \in Node
          /\ waiting' = waiting /\ waiting[HOwner[h]] = None
      BY <1>4, PoolAssumption DEF IsComplete, CanCall
    <2>2. \A n \in Node : waiting[n] # None => waiting[n] # h
      BY <2>1 DEF CopyInv, WaitsForOwn
    <2> QED
      BY <1>1, <2>1, <2>2, CompleteCopyInv
  <1>5. ASSUME NEW n \in Node, EndWait(n) PROVE CopyInv'
    <2>1. /\ waiting[n] # None /\ Complete(waiting[n])
          /\ waiting' = [waiting EXCEPT ![n] = None]
      BY <1>5 DEF EndWait
    <2>2. waiting[n] \in Handle /\ Live(waiting[n])
      BY <2>1 DEF CopyInv, WaitsForOwn, Active, HandleInv, TypeInv, TypeOK
    <2>3. \A m \in Node : waiting'[m] # None =>
            waiting'[m] = waiting[m] /\ waiting[m] # waiting[n]
      BY <2>1 DEF CopyInv, WaitsForOwn, HandleInv, TypeInv, TypeOK
    <2> QED
      BY <1>1, <2>1, <2>2, <2>3, CompleteCopyInv
  <1>6. ASSUME NEW h \in Handle, BeginWait(h) PROVE CopyInv'
    <2>1. /\ Active(h) /\ waiting' = [waiting EXCEPT ![HOwner[h]] = h]
          /\ UNCHANGED handleVars /\ UNCHANGED mpiVars /\ stop' = stop
      BY <1>6 DEF BeginWait, Active
    <2>2. Untouched /\ ArrayMirrorsMembers'
      BY <1>2, <2>1, SameHandles
    <2>3. UseIsActive'
      BY <2>2, KeepUse DEF CopyInv
    <2>4. WaitsForOwn'
      <3>1. \A m \in Node : waiting[m] # None => waiting[m] \in Handle
        BY <1>2 DEF HandleInv, TypeInv, TypeOK
      <3>2. \A m \in Node : waiting'[m] = (IF m = HOwner[h] THEN h ELSE waiting[m])
        BY <1>2, <2>1 DEF HandleInv, TypeInv, TypeOK
      <3> QED
        BY <2>1, <2>2, <3>1, <3>2 DEF CopyInv, WaitsForOwn, Untouched
    <2> QED
      BY <1>1, <1>2, <2>1, <2>2, <2>3, <2>4 DEF CopyInv, NoMpiError
  <1>7. ASSUME NEW h \in Handle, NEW k \in Handle, WaitMember(h, k) PROVE CopyInv'
    <2>1. UNCHANGED handleVars /\ UNCHANGED mpiVars /\ waiting' = waiting /\ stop' = stop
      BY <1>7 DEF WaitMember
    <2> QED
      BY <1>1, <1>2, <2>1, SameHandles, UntouchedCopyInv
  <1>8. ASSUME NEW h \in Handle, Misuse(h) PROVE CopyInv'
    <2>1. /\ UNCHANGED handleVars /\ UNCHANGED mpiVars /\ waiting' = waiting
          /\ stop' = "assert"
      BY <1>8 DEF Misuse, clientVars
    <2> QED
      BY <1>1, <1>2, <2>1, SameHandles, UntouchedCopyInv
  <1>9. \/ \E h \in Handle : Start(h) \/ IsComplete(h) \/ BeginWait(h) \/ Misuse(h)
        \/ \E n \in Node : EndWait(n)
        \/ \E h, k \in Handle : WaitMember(h, k)
        \/ /\ Untouched /\ ArrayMirrorsMembers'
           /\ waiting' = waiting /\ stop' = stop /\ lent' = lent
    BY <1>2, QuietSteps DEF Next
  <1> QED
    BY <1>1, <1>2, <1>3, <1>4, <1>5, <1>6, <1>7, <1>8, <1>9, UntouchedCopyInv

LEMMA LentNext ==
  ASSUME NoReaddress, NoMemberWait, LentInv, [Next]_vars
  PROVE  LentInv'
  <1>1. CopyInv'
    BY CopyNext DEF LentInv
  <1>2. HandleInv /\ ArrayMirrorsMembers /\ WaitsForOwn /\ ActiveLent /\ ActiveApart
    BY DEF LentInv, CopyInv
  <1>3. ASSUME NEW h \in Handle, Start(h) PROVE ActiveLent' /\ ActiveApart'
    BY <1>3, StartLent
  <1>4. ASSUME NEW h \in Handle, IsComplete(h) PROVE ActiveLent' /\ ActiveApart'
    BY <1>4, CompleteLent DEF IsComplete, Active
  <1>5. ASSUME NEW n \in Node, EndWait(n) PROVE ActiveLent' /\ ActiveApart'
    <2>1. waiting[n] \in Handle /\ Active(waiting[n]) /\ Complete(waiting[n])
      BY <1>2, <1>5 DEF EndWait, WaitsForOwn, HandleInv, TypeInv, TypeOK
    <2> QED
      BY <2>1, CompleteLent
  <1>6. ASSUME NEW h \in Handle, BeginWait(h) \/ Misuse(h) PROVE ActiveLent' /\ ActiveApart'
    <2>1. UNCHANGED handleVars /\ UNCHANGED mpiVars /\ lent' = lent
      BY <1>6 DEF BeginWait, Misuse, clientVars
    <2> QED
      BY <1>2, <2>1, SameHandles, KeepLent
  <1>7. ~(\E h, k \in Handle : WaitMember(h, k))
    BY DEF WaitMember, NoMemberWait
  <1>8. \/ \E h \in Handle : Start(h) \/ IsComplete(h) \/ BeginWait(h) \/ Misuse(h)
        \/ \E n \in Node : EndWait(n)
        \/ Untouched /\ lent' = lent
    BY <1>2, <1>7, QuietSteps DEF Next
  <1>9. ActiveLent' /\ ActiveApart'
    BY <1>2, <1>3, <1>4, <1>5, <1>6, <1>8, KeepLent
  <1> QED
    BY <1>1, <1>9 DEF LentInv

LEMMA LentInit == Init => LentInv
  <1> SUFFICES ASSUME Init PROVE LentInv
    OBVIOUS
  <1>1. CopyInv
    BY CopyInit
  <1>2. ActiveLent /\ ActiveApart
    BY DEF Init, ActiveLent, ActiveApart, Active, Live, Single, Multiple, Kinds, NoHandle
  <1> QED
    BY <1>1, <1>2 DEF LentInv

-----------------------------------------------------------------------------
(* The theorems *)

LEMMA CopyInvHolds == ASSUME NoReaddress PROVE Spec => []CopyInv
  <1>1. CopyInv /\ [Next]_vars => CopyInv'
    BY CopyNext
  <1> QED
    BY <1>1, CopyInit, PTL DEF Spec

\* If the program never calls QMP_change_address_multiple, the requests a multiple
\* starts are those of its members: no other call changes a member's request.
THEOREM MirrorsHold == ASSUME NoReaddress PROVE Spec => []ArrayMirrorsMembers
  <1>1. CopyInv => ArrayMirrorsMembers
    BY DEF CopyInv
  <1> QED
    BY <1>1, CopyInvHolds, PTL

\* If the program never calls QMP_change_address_multiple, activeP keeps QMP_start
\* from every erroneous MPI_Start: the requests it starts exist and are idle.
THEOREM MpiCallsAreLegal == ASSUME NoReaddress PROVE Spec => []NoMpiError
  <1>1. CopyInv => NoMpiError
    BY DEF CopyInv
  <1> QED
    BY <1>1, CopyInvHolds, PTL

\* The buffer of a request in use is a buffer of the active handle that carries it.
LEMMA LentInvSuffices == LentInv => BufferHandedBack
  <1> SUFFICES ASSUME LentInv, NEW r \in Req, InUse(r)
               PROVE  req[r].base \in lent[ROwner[r]]
    BY DEF BufferHandedBack
  <1>1. PICK h \in Handle : Active(h) /\ Carries(h, r)
    BY DEF LentInv, CopyInv, UseIsActive
  <1>2. PICK k \in Leaves(h) : request[k] = r
    BY <1>1 DEF Carries
  <1>3. k \in Handle /\ Single(k) /\ HOwner[k] = HOwner[h]
    BY <1>1, LeavesSingle DEF Active, LentInv, CopyInv
  <1>4. req[r].base = mh[k].base /\ ROwner[r] = HOwner[h]
    BY <1>2, <1>3 DEF LentInv, CopyInv, HandleInv, OwnInv, Owned, Describes
  <1>5. mh[k].base \in Bases(h)
    BY DEF Bases
  <1> QED
    BY <1>1, <1>4, <1>5 DEF LentInv, ActiveLent

\* If the program neither calls QMP_change_address_multiple nor waits for a member
\* of a multiple, the buffer of every request that MPI works on is one the program
\* knows to be in use: QMP_wait and QMP_is_complete never return a buffer early.
THEOREM BuffersHandedBack ==
  ASSUME NoReaddress, NoMemberWait PROVE Spec => []BufferHandedBack
  <1>1. LentInv /\ [Next]_vars => LentInv'
    BY LentNext
  <1> QED
    BY <1>1, LentInvSuffices, LentInit, PTL DEF Spec
-----------------------------------------------------------------------------
(* Channels and links *)

\* The channel c and the link l belong to one of the program's declare calls.
Fields(d)   == [type |-> d.kind, peer |-> Peer(d), axis |-> d.axis, dir |-> d.dir]
Fits(c, l)  == \E d \in Decls : /\ c = ChanOf(d.node, Fields(d))
                                /\ l = LinkOf(d.node, Fields(d))

\* Each individual handle was made by a declare call.
Declared ==
  \A h \in Handle : Single(h) =>
    \E d \in Decls : /\ d.node = HOwner[h] /\ d.kind = mh[h].type
                     /\ Peer(d) = mh[h].peer
                     /\ d.axis = mh[h].axis /\ d.dir = mh[h].dir

\* What MPI holds has a place in its channel, and was sent on a link that fits.
SentInPlace ==
  /\ \A r \in Req : req[r].st = "active" /\ req[r].kind = "send" =>
       req[r].seq \in DOMAIN sent[req[r].chan]
  /\ \A m \in wire : m.chan \in Chan /\ m.seq \in DOMAIN sent[m.chan]
  /\ \A r \in Req : req[r].st = "complete" /\ req[r].kind = "recv" =>
       req[r].seq \in DOMAIN sent[req[r].chan]
SentFits == \A c \in Chan : \A i \in DOMAIN sent[c] : Fits(c, sent[c][i].link)

LinkInv == HandleInv /\ Declared /\ SentInPlace /\ SentFits

\* Absolute messages have no direction, relative ones have one, and the program
\* declares relative messages between two nodes along one axis only: nodes are
\* neighbours along two axes only where both are one node wide (and the node its
\* own neighbour along each).
OneAxis ==
  /\ \A d \in Decls : \/ d.axis = -1 /\ d.dir = 0
                      \/ d.axis >= 0 /\ d.dir \in {-1, 1}
  /\ \A d, e \in Decls : d.axis >= 0 /\ e.axis >= 0
                         /\ {d.node, Peer(d)} = {e.node, Peer(e)} => d.axis = e.axis

-----------------------------------------------------------------------------
(* Places *)

\* The requests in use are on different places of their channels' sides.
Placed ==
  \A r \in Req : InUse(r) => req[r].seq \in 1 .. SideLen(req[r].chan, req[r].kind)
SameSide(r, q) == req[r].chan = req[q].chan /\ req[r].kind = req[q].kind
PlacedApart ==
  \A r, q \in Req : InUse(r) /\ InUse(q) /\ SameSide(r, q) /\ req[r].seq = req[q].seq
                      => r = q

\* The send in place i of channel c is active; its message is on the wire; the
\* receive in place i is active.
SendingAt(c, i) ==
  \E r \in Req : /\ req[r].st = "active" /\ req[r].kind = "send"
                 /\ req[r].chan = c /\ req[r].seq = i
FlyingAt(c, i)  == \E m \in wire : m.chan = c /\ m.seq = i
AwaitedAt(c, i) ==
  \E r \in Req : /\ req[r].st = "active" /\ req[r].kind = "recv"
                 /\ req[r].chan = c /\ req[r].seq = i

\* What was sent and has not arrived is with its sender or on the wire, not both
\* and not twice; a posted receive is active until what was sent to it arrives.
SentOnce ==
  \A m \in wire : /\ ~SendingAt(m.chan, m.seq)
                  /\ \A w \in wire : w.chan = m.chan /\ w.seq = m.seq => w = m
Awaited  ==
  \A c \in Chan : \A i \in 1 .. Len(posted[c]) :
    i > Len(sent[c]) \/ SendingAt(c, i) \/ FlyingAt(c, i) => AwaitedAt(c, i)

PlaceInv == Placed /\ PlacedApart /\ SentOnce /\ Awaited
MatchInv == LinkInv /\ CopyInv /\ PlaceInv

-----------------------------------------------------------------------------
(* Data *)

\* The members of a multiple have different buffers.
MembersApart ==
  \A h \in Handle : \A j, k \in chain[h] : j # k => mh[j].base # mh[k].base

\* The buffer of a send that MPI still reads is as it was at QMP_start.
SendKept ==
  \A r \in Req : req[r].st = "active" /\ req[r].kind = "send" =>
    mem[ROwner[r]][req[r].base] = sent[req[r].chan][req[r].seq].val

\* A message on the wire is what its place was started with.
WireCarries == \A m \in wire : m.val = sent[m.chan][m.seq].val

DataInv == /\ MatchInv /\ LentInv
           /\ MembersApart /\ SendKept /\ WireCarries /\ DataDelivered

-----------------------------------------------------------------------------
(* Every program: links *)

\* The channel and link of a handle structure follow from what a declare call set.
LEMMA FieldsDecide ==
  ASSUME NEW n \in Node, NEW m \in HandleRec, NEW d \in Decls,
         d.kind = m.type, Peer(d) = m.peer, d.axis = m.axis, d.dir = m.dir
  PROVE  ChanOf(n, m) = ChanOf(n, Fields(d)) /\ LinkOf(n, m) = LinkOf(n, Fields(d))
  BY DEF ChanOf, LinkOf, Fields

\* The tags of QMP tell two links between neighbours apart, whichever end declared
\* them: on a channel there is one link.
LEMMA OneLinkPerChannel ==
  ASSUME OneAxis, NEW c, NEW l1, NEW l2, Fits(c, l1), Fits(c, l2)
  PROVE  l1 = l2
  <1>1. PICK d \in Decls : c = ChanOf(d.node, Fields(d)) /\ l1 = LinkOf(d.node, Fields(d))
    BY DEF Fits
  <1>2. PICK e \in Decls : c = ChanOf(e.node, Fields(e)) /\ l2 = LinkOf(e.node, Fields(e))
    BY DEF Fits
  <1>3. d \in DeclCall /\ e \in DeclCall
    BY DeclAssumption
  <1>4. /\ d.kind \in Kinds /\ d.axis \in Int /\ d.dir \in {-1, 0, 1}
        /\ e.kind \in Kinds /\ e.axis \in Int /\ e.dir \in {-1, 0, 1}
    BY <1>3 DEF DeclCall
  <1> DEFINE dtag == IF d.kind = "send" THEN SendTag(d.axis, d.dir) ELSE RecvTag(d.axis, d.dir)
             etag == IF e.kind = "send" THEN SendTag(e.axis, e.dir) ELSE RecvTag(e.axis, e.dir)
             dpath == IF d.kind = "send" THEN <<d.node, Peer(d)>> ELSE <<Peer(d), d.node>>
             epath == IF e.kind = "send" THEN <<e.node, Peer(e)>> ELSE <<Peer(e), e.node>>
             dway == IF d.kind = "send" THEN d.dir ELSE -d.dir
             eway == IF e.kind = "send" THEN e.dir ELSE -e.dir
  <1>5. /\ c = <<dpath[1], dpath[2], dtag>> /\ l1 = <<dpath[1], dpath[2], d.axis, dway>>
        /\ c = <<epath[1], epath[2], etag>> /\ l2 = <<epath[1], epath[2], e.axis, eway>>
    BY <1>1, <1>2 DEF ChanOf, LinkOf, Fields
  <1>6. dpath[1] = epath[1] /\ dpath[2] = epath[2] /\ dtag = etag
    BY <1>5
  <1>7. {d.node, Peer(d)} = {e.node, Peer(e)}
    <2>1. {d.node, Peer(d)} = {dpath[1], dpath[2]} /\ {e.node, Peer(e)} = {epath[1], epath[2]}
      OBVIOUS
    <2> QED
      BY <1>6, <2>1
  <1>8. d.axis >= 0 <=> e.axis >= 0
    BY <1>4, <1>6 DEF OneAxis, SendTag, RecvTag, TAG_CHANNEL
  <1>9. d.axis = e.axis
    BY <1>7, <1>8 DEF OneAxis
  <1>10. dway = eway
    BY <1>4, <1>6, <1>9 DEF OneAxis, SendTag, RecvTag, TAG_CHANNEL
  <1> HIDE DEF dpath, epath, dway, eway, dtag, etag
  <1> QED
    BY <1>5, <1>6, <1>9, <1>10

\* A request MPI holds fits the declare call its handle was made by.
LEMMA RequestFits ==
  ASSUME HandleInv, Declared, NEW r \in Req, req[r].st # "free"
  PROVE  Fits(req[r].chan, req[r].link)
  <1>1. PICK h \in Handle : Single(h) /\ request[h] = r
    BY DEF HandleInv, OwnInv, NotLeaked
  <1>2. PICK d \in Decls : /\ d.node = HOwner[h] /\ d.kind = mh[h].type
                           /\ Peer(d) = mh[h].peer
                           /\ d.axis = mh[h].axis /\ d.dir = mh[h].dir
    BY <1>1 DEF Declared
  <1>3. /\ req[r].chan = ChanOf(HOwner[h], mh[h])
        /\ req[r].link = LinkOf(HOwner[h], mh[h])
    BY <1>1 DEF HandleInv, OwnInv, Owned, Describes
  <1>4. HOwner[h] \in Node /\ mh[h] \in HandleRec
    BY PoolAssumption DEF HandleInv, TypeInv, TypeOK
  <1>5. /\ ChanOf(HOwner[h], mh[h]) = ChanOf(d.node, Fields(d))
        /\ LinkOf(HOwner[h], mh[h]) = LinkOf(d.node, Fields(d))
    BY <1>2, <1>4, FieldsDecide
  <1> QED
    BY <1>3, <1>5 DEF Fits

\* Steps after which every individual handle still says what its declare call said.
LEMMA KeepDeclared ==
  ASSUME Declared,
         \A h \in Handle : Single(h)' =>
           /\ Single(h) /\ mh'[h].type = mh[h].type /\ mh'[h].peer = mh[h].peer
           /\ mh'[h].axis = mh[h].axis /\ mh'[h].dir = mh[h].dir
  PROVE  Declared'
  BY DEF Declared

\* Setting activeP leaves the rest of a handle.
LEMMA ActiveOnly ==
  ASSUME TypeInv, NEW h \in Handle, NEW a \in {0, 1}, mh' = [mh EXCEPT ![h].activeP = a],
         NEW k \in Handle
  PROVE  /\ mh'[k].type = mh[k].type /\ mh'[k].peer = mh[k].peer
         /\ mh'[k].axis = mh[k].axis /\ mh'[k].dir = mh[k].dir
         /\ mh'[k].base = mh[k].base
  <1>1. mh[k] \in HandleRec
    BY DEF TypeInv, TypeOK
  <1>2. CASE k # h
    BY <1>2 DEF TypeInv, TypeOK
  <1>3. CASE k = h
    <2>1. mh'[k] = [mh[k] EXCEPT !.activeP = a]
      BY <1>3 DEF TypeInv, TypeOK
    <2>2. mh'[k] = [type |-> mh[k].type, num |-> mh[k].num, activeP |-> a,
                    peer |-> mh[k].peer, axis |-> mh[k].axis, dir |-> mh[k].dir,
                    base |-> mh[k].base]
      BY <1>1, <2>1 DEF HandleRec
    <2> QED
      BY <2>2
  <1> QED
    BY <1>2, <1>3

\* Steps that bring no request into use and send nothing.
LEMMA KeepLinkInv ==
  ASSUME LinkInv, HandleInv', Declared', sent' = sent, wire' \subseteq wire,
         \A r \in Req : \/ req'[r].st \notin {"active", "complete"}
                        \/ req'[r] = req[r]
  PROVE  LinkInv'
  <1>1. SentInPlace'
    BY DEF LinkInv, SentInPlace
  <1>2. SentFits'
    BY DEF LinkInv, SentFits, Fits
  <1> QED
    BY <1>1, <1>2 DEF LinkInv

LEMMA InitLinkInv == Init => LinkInv
  <1> SUFFICES ASSUME Init PROVE LinkInv
    OBVIOUS
  <1>1. HandleInv
    BY InitHandleInv
  <1>2. Declared /\ SentInPlace /\ SentFits
    BY DEF Init, Declared, SentInPlace, SentFits, Single, Kinds, NoHandle, NoRequest
  <1> QED
    BY <1>1, <1>2 DEF LinkInv

LEMMA DeclareLinkInv ==
  ASSUME LinkInv, HandleInv', NEW h \in Handle, NEW d \in Decls, Declare(h, d)
  PROVE  LinkInv'
  <1> DEFINE m == [type |-> d.kind, num |-> 1, activeP |-> 0, peer |-> Peer(d),
                   axis |-> d.axis, dir |-> d.dir, base |-> d.base]
  <1>1. PICK r \in FreeReqs(d.node) :
          /\ mh' = [mh EXCEPT ![h] = m]
          /\ req' = [req EXCEPT ![r] = PersistentRequest(d.node, m)]
    BY DEF Declare
  <1>2. sent' = sent /\ wire' = wire /\ d.node = HOwner[h]
    BY DEF Declare
  <1>3. PersistentRequest(d.node, m).st = "inactive"
    BY DEF PersistentRequest
  <1>4. /\ mh'[h] = m
        /\ \A k \in Handle \ {h} : mh'[k] = mh[k]
    BY <1>1 DEF LinkInv, HandleInv, TypeInv, TypeOK
  <1>5. Declared'
    BY <1>2, <1>4 DEF LinkInv, Declared, Single
  <1> HIDE DEF m
  <1>6. \A q \in Req : \/ req'[q].st \notin {"active", "complete"}
                       \/ req'[q] = req[q]
    BY <1>1, <1>3 DEF LinkInv, HandleInv, TypeInv, TypeOK
  <1> QED
    BY <1>2, <1>5, <1>6, KeepLinkInv

LEMMA DeclareMultipleLinkInv ==
  ASSUME LinkInv, HandleInv', NEW h \in Handle, NEW S \in SUBSET Handle,
         DeclareMultiple(h, S)
  PROVE  LinkInv'
  <1> DEFINE K     == Splice(S)
             inner == {s \in S : Multiple(s)}
             top   == NewMultiple(K)
  <1>1. /\ mh' = [k \in Handle |-> CASE k = h -> top
                                     [] k \in K -> Mark(mh[k])
                                     [] k \in inner -> NoHandle
                                     [] OTHER -> mh[k]]
        /\ req' = req /\ sent' = sent /\ wire' = wire
    BY DEF DeclareMultiple, mpiVars
  <1>2. top.type = "multiple" /\ NoHandle.type = "free"
    BY DEF NewMultiple, NoHandle
  <1>3. \A k \in Handle :
          /\ Mark(mh[k]).type = mh[k].type /\ Mark(mh[k]).peer = mh[k].peer
          /\ Mark(mh[k]).axis = mh[k].axis /\ Mark(mh[k]).dir = mh[k].dir
    <2> SUFFICES ASSUME NEW k \in Handle
                 PROVE  /\ Mark(mh[k]).type = mh[k].type /\ Mark(mh[k]).peer = mh[k].peer
                        /\ Mark(mh[k]).axis = mh[k].axis /\ Mark(mh[k]).dir = mh[k].dir
      OBVIOUS
    <2>1. mh[k] \in HandleRec
      BY DEF LinkInv, HandleInv, TypeInv, TypeOK
    <2> QED
      BY <2>1, MarkType
  <1> HIDE DEF K, top, inner
  <1>4. \A k \in Handle : Single(k)' =>
           /\ Single(k) /\ mh'[k].type = mh[k].type /\ mh'[k].peer = mh[k].peer
           /\ mh'[k].axis = mh[k].axis /\ mh'[k].dir = mh[k].dir
    <2> SUFFICES ASSUME NEW k \in Handle, Single(k)'
                 PROVE  /\ Single(k) /\ mh'[k].type = mh[k].type /\ mh'[k].peer = mh[k].peer
                        /\ mh'[k].axis = mh[k].axis /\ mh'[k].dir = mh[k].dir
      OBVIOUS
    <2>1. \/ mh'[k] = top
          \/ mh'[k] = Mark(mh[k])
          \/ mh'[k] = NoHandle
          \/ mh'[k] = mh[k]
      BY <1>1
    <2> QED
      BY <1>2, <1>3, <2>1 DEF Single, Kinds
  <1>5. Declared'
    BY <1>4, KeepDeclared DEF LinkInv
  <1> QED
    BY <1>1, <1>5, KeepLinkInv

LEMMA FreeLinkInv ==
  ASSUME LinkInv, HandleInv', NEW h \in Handle, Free(h)
  PROVE  LinkInv'
  <1>1. /\ mh' = [k \in Handle |-> IF k \in Released(h) THEN NoHandle ELSE mh[k]]
        /\ req' = [r \in Req |-> IF \E k \in Leaves(h) : request[k] = r
                                 THEN NoRequest ELSE req[r]]
        /\ sent' = sent /\ wire' = wire
    BY DEF Free
  <1>2. Declared'
    BY <1>1, KeepDeclared DEF LinkInv, Single, NoHandle, Kinds
  <1> QED
    BY <1>1, <1>2, KeepLinkInv DEF NoRequest

LEMMA ChangeAddressLinkInv ==
  ASSUME LinkInv, HandleInv', NEW h \in Handle, NEW b \in Buf, ChangeAddress(h, b)
  PROVE  LinkInv'
  <1> DEFINE n == HOwner[h]
             m == [mh[h] EXCEPT !.base = b]
  <1>1. Single(h) /\ sent' = sent /\ wire' = wire
    BY DEF ChangeAddress
  <1>2. PICK r \in FreeReqs(n) \cup {request[h]} :
          /\ mh' = [mh EXCEPT ![h] = m]
          /\ req' = [[req EXCEPT ![request[h]] = NoRequest]
                       EXCEPT ![r] = PersistentRequest(n, m)]
    BY DEF ChangeAddress
  <1>3. /\ m.type = mh[h].type /\ m.peer = mh[h].peer
        /\ m.axis = mh[h].axis /\ m.dir = mh[h].dir
    <2>1. mh[h] \in HandleRec
      BY DEF LinkInv, HandleInv, TypeInv, TypeOK
    <2> QED
      BY <2>1, RebaseType
  <1>4. PersistentRequest(n, m).st = "inactive" /\ NoRequest.st = "free"
    BY DEF PersistentRequest, NoRequest
  <1> HIDE DEF m, n
  <1>5. mh'[h] = m /\ \A k \in Handle \ {h} : mh'[k] = mh[k]
    BY <1>2 DEF LinkInv, HandleInv, TypeInv, TypeOK
  <1>6. Declared'
    BY <1>1, <1>3, <1>5, KeepDeclared DEF LinkInv, Single
  <1>7. \A q \in Req : \/ req'[q].st \notin {"active", "complete"}
                       \/ req'[q] = req[q]
    BY <1>2, <1>4 DEF LinkInv, HandleInv, TypeInv, TypeOK
  <1> QED
    BY <1>1, <1>6, <1>7, KeepLinkInv

LEMMA ChangeAddressMultipleLinkInv ==
  ASSUME LinkInv, HandleInv', NEW h \in Handle, NEW addr \in [chain[h] -> Buf],
         ChangeAddressMultiple(h, addr)
  PROVE  LinkInv'
  <1> DEFINE n    == HOwner[h]
             m(k) == [mh[k] EXCEPT !.base = addr[k]]
             old  == {request[k] : k \in chain[h]}
  <1>1. sent' = sent /\ wire' = wire
    BY DEF ChangeAddressMultiple
  <1>2. PICK new \in [chain[h] -> FreeReqs(n) \cup old] :
          /\ mh' = [k \in Handle |-> IF k \in chain[h] THEN m(k) ELSE mh[k]]
          /\ req' = [r \in Req |->
                       IF \E k \in chain[h] : new[k] = r
                       THEN PersistentRequest(n,
                              m(CHOOSE k \in chain[h] : new[k] = r))
                       ELSE IF r \in old THEN NoRequest ELSE req[r]]
    BY DEF ChangeAddressMultiple
  <1>3. \A k \in Handle : k \in chain[h] =>
          /\ m(k).type = mh[k].type /\ m(k).peer = mh[k].peer
          /\ m(k).axis = mh[k].axis /\ m(k).dir = mh[k].dir
    <2> SUFFICES ASSUME NEW k \in Handle, k \in chain[h]
                 PROVE  /\ m(k).type = mh[k].type /\ m(k).peer = mh[k].peer
                        /\ m(k).axis = mh[k].axis /\ m(k).dir = mh[k].dir
      OBVIOUS
    <2>1. mh[k] \in HandleRec /\ addr[k] \in Buf
      BY DEF LinkInv, HandleInv, TypeInv, TypeOK
    <2> QED
      BY <2>1, RebaseType
  <1>4. \A k : PersistentRequest(n, m(k)).st = "inactive"
    BY DEF PersistentRequest
  <1>5. \A q \in Req : \/ req'[q].st \notin {"active", "complete"}
                       \/ req'[q] = req[q]
    BY <1>2, <1>4 DEF NoRequest
  <1>6. Declared'
    <2> HIDE DEF m
    <2>1. \A k \in Handle : mh'[k] = IF k \in chain[h] THEN m(k) ELSE mh[k]
      BY <1>2
    <2> QED
      BY <1>3, <2>1, KeepDeclared DEF LinkInv, Single
  <1> QED
    BY <1>1, <1>5, <1>6, KeepLinkInv

\* MPI_Start and MPI_Startall extend each side of a channel by the places they
\* give: an index of the longer side is an old one or the place of a request started.
LEMMA NewPlaces ==
  ASSUME NEW R \in SUBSET Req, PlaceEffect(R), NEW c \in Chan, NEW kind \in Kinds
  PROVE  /\ SideLen(c, kind) \in Nat /\ SideLen(c, kind)' \in Nat
         /\ SideLen(c, kind) <= SideLen(c, kind)'
         /\ \A r \in OnSide(R, c, kind) :
              req'[r].seq \in 1 .. SideLen(c, kind)' /\ req'[r].seq > SideLen(c, kind)
         /\ \A i \in 1 .. SideLen(c, kind)' :
              i <= SideLen(c, kind) \/ \E r \in OnSide(R, c, kind) : req'[r].seq = i
         /\ \A r, q \in OnSide(R, c, kind) : req'[r].seq = req'[q].seq => r = q
  <1> DEFINE S == OnSide(R, c, kind)
             l == SideLen(c, kind)
             n == Cardinality(S)
             t == SideLen(c, kind)'
  <1>1. /\ l \in Nat /\ n \in Nat /\ t = l + n
        /\ {req'[r].seq : r \in S} = l + 1 .. l + n
        /\ \A r, q \in S : req'[r].seq = req'[q].seq => r = q
    BY DEF PlaceEffect
  <1> HIDE DEF S, l, n, t
  <1>2. \A r \in S : req'[r].seq \in l + 1 .. l + n
    BY <1>1
  <1>3. \A r \in S : req'[r].seq \in 1 .. t /\ req'[r].seq > l
    BY <1>1, <1>2
  <1>4. \A i \in 1 .. t : i <= l \/ i \in l + 1 .. l + n
    BY <1>1
  <1>5. \A i \in 1 .. t : i <= l \/ \E r \in S : req'[r].seq = i
    BY <1>1, <1>4
  <1> QED
    BY <1>1, <1>3, <1>5 DEF S, l, n, t

LEMMA StartLinkInv ==
  ASSUME LinkInv, HandleInv', NEW h \in Handle, Start(h)
  PROVE  LinkInv'
  <1> DEFINE R == Reqs(h)
  <1>1. /\ Live(h) /\ mh' = [mh EXCEPT ![h].activeP = 1] /\ wire' = wire
        /\ \/ /\ \A r \in R : r # None /\ req[r].st = "inactive"
              /\ Post(R)
           \/ UNCHANGED <<req, sent, posted>>
    BY DEF Start
  <1>2. \A k \in Handle : /\ mh'[k].type = mh[k].type /\ mh'[k].peer = mh[k].peer
                          /\ mh'[k].axis = mh[k].axis /\ mh'[k].dir = mh[k].dir
    BY <1>1, ActiveOnly DEF LinkInv, HandleInv
  <1>3. Declared'
    BY <1>2, KeepDeclared DEF LinkInv, Single
  <1>4. CASE UNCHANGED <<req, sent, posted>>
    BY <1>1, <1>3, <1>4, KeepLinkInv
  <1>5. CASE /\ \A r \in R : r # None /\ req[r].st = "inactive"
             /\ Post(R)
    <2>1. R \in SUBSET Req
      BY <1>1, <1>5, ReqsInRange DEF LinkInv, HandleInv
    <2> HIDE DEF R
    <2>2. PostEffect(R) /\ PlaceEffect(R)
      BY <1>5, <2>1, PostHasEffect DEF LinkInv, HandleInv
    <2>3. \A c \in Chan : sent[c] \in Seq(SentRec) /\ sent'[c] \in Seq(SentRec)
      BY <2>2 DEF LinkInv, HandleInv, TypeInv, TypeOK, PostEffect
    <2>4. SentInPlace'
      <3>1. \A r \in R : /\ req'[r].st = "active" /\ req'[r].chan = req[r].chan
                         /\ req'[r].kind = req[r].kind
        BY <2>2 DEF PostEffect
      <3>2. \A r \in Req \ R : req'[r] = req[r]
        BY <2>2 DEF PostEffect
      <3>3. \A c \in Chan : DOMAIN sent[c] \subseteq DOMAIN sent'[c]
        BY <2>2 DEF PostEffect
      <3>4. \A r \in Req : req[r].st # "free" => req[r].chan \in Chan
        BY DEF LinkInv, HandleInv, TypeInv, RequestsFilled
      <3>5. \A r \in Req : req'[r].st = "active" /\ req'[r].kind = "send" =>
              req'[r].seq \in DOMAIN sent'[req'[r].chan]
        BY <2>2, <3>1, <3>2, <3>3, <3>4 DEF LinkInv, SentInPlace, PostEffect
      <3>6. \A m \in wire' : m.chan \in Chan /\ m.seq \in DOMAIN sent'[m.chan]
        BY <1>1, <3>3 DEF LinkInv, SentInPlace
      <3>7. \A r \in Req : req'[r].st = "complete" /\ req'[r].kind = "recv" =>
              req'[r].seq \in DOMAIN sent'[req'[r].chan]
        BY <3>1, <3>2, <3>3, <3>4 DEF LinkInv, SentInPlace
      <3> QED
        BY <3>5, <3>6, <3>7 DEF SentInPlace
    <2>5. ASSUME NEW c \in Chan, NEW i \in DOMAIN sent'[c]
          PROVE  Fits(c, sent'[c][i].link)
      <3>1. i \in 1 .. SideLen(c, "send")' /\ SideLen(c, "send") = Len(sent[c])
        BY <2>3 DEF SideLen
      <3>2. i <= Len(sent[c]) \/ \E r \in OnSide(R, c, "send") : req'[r].seq = i
        BY <2>1, <2>2, <3>1, NewPlaces DEF Kinds
      <3>3. CASE i <= Len(sent[c])
        <4>1. i \in DOMAIN sent[c]
          BY <2>3, <3>1, <3>3
        <4>2. sent'[c][i] = sent[c][i]
          BY <2>2, <4>1 DEF PostEffect
        <4> QED
          BY <4>1, <4>2 DEF LinkInv, SentFits
      <3>4. CASE \E r \in OnSide(R, c, "send") : req'[r].seq = i
        <4>1. PICK r \in R : req[r].chan = c /\ req[r].kind = "send" /\ req'[r].seq = i
          BY <3>4 DEF OnSide
        <4>2. sent'[c][i].link = req[r].link
          <5>1. sent'[c][i] = Entry(r)
            BY <2>2, <4>1 DEF PostEffect
          <5> QED
            BY <5>1 DEF Entry
        <4>3. Fits(req[r].chan, req[r].link)
          BY <1>5, <2>1, RequestFits DEF LinkInv
        <4> QED
          BY <4>1, <4>2, <4>3
      <3> QED
        BY <3>2, <3>3, <3>4
    <2>6. SentFits'
      BY <2>5 DEF SentFits, Fits
    <2> QED
      BY <1>3, <2>4, <2>6 DEF LinkInv
  <1> QED
    BY <1>1, <1>4, <1>5

LEMMA CompleteLinkInv ==
  ASSUME LinkInv, HandleInv', NEW h \in Handle, Complete(h)
  PROVE  LinkInv'
  <1>1. mh' = [mh EXCEPT ![h].activeP = 0] /\ sent' = sent /\ wire' = wire
    BY DEF Complete
  <1>2. \A k \in Handle : /\ mh'[k].type = mh[k].type /\ mh'[k].peer = mh[k].peer
                          /\ mh'[k].axis = mh[k].axis /\ mh'[k].dir = mh[k].dir
    BY <1>1, ActiveOnly DEF LinkInv, HandleInv
  <1>3. Declared'
    BY <1>2, KeepDeclared DEF LinkInv, Single
  <1>4. \A r \in Req : \/ req'[r].st \notin {"active", "complete"}
                       \/ req'[r] = req[r]
    BY CompleteHasEffect DEF CompleteEffect, LinkInv, HandleInv
  <1> QED
    BY <1>1, <1>3, <1>4, KeepLinkInv

LEMMA BufferLinkInv ==
  ASSUME LinkInv, HandleInv', NEW r \in Req, Buffer(r)
  PROVE  LinkInv'
  <1>1. /\ req[r].st = "active" /\ req[r].kind = "send"
        /\ wire' = wire \cup {[chan |-> req[r].chan, seq |-> req[r].seq,
                               val |-> mem[ROwner[r]][req[r].base],
                               link |-> req[r].link]}
        /\ req' = [req EXCEPT ![r] = Finished(r)]
        /\ UNCHANGED handleVars /\ sent' = sent
    BY DEF Buffer
  <1>2. /\ req[r] \in ReqRec /\ req[r].chan \in Chan
        /\ \A q \in Req \ {r} : req'[q] = req[q]
        /\ req'[r] = Finished(r)
    BY <1>1 DEF LinkInv, HandleInv, TypeInv, TypeOK, RequestsFilled
  <1>3. req'[r].st = "complete" /\ req'[r].kind = "send"
    BY <1>1, <1>2, FinishedType
  <1>4. req[r].seq \in DOMAIN sent[req[r].chan]
    BY <1>1 DEF LinkInv, SentInPlace
  <1>5. Declared'
    BY <1>1 DEF LinkInv, Declared, handleVars, Single
  <1>6. SentInPlace'
    BY <1>1, <1>2, <1>3, <1>4 DEF LinkInv, SentInPlace
  <1>7. SentFits'
    BY <1>1 DEF LinkInv, SentFits, Fits
  <1> QED
    BY <1>5, <1>6, <1>7 DEF LinkInv

LEMMA DeliverLinkInv ==
  ASSUME LinkInv, HandleInv', NEW m \in wire, NEW q \in Req, Deliver(m, q)
  PROVE  LinkInv'
  <1>1. /\ req[q].st = "active" /\ req[q].kind = "recv"
        /\ req[q].chan = m.chan /\ req[q].seq = m.seq
        /\ wire' = wire \ {m}
        /\ req' = [req EXCEPT ![q] = Finished(q)]
        /\ UNCHANGED handleVars /\ sent' = sent
    BY DEF Deliver
  <1>2. /\ req[q] \in ReqRec
        /\ \A r \in Req \ {q} : req'[r] = req[r]
        /\ req'[q] = Finished(q)
    BY <1>1 DEF LinkInv, HandleInv, TypeInv, TypeOK
  <1>3. /\ req'[q].st = "complete" /\ req'[q].kind = "recv"
        /\ req'[q].chan = req[q].chan /\ req'[q].seq = req[q].seq
    BY <1>1, <1>2, FinishedType
  <1>4. m.seq \in DOMAIN sent[m.chan]
    BY DEF LinkInv, SentInPlace
  <1>5. Declared'
    BY <1>1 DEF LinkInv, Declared, handleVars, Single
  <1>6. SentInPlace'
    BY <1>1, <1>2, <1>3, <1>4 DEF LinkInv, SentInPlace
  <1>7. SentFits'
    BY <1>1 DEF LinkInv, SentFits, Fits
  <1> QED
    BY <1>5, <1>6, <1>7 DEF LinkInv

LEMMA TransferLinkInv ==
  ASSUME LinkInv, HandleInv', NEW r \in Req, NEW q \in Req, Transfer(r, q)
  PROVE  LinkInv'
  <1>1. /\ req[r].st = "active" /\ req[r].kind = "send"
        /\ req[q].st = "active" /\ req[q].kind = "recv"
        /\ req[q].chan = req[r].chan /\ req[q].seq = req[r].seq
        /\ req' = [req EXCEPT ![r] = Finished(r), ![q] = Finished(q)]
        /\ UNCHANGED handleVars /\ sent' = sent /\ wire' = wire
    BY DEF Transfer
  <1>2. /\ req[q] \in ReqRec /\ req[r] \in ReqRec
        /\ \A p \in Req \ {r, q} : req'[p] = req[p]
        /\ req'[q] = Finished(q) /\ req'[r] = Finished(r)
    BY <1>1 DEF LinkInv, HandleInv, TypeInv, TypeOK
  <1>3. /\ req'[q].st = "complete" /\ req'[q].kind = "recv"
        /\ req'[q].chan = req[q].chan /\ req'[q].seq = req[q].seq
        /\ req'[r].st = "complete" /\ req'[r].kind = "send"
    BY <1>1, <1>2, FinishedType
  <1>4. req[r].seq \in DOMAIN sent[req[r].chan]
    BY <1>1 DEF LinkInv, SentInPlace
  <1>5. Declared'
    BY <1>1 DEF LinkInv, Declared, handleVars, Single
  <1>6. SentInPlace'
    <2>1. SentInPlace
      BY DEF LinkInv
    <2>2. \A p \in Req : \/ p = q \/ p = r \/ req'[p] = req[p]
      BY <1>2
    <2>3. \A p \in Req : req'[p].st = "active" /\ req'[p].kind = "send" =>
            req'[p].seq \in DOMAIN sent'[req'[p].chan]
      <3> TAKE p \in Req
      <3>1. CASE p \in {q, r}
        BY <1>3, <3>1
      <3>2. CASE p \notin {q, r}
        BY <1>1, <2>1, <2>2, <3>2 DEF SentInPlace
      <3> QED
        BY <3>1, <3>2
    <2>4. \A m \in wire' : m.chan \in Chan /\ m.seq \in DOMAIN sent'[m.chan]
      BY <1>1, <2>1 DEF SentInPlace
    <2>5. \A p \in Req : req'[p].st = "complete" /\ req'[p].kind = "recv" =>
            req'[p].seq \in DOMAIN sent'[req'[p].chan]
      <3> TAKE p \in Req
      <3>1. CASE p = q
        BY <1>1, <1>3, <1>4, <3>1
      <3>2. CASE p = r
        BY <1>3, <3>2
      <3>3. CASE p \notin {q, r}
        BY <1>1, <2>1, <2>2, <3>3 DEF SentInPlace
      <3> QED
        BY <3>1, <3>2, <3>3
    <2> QED
      BY <2>3, <2>4, <2>5 DEF SentInPlace
  <1>7. SentFits'
    BY <1>1 DEF LinkInv, SentFits, Fits
  <1> QED
    BY <1>5, <1>6, <1>7 DEF LinkInv

\* Steps that change neither the declarations nor what MPI holds.
LEMMA SameLinkInv ==
  ASSUME LinkInv, HandleInv', UNCHANGED <<handleVars, mpiVars>>
  PROVE  LinkInv'
  <1>1. Declared'
    BY DEF LinkInv, Declared, handleVars, Single
  <1> QED
    BY <1>1, KeepLinkInv DEF mpiVars

LEMMA LinkNext == LinkInv /\ [Next]_vars => LinkInv'
  <1> SUFFICES ASSUME LinkInv, [Next]_vars PROVE LinkInv'
    OBVIOUS
  <1>1. HandleInv'
    BY NextHandleInv DEF LinkInv
  <1>2. ASSUME NEW h \in Handle, NEW d \in Decls, Declare(h, d) PROVE LinkInv'
    BY <1>1, <1>2, DeclareLinkInv
  <1>3. ASSUME NEW h \in Handle, NEW S \in SUBSET {k \in Handle : Live(k)},
               DeclareMultiple(h, S)
        PROVE  LinkInv'
    BY <1>1, <1>3, DeclareMultipleLinkInv
  <1>4. ASSUME NEW h \in Handle, Free(h) PROVE LinkInv'
    BY <1>1, <1>4, FreeLinkInv
  <1>5. ASSUME NEW h \in Handle, NEW b \in Buf, ChangeAddress(h, b) PROVE LinkInv'
    BY <1>1, <1>5, ChangeAddressLinkInv
  <1>6. ASSUME NEW h \in Handle, NEW addr \in [chain[h] -> Buf],
               ChangeAddressMultiple(h, addr)
        PROVE  LinkInv'
    BY <1>1, <1>6, ChangeAddressMultipleLinkInv
  <1>7. ASSUME NEW h \in Handle, Start(h) PROVE LinkInv'
    BY <1>1, <1>7, StartLinkInv
  <1>8. ASSUME NEW h \in Handle, IsComplete(h) PROVE LinkInv'
    BY <1>1, <1>8, CompleteLinkInv DEF IsComplete
  <1>9. ASSUME NEW n \in Node, EndWait(n) PROVE LinkInv'
    <2>1. waiting[n] \in Handle /\ Complete(waiting[n])
      BY <1>9 DEF EndWait, LinkInv, HandleInv, TypeInv, TypeOK
    <2> QED
      BY <1>1, <2>1, CompleteLinkInv
  <1>10. ASSUME \/ \E h \in Handle : BeginWait(h) \/ Misuse(h)
                \/ \E h, k \in Handle : WaitMember(h, k)
                \/ \E n \in Node, b \in Buf, v \in Data : Write(n, b, v)
                \/ UNCHANGED vars
         PROVE  LinkInv'
    BY <1>1, <1>10, SameLinkInv DEF BeginWait, Misuse, WaitMember, Write, vars
  <1>11. ASSUME Progress PROVE LinkInv'
    BY <1>1, <1>11, BufferLinkInv, DeliverLinkInv, TransferLinkInv DEF Progress
  <1> QED
    BY <1>2, <1>3, <1>4, <1>5, <1>6, <1>7, <1>8, <1>9, <1>10, <1>11 DEF Next

\* Whatever calls the program makes, unless it uses two axes that are both one node
\* wide, a receive completes only with a message sent for its direction: the two tags
\* of a pair of neighbours, even when it is the same node on either side, never mix up
\* the forward and the backward message.
THEOREM DirectionsKept == ASSUME OneAxis PROVE Spec => []RightDirection
  <1>1. LinkInv => RightDirection
    <2> SUFFICES ASSUME LinkInv, NEW r \in Req,
                        req[r].st = "complete", req[r].kind = "recv"
                 PROVE  sent[req[r].chan][req[r].seq].link = req[r].link
      BY DEF RightDirection
    <2>1. req[r].chan \in Chan /\ req[r].seq \in DOMAIN sent[req[r].chan]
      BY DEF LinkInv, HandleInv, TypeInv, RequestsFilled, SentInPlace
    <2>2. Fits(req[r].chan, sent[req[r].chan][req[r].seq].link)
      BY <2>1 DEF LinkInv, SentFits
    <2>3. Fits(req[r].chan, req[r].link)
      BY RequestFits DEF LinkInv
    <2> QED
      BY <2>2, <2>3, OneLinkPerChannel
  <1> QED
    BY <1>1, InitLinkInv, LinkNext, PTL DEF Spec

-----------------------------------------------------------------------------
(* Programs that never call QMP_change_address_multiple: places *)

\* A step that starts nothing, completes nothing and leaves what MPI works on.
Settled ==
  /\ \A r \in Req : InUse(r)' => req'[r] = req[r]
  /\ \A r \in Req : req[r].st = "active" => req'[r] = req[r]
  /\ UNCHANGED <<sent, posted, wire>>

LEMMA KeepPlaceInv ==
  ASSUME PlaceInv, Settled
  PROVE  PlaceInv'
  <1>1. \A r \in Req : InUse(r)' => InUse(r) /\ req'[r] = req[r]
    BY DEF Settled, InUse
  <1>2. \A c, kind : SideLen(c, kind)' = SideLen(c, kind)
    BY DEF Settled, SideLen
  <1>3. Placed' /\ PlacedApart'
    BY <1>1, <1>2 DEF PlaceInv, Placed, PlacedApart, SameSide
  <1>4. \A c, i : SendingAt(c, i)' => SendingAt(c, i)
    BY <1>1 DEF SendingAt, InUse
  <1>5. \A c, i : AwaitedAt(c, i) => AwaitedAt(c, i)'
    BY DEF Settled, AwaitedAt
  <1>6. \A c, i : FlyingAt(c, i)' <=> FlyingAt(c, i)
    BY DEF Settled, FlyingAt
  <1>7. SentOnce'
    BY <1>4 DEF PlaceInv, SentOnce, Settled
  <1>8. Awaited'
    BY <1>4, <1>5, <1>6 DEF PlaceInv, Awaited, Settled
  <1> QED
    BY <1>3, <1>7, <1>8 DEF PlaceInv

\* MPI works on none of the requests of an idle handle.
LEMMA IdleRequests ==
  ASSUME CopyInv, NEW h \in Handle, Live(h), mh[h].num # 0, mh[h].activeP = 0,
         NEW r \in Req, Carries(h, r)
  PROVE  ~InUse(r)
  <1> SUFFICES ASSUME InUse(r) PROVE FALSE
    OBVIOUS
  <1>1. PICK p \in Handle : Active(p) /\ Carries(p, r)
    BY DEF CopyInv, UseIsActive
  <1>2. p # h /\ Live(p)
    BY <1>1 DEF Active
  <1> QED
    BY <1>1, <1>2, CarriedApart DEF CopyInv

LEMMA QuietSettled ==
  ASSUME NoReaddress, CopyInv,
         \/ \E h \in Handle, d \in Decls : Declare(h, d)
         \/ \E h \in Handle : \E S \in SUBSET {k \in Handle : Live(k)} : DeclareMultiple(h, S)
         \/ \E h \in Handle : Free(h)
         \/ \E h \in Handle, b \in Buf : ChangeAddress(h, b)
         \/ \E h \in Handle : \E addr \in [chain[h] -> Buf] : ChangeAddressMultiple(h, addr)
         \/ \E h \in Handle : BeginWait(h) \/ Misuse(h)
         \/ \E h, k \in Handle : WaitMember(h, k)
         \/ \E n \in Node, b \in Buf, v \in Data : Write(n, b, v)
         \/ UNCHANGED vars
  PROVE  Settled
  <1>1. ASSUME UNCHANGED mpiVars PROVE Settled
    BY <1>1 DEF mpiVars, Settled, InUse
  <1>2. ASSUME NEW h \in Handle, NEW d \in Decls, Declare(h, d) PROVE Settled
    <2> DEFINE m == [type |-> d.kind, num |-> 1, activeP |-> 0, peer |-> Peer(d),
                     axis |-> d.axis, dir |-> d.dir, base |-> d.base]
    <2>1. PICK r \in FreeReqs(d.node) : req' = [req EXCEPT ![r] = PersistentRequest(d.node, m)]
      BY <1>2 DEF Declare
    <2>2. PersistentRequest(d.node, m).st = "inactive"
      BY DEF PersistentRequest
    <2>3. r \in Req /\ req[r].st = "free"
      BY DEF FreeReqs
    <2> HIDE DEF m
    <2>4. req'[r].st = "inactive" /\ \A q \in Req \ {r} : req'[q] = req[q]
      BY <2>1, <2>2, <2>3 DEF CopyInv, HandleInv, TypeInv, TypeOK
    <2>5. UNCHANGED <<sent, posted, wire>>
      BY <1>2 DEF Declare
    <2> QED
      BY <2>3, <2>4, <2>5 DEF Settled, InUse
  <1>3. ASSUME NEW h \in Handle, Free(h) PROVE Settled
    <2>1. /\ Live(h) /\ mh[h].num # 0 /\ mh[h].activeP = 0
          /\ req' = [r \in Req |-> IF \E k \in Leaves(h) : request[k] = r
                                   THEN NoRequest ELSE req[r]]
          /\ UNCHANGED <<sent, posted, wire>>
      BY <1>3 DEF Free
    <2>2. \A r \in Req : Carries(h, r) => ~InUse(r)
      BY <2>1, IdleRequests
    <2>3. \A r \in Req : req'[r] = IF Carries(h, r) THEN NoRequest ELSE req[r]
      BY <2>1 DEF Carries
    <2> QED
      BY <2>1, <2>2, <2>3 DEF Settled, InUse, NoRequest
  <1>4. ASSUME NEW h \in Handle, NEW b \in Buf, ChangeAddress(h, b) PROVE Settled
    <2> DEFINE n == HOwner[h]
               m == [mh[h] EXCEPT !.base = b]
    <2>1. Single(h) /\ mh[h].num # 0 /\ mh[h].activeP = 0 /\ UNCHANGED <<sent, posted, wire>>
      BY <1>4 DEF ChangeAddress
    <2>2. PICK r \in FreeReqs(n) \cup {request[h]} :
            req' = [[req EXCEPT ![request[h]] = NoRequest]
                      EXCEPT ![r] = PersistentRequest(n, m)]
      BY <1>4 DEF ChangeAddress
    <2>3. PersistentRequest(n, m).st = "inactive" /\ NoRequest.st = "free"
      BY DEF PersistentRequest, NoRequest
    <2>4. Live(h) /\ Leaves(h) = {h} /\ request[h] \in Req
      BY <2>1 DEF Live, Leaves, Single, Multiple, Kinds, CopyInv, HandleInv, TypeInv, SinglesFilled
    <2>5. ~InUse(request[h])
      BY <2>1, <2>4, IdleRequests DEF Carries
    <2>6. r \in Req /\ ~InUse(r)
      BY <2>4, <2>5 DEF FreeReqs, InUse
    <2> HIDE DEF m, n
    <2>7. /\ req'[r].st = "inactive"
          /\ r # request[h] => req'[request[h]].st = "free"
          /\ \A q \in Req \ {r, request[h]} : req'[q] = req[q]
      BY <2>2, <2>3, <2>4, <2>6 DEF CopyInv, HandleInv, TypeInv, TypeOK
    <2> QED
      BY <2>1, <2>4, <2>5, <2>6, <2>7 DEF Settled, InUse
  <1>5. ASSUME NEW h \in Handle, NEW S, DeclareMultiple(h, S) PROVE Settled
    BY <1>1, <1>5 DEF DeclareMultiple
  <1>6. ~(\E h \in Handle : \E addr \in [chain[h] -> Buf] : ChangeAddressMultiple(h, addr))
    BY DEF NoReaddress, ChangeAddressMultiple
  <1>7. ASSUME \/ \E h \in Handle : BeginWait(h) \/ Misuse(h)
               \/ \E h, k \in Handle : WaitMember(h, k)
               \/ \E n \in Node, b \in Buf, v \in Data : Write(n, b, v)
               \/ UNCHANGED vars
        PROVE  Settled
    BY <1>1, <1>7 DEF BeginWait, Misuse, WaitMember, Write, vars
  <1> QED
    BY <1>2, <1>3, <1>4, <1>5, <1>6, <1>7

LEMMA CompleteSettled ==
  ASSUME CopyInv, NEW h \in Handle, Complete(h)
  PROVE  Settled
  <1>1. CompleteEffect(h)
    BY CompleteHasEffect DEF CopyInv, HandleInv
  <1>2. UNCHANGED <<sent, posted, wire>>
    BY DEF Complete
  <1> QED
    BY <1>1, <1>2 DEF CompleteEffect, Settled, InUse

LEMMA StartPlaceInv ==
  ASSUME MatchInv, NEW h \in Handle, Start(h)
  PROVE  PlaceInv'
  <1> DEFINE R == Reqs(h)
  <1>1. (\A r \in R : r # None /\ req[r].st = "inactive") /\ Post(R)
    BY StartIsClean DEF MatchInv
  <1>2. R \in SUBSET Req
    BY <1>1, ReqsInRange DEF Start, MatchInv, CopyInv, HandleInv
  <1>3. wire' = wire
    BY DEF Start
  <1> HIDE DEF R
  <1>4. PostEffect(R) /\ PlaceEffect(R)
    BY <1>1, <1>2, PostHasEffect DEF MatchInv, CopyInv, HandleInv
  <1>5. /\ \A r \in Req \ R : req'[r] = req[r]
        /\ \A r \in R : /\ req[r].st = "inactive" /\ req'[r].st = "active"
                        /\ req'[r].kind = req[r].kind /\ req'[r].chan = req[r].chan
    BY <1>1, <1>4 DEF PostEffect
  <1>6. \A r \in Req : req[r].st # "free" => req[r].chan \in Chan /\ req[r].kind \in Kinds
    BY DEF MatchInv, LinkInv, HandleInv, TypeInv, RequestsFilled
  <1>7. ASSUME NEW r \in R, NEW c, NEW kind, c = req[r].chan, kind = req[r].kind
        PROVE  /\ c \in Chan /\ kind \in Kinds /\ r \in OnSide(R, c, kind)
               /\ req'[r].seq \in 1 .. SideLen(c, kind)'
               /\ req'[r].seq > SideLen(c, kind)
    <2>1. c \in Chan /\ kind \in Kinds /\ r \in OnSide(R, c, kind)
      BY <1>2, <1>5, <1>6, <1>7 DEF OnSide
    <2> QED
      BY <1>2, <1>4, <2>1, NewPlaces
  <1>8. \A c \in Chan, kind \in Kinds :
          /\ SideLen(c, kind) \in Nat /\ SideLen(c, kind)' \in Nat
          /\ SideLen(c, kind) <= SideLen(c, kind)'
    BY <1>2, <1>4, NewPlaces
  <1>9. \A r \in Req \ R : InUse(r)' =>
          /\ InUse(r) /\ req'[r] = req[r]
          /\ req[r].chan \in Chan /\ req[r].kind \in Kinds
          /\ req[r].seq \in 1 .. SideLen(req[r].chan, req[r].kind)
    BY <1>5, <1>6 DEF InUse, MatchInv, PlaceInv, Placed
  <1>10. Placed'
    <2> SUFFICES ASSUME NEW r \in Req, InUse(r)',
                        NEW c, NEW kind, c = req'[r].chan, kind = req'[r].kind
                 PROVE  req'[r].seq \in 1 .. SideLen(c, kind)'
      BY DEF Placed, SideLen
    <2>1. CASE r \in R
      BY <1>5, <1>7, <2>1
    <2>2. CASE r \notin R
      BY <1>8, <1>9, <2>2
    <2> QED
      BY <2>1, <2>2
  <1>11. PlacedApart'
    <2> SUFFICES ASSUME NEW r \in Req, NEW q \in Req, InUse(r)', InUse(q)',
                        req'[r].chan = req'[q].chan, req'[r].kind = req'[q].kind,
                        req'[r].seq = req'[q].seq
                 PROVE  r = q
      BY DEF PlacedApart, SameSide
    <2>1. CASE r \in R /\ q \in R
      <3>1. /\ req[r].chan \in Chan /\ req[r].kind \in Kinds
            /\ r \in OnSide(R, req[r].chan, req[r].kind)
            /\ q \in OnSide(R, req[r].chan, req[r].kind)
        BY <1>5, <1>7, <2>1
      <3> QED
        BY <1>2, <1>4, <3>1, NewPlaces
    <2>2. CASE r \in R /\ q \notin R
      BY <1>5, <1>7, <1>8, <1>9, <2>2
    <2>3. CASE r \notin R /\ q \in R
      BY <1>5, <1>7, <1>8, <1>9, <2>3
    <2>4. CASE r \notin R /\ q \notin R
      BY <1>9, <2>4 DEF MatchInv, PlaceInv, PlacedApart, SameSide
    <2> QED
      BY <2>1, <2>2, <2>3, <2>4
  <1>12. \A c \in Chan, i \in Nat : SendingAt(c, i)' => SendingAt(c, i) \/ i > Len(sent[c])
    <2> SUFFICES ASSUME NEW c \in Chan, NEW i \in Nat, NEW r \in Req,
                        req'[r].st = "active", req'[r].kind = "send",
                        req'[r].chan = c, req'[r].seq = i
                 PROVE  SendingAt(c, i) \/ i > Len(sent[c])
      BY DEF SendingAt
    <2>1. CASE r \in R
      BY <1>5, <1>7, <2>1 DEF SideLen
    <2>2. CASE r \notin R
      BY <1>5, <2>2 DEF SendingAt
    <2> QED
      BY <2>1, <2>2
  <1>13. \A m \in wire : m.chan \in Chan /\ m.seq \in Nat /\ m.seq <= Len(sent[m.chan])
    <2> SUFFICES ASSUME NEW m \in wire
                 PROVE  m.chan \in Chan /\ m.seq \in Nat /\ m.seq <= Len(sent[m.chan])
      OBVIOUS
    <2>1. m.chan \in Chan /\ m.seq \in DOMAIN sent[m.chan]
      BY DEF MatchInv, LinkInv, SentInPlace
    <2>2. sent[m.chan] \in Seq(SentRec)
      BY <2>1 DEF MatchInv, LinkInv, HandleInv, TypeInv, TypeOK
    <2> QED
      BY <2>1, <2>2
  <1>14. \A c \in Chan : Len(sent[c]) \in Nat /\ Len(sent'[c]) \in Nat
                         /\ Len(sent[c]) <= Len(sent'[c])
    BY <1>8 DEF SideLen, Kinds
  <1>15. SentOnce'
    <2> SUFFICES ASSUME NEW m \in wire, SendingAt(m.chan, m.seq)' PROVE FALSE
      BY <1>3 DEF MatchInv, PlaceInv, SentOnce
    <2>1. ~SendingAt(m.chan, m.seq)
      BY DEF MatchInv, PlaceInv, SentOnce
    <2> QED
      BY <1>12, <1>13, <1>14, <2>1
  <1>16. Awaited'
    <2> SUFFICES ASSUME NEW c \in Chan, NEW i \in 1 .. Len(posted'[c]),
                        i > Len(sent'[c]) \/ SendingAt(c, i)' \/ FlyingAt(c, i)'
                 PROVE  AwaitedAt(c, i)'
      BY DEF Awaited
    <2>1. /\ Len(posted[c]) \in Nat /\ Len(posted'[c]) \in Nat
          /\ i <= Len(posted[c]) \/ \E r \in OnSide(R, c, "recv") : req'[r].seq = i
      <3>1. SideLen(c, "recv") = Len(posted[c]) /\ SideLen(c, "recv")' = Len(posted'[c])
        BY DEF SideLen
      <3>2. "recv" \in Kinds
        BY DEF Kinds
      <3> QED
        BY <1>2, <1>4, <3>1, <3>2, NewPlaces
    <2>2. CASE \E r \in OnSide(R, c, "recv") : req'[r].seq = i
      BY <1>2, <1>5, <2>2 DEF OnSide, AwaitedAt
    <2>3. CASE i <= Len(posted[c])
      <3>1. i > Len(sent[c]) \/ SendingAt(c, i) \/ FlyingAt(c, i)
        BY <1>3, <1>12, <1>14, <2>1 DEF FlyingAt
      <3>2. AwaitedAt(c, i)
        BY <2>1, <2>3, <3>1 DEF MatchInv, PlaceInv, Awaited
      <3> QED
        BY <1>5, <3>2 DEF AwaitedAt
    <2> QED
      BY <2>1, <2>2, <2>3
  <1> QED
    BY <1>10, <1>11, <1>15, <1>16 DEF PlaceInv

LEMMA BufferPlaceInv ==
  ASSUME MatchInv, NEW r \in Req, Buffer(r)
  PROVE  PlaceInv'
  <1> DEFINE new == [chan |-> req[r].chan, seq |-> req[r].seq,
                     val |-> mem[ROwner[r]][req[r].base], link |-> req[r].link]
             c == req[r].chan
             i == req[r].seq
  <1>1. /\ req[r].st = "active" /\ req[r].kind = "send"
        /\ wire' = wire \cup {new}
        /\ req' = [req EXCEPT ![r] = Finished(r)]
        /\ UNCHANGED <<sent, posted>>
    BY DEF Buffer
  <1>2. /\ req[r] \in ReqRec
        /\ \A q \in Req \ {r} : req'[q] = req[q]
        /\ req'[r] = Finished(r)
    BY <1>1 DEF MatchInv, LinkInv, HandleInv, TypeInv, TypeOK
  <1>3. /\ req'[r].st = "complete" /\ req'[r].kind = "send"
        /\ req'[r].chan = req[r].chan /\ req'[r].seq = req[r].seq
    BY <1>1, <1>2, FinishedType
  <1>4. new.chan = c /\ new.seq = i
    OBVIOUS
  <1>5. SendingAt(c, i)
    BY <1>1 DEF SendingAt
  <1> HIDE DEF new, c, i
  <1>6. \A q \in Req : /\ InUse(q)' => InUse(q)
                       /\ req'[q].chan = req[q].chan /\ req'[q].kind = req[q].kind
                       /\ req'[q].seq = req[q].seq
    BY <1>1, <1>2, <1>3 DEF InUse
  <1>7. Placed'
    BY <1>1, <1>6 DEF MatchInv, PlaceInv, Placed, SideLen
  <1>8. PlacedApart'
    BY <1>6 DEF MatchInv, PlaceInv, PlacedApart, SameSide
  <1>9. \A d, j : SendingAt(d, j)' => SendingAt(d, j) /\ (d # c \/ j # i)
    <2> SUFFICES ASSUME NEW q \in Req, req'[q].st = "active", req'[q].kind = "send"
                 PROVE  /\ req[q].st = "active" /\ req[q].kind = "send"
                        /\ req'[q].chan = req[q].chan /\ req'[q].seq = req[q].seq
                        /\ req[q].chan # c \/ req[q].seq # i
      BY DEF SendingAt
    <2>1. q # r /\ req'[q] = req[q]
      BY <1>2, <1>3
    <2> QED
      BY <1>1, <2>1 DEF MatchInv, PlaceInv, PlacedApart, SameSide, InUse, c, i
  <1>10. \A m \in wire : m.chan # c \/ m.seq # i
    BY <1>5 DEF MatchInv, PlaceInv, SentOnce
  <1>11. SentOnce'
    <2> SUFFICES ASSUME NEW m \in wire'
                 PROVE  /\ ~SendingAt(m.chan, m.seq)'
                        /\ \A w \in wire' : w.chan = m.chan /\ w.seq = m.seq => w = m
      BY DEF SentOnce
    <2>1. CASE m \in wire
      BY <1>1, <1>4, <1>9, <1>10, <2>1 DEF MatchInv, PlaceInv, SentOnce
    <2>2. CASE m = new
      BY <1>1, <1>4, <1>9, <1>10, <2>2
    <2> QED
      BY <1>1, <2>1, <2>2
  <1>12. \A d, j : FlyingAt(d, j)' => FlyingAt(d, j) \/ SendingAt(d, j)
    BY <1>1, <1>4, <1>5 DEF FlyingAt
  <1>13. \A d, j : AwaitedAt(d, j) => AwaitedAt(d, j)'
    BY <1>1, <1>2 DEF AwaitedAt
  <1>14. Awaited'
    BY <1>1, <1>9, <1>12, <1>13 DEF MatchInv, PlaceInv, Awaited
  <1> QED
    BY <1>7, <1>8, <1>11, <1>14 DEF PlaceInv

\* The receive q in place i of channel c has its data: nothing is under way to that
\* place any more, and nothing else is changed.
LEMMA ArrivePlaceInv ==
  ASSUME MatchInv, NEW q \in Req, req[q].st = "active", req[q].kind = "recv",
         NEW c, NEW i, c = req[q].chan, i = req[q].seq,
         i \in DOMAIN sent[c],
         ~SendingAt(c, i)', ~FlyingAt(c, i)',
         \A r \in Req : /\ InUse(r)' => InUse(r)
                        /\ req'[r].chan = req[r].chan /\ req'[r].kind = req[r].kind
                        /\ req'[r].seq = req[r].seq
                        /\ req'[r].st = "active" => req[r].st = "active"
                        /\ r # q /\ req[r].kind = "recv" => req'[r] = req[r],
         wire' \subseteq wire, UNCHANGED <<sent, posted>>
  PROVE  PlaceInv'
  <1>1. Placed'
    BY DEF MatchInv, PlaceInv, Placed, SideLen
  <1>2. PlacedApart'
    BY DEF MatchInv, PlaceInv, PlacedApart, SameSide
  <1>3. \A d, j : SendingAt(d, j)' => SendingAt(d, j)
    BY DEF SendingAt
  <1>4. SentOnce'
    BY <1>3 DEF MatchInv, PlaceInv, SentOnce
  <1>5. \A d, j : FlyingAt(d, j)' => FlyingAt(d, j)
    BY DEF FlyingAt
  <1>6. \A d, j : AwaitedAt(d, j) => AwaitedAt(d, j)' \/ (d = c /\ j = i)
    BY DEF AwaitedAt
  <1>7. c \in Chan /\ i <= Len(sent[c])
    <2>1. c \in Chan /\ sent[c] \in Seq(SentRec)
      BY DEF MatchInv, LinkInv, HandleInv, TypeInv, TypeOK, RequestsFilled
    <2> QED
      BY <2>1
  <1>8. Awaited'
    <2> SUFFICES ASSUME NEW d \in Chan, NEW j \in 1 .. Len(posted'[d]),
                        j > Len(sent'[d]) \/ SendingAt(d, j)' \/ FlyingAt(d, j)'
                 PROVE  AwaitedAt(d, j)'
      BY DEF Awaited
    <2>1. AwaitedAt(d, j)
      BY <1>3, <1>5 DEF MatchInv, PlaceInv, Awaited
    <2>2. Len(sent[d]) \in Nat /\ j \in Nat
      BY DEF MatchInv, LinkInv, HandleInv, TypeInv, TypeOK
    <2>3. ~(d = c /\ j = i)
      BY <1>7, <2>2
    <2> QED
      BY <1>6, <2>1, <2>3
  <1> QED
    BY <1>1, <1>2, <1>4, <1>8 DEF PlaceInv

LEMMA DeliverPlaceInv ==
  ASSUME MatchInv, NEW m \in wire, NEW q \in Req, Deliver(m, q)
  PROVE  PlaceInv'
  <1>1. /\ req[q].st = "active" /\ req[q].kind = "recv"
        /\ req[q].chan = m.chan /\ req[q].seq = m.seq
        /\ wire' = wire \ {m}
        /\ req' = [req EXCEPT ![q] = Finished(q)]
        /\ UNCHANGED <<sent, posted>>
    BY DEF Deliver
  <1>2. /\ req[q] \in ReqRec
        /\ \A r \in Req \ {q} : req'[r] = req[r]
        /\ req'[q] = Finished(q)
    BY <1>1 DEF MatchInv, LinkInv, HandleInv, TypeInv, TypeOK
  <1>3. /\ req'[q].st = "complete" /\ req'[q].kind = "recv"
        /\ req'[q].chan = req[q].chan /\ req'[q].seq = req[q].seq
    BY <1>1, <1>2, FinishedType
  <1>4. m.seq \in DOMAIN sent[m.chan]
    BY DEF MatchInv, LinkInv, SentInPlace
  <1>5. ~FlyingAt(m.chan, m.seq)'
    BY <1>1 DEF FlyingAt, MatchInv, PlaceInv, SentOnce
  <1>6. ~SendingAt(m.chan, m.seq)'
    <2>1. ~SendingAt(m.chan, m.seq)
      BY DEF MatchInv, PlaceInv, SentOnce
    <2> QED
      BY <1>2, <1>3, <2>1 DEF SendingAt
  <1>7. \A r \in Req : /\ InUse(r)' => InUse(r)
                       /\ req'[r].chan = req[r].chan /\ req'[r].kind = req[r].kind
                       /\ req'[r].seq = req[r].seq
                       /\ req'[r].st = "active" => req[r].st = "active"
                       /\ r # q /\ req[r].kind = "recv" => req'[r] = req[r]
    BY <1>1, <1>2, <1>3 DEF InUse
  <1> QED
    BY <1>1, <1>4, <1>5, <1>6, <1>7, ArrivePlaceInv

LEMMA TransferPlaceInv ==
  ASSUME MatchInv, NEW r \in Req, NEW q \in Req, Transfer(r, q)
  PROVE  PlaceInv'
  <1> SUFFICES ASSUME NEW c, NEW i, c = req[r].chan, i = req[r].seq
               PROVE  PlaceInv'
    OBVIOUS
  <1>1. /\ req[r].st = "active" /\ req[r].kind = "send"
        /\ req[q].st = "active" /\ req[q].kind = "recv"
        /\ req[q].chan = req[r].chan /\ req[q].seq = req[r].seq
        /\ req' = [req EXCEPT ![r] = Finished(r), ![q] = Finished(q)]
        /\ UNCHANGED <<sent, posted>> /\ wire' = wire
    BY DEF Transfer
  <1>2. /\ req[q] \in ReqRec /\ req[r] \in ReqRec
        /\ \A p \in Req \ {r, q} : req'[p] = req[p]
        /\ req'[q] = Finished(q) /\ req'[r] = Finished(r)
    BY <1>1 DEF MatchInv, LinkInv, HandleInv, TypeInv, TypeOK
  <1>3. \A p \in {r, q} : /\ req'[p].st = "complete" /\ req'[p].kind = req[p].kind
                          /\ req'[p].chan = req[p].chan /\ req'[p].seq = req[p].seq
    BY <1>1, <1>2, FinishedType
  <1>4. i \in DOMAIN sent[c]
    BY <1>1 DEF MatchInv, LinkInv, SentInPlace
  <1>5. SendingAt(c, i)
    BY <1>1 DEF SendingAt
  <1>6. ~FlyingAt(c, i)'
    BY <1>1, <1>5 DEF FlyingAt, MatchInv, PlaceInv, SentOnce
  <1>7. ~SendingAt(c, i)'
    <2> SUFFICES ASSUME NEW p \in Req, req'[p].st = "active", req'[p].kind = "send",
                        req'[p].chan = c, req'[p].seq = i
                 PROVE  FALSE
      BY DEF SendingAt
    <2>1. p \notin {r, q} /\ req'[p] = req[p]
      BY <1>2, <1>3
    <2> QED
      BY <1>1, <2>1 DEF MatchInv, PlaceInv, PlacedApart, SameSide, InUse
  <1>8. \A p \in Req : /\ InUse(p)' => InUse(p)
                       /\ req'[p].chan = req[p].chan /\ req'[p].kind = req[p].kind
                       /\ req'[p].seq = req[p].seq
                       /\ req'[p].st = "active" => req[p].st = "active"
                       /\ p # q /\ req[p].kind = "recv" => req'[p] = req[p]
    <2> TAKE p \in Req
    <2>1. CASE p \in {r, q}
      BY <1>1, <1>3, <2>1 DEF InUse
    <2>2. CASE p \notin {r, q}
      <3>1. req'[p] = req[p]
        BY <1>2, <2>2
      <3> QED
        BY <3>1 DEF InUse
    <2> QED
      BY <2>1, <2>2
  <1> QED
    BY <1>1, <1>4, <1>6, <1>7, <1>8, ArrivePlaceInv

LEMMA InitMatchInv == Init => MatchInv
  <1> SUFFICES ASSUME Init PROVE MatchInv
    OBVIOUS
  <1>1. LinkInv /\ CopyInv
    BY InitLinkInv, CopyInit
  <1>2. Placed /\ PlacedApart /\ SentOnce /\ Awaited
    BY DEF Init, NoRequest, InUse, Placed, PlacedApart, SentOnce, Awaited
  <1> QED
    BY <1>1, <1>2 DEF MatchInv, PlaceInv

LEMMA MatchNext == ASSUME NoReaddress, MatchInv, [Next]_vars PROVE MatchInv'
  <1>1. LinkInv' /\ CopyInv'
    BY LinkNext, CopyNext DEF MatchInv
  <1>2. ASSUME NEW h \in Handle, Start(h) PROVE PlaceInv'
    BY <1>2, StartPlaceInv
  <1>3. ASSUME NEW h \in Handle, IsComplete(h) PROVE Settled
    BY <1>3, CompleteSettled DEF IsComplete, MatchInv
  <1>4. ASSUME NEW n \in Node, EndWait(n) PROVE Settled
    <2>1. waiting[n] \in Handle /\ Complete(waiting[n])
      BY <1>4 DEF EndWait, MatchInv, LinkInv, HandleInv, TypeInv, TypeOK
    <2> QED
      BY <2>1, CompleteSettled DEF MatchInv
  <1>5. ASSUME Progress PROVE PlaceInv'
    BY <1>5, BufferPlaceInv, DeliverPlaceInv, TransferPlaceInv DEF Progress
  <1>6. \/ \E h \in Handle : Start(h) \/ IsComplete(h)
        \/ \E n \in Node : EndWait(n)
        \/ Progress
        \/ Settled
    BY QuietSteps, QuietSettled DEF Next, MatchInv
  <1>7. PlaceInv'
    BY <1>2, <1>3, <1>4, <1>5, <1>6, KeepPlaceInv DEF MatchInv
  <1> QED
    BY <1>1, <1>7 DEF MatchInv

LEMMA MatchInvHolds == ASSUME NoReaddress PROVE Spec => []MatchInv
  <1>1. MatchInv /\ [Next]_vars => MatchInv'
    BY MatchNext
  <1> QED
    BY <1>1, InitMatchInv, PTL DEF Spec

\* If the program never calls QMP_change_address_multiple, MPI is left with no message
\* on a channel whose sends and receives are as many and all over: QMP pairs what
\* it starts, loses nothing and delivers nothing twice.
THEOREM MessagesDrain == ASSUME NoReaddress PROVE Spec => []ChannelsDrain
  <1>1. MatchInv => ChannelsDrain
    <2> SUFFICES ASSUME MatchInv, NEW c \in Chan, Len(sent[c]) = Len(posted[c]),
                        \A r \in Req : req[r].chan = c => req[r].st # "active",
                        NEW m \in wire, m.chan = c
                 PROVE  FALSE
      BY DEF ChannelsDrain
    <2>1. m.seq \in DOMAIN sent[c] /\ sent[c] \in Seq(SentRec)
      BY DEF MatchInv, LinkInv, SentInPlace, HandleInv, TypeInv, TypeOK
    <2>2. m.seq \in 1 .. Len(posted[c]) /\ FlyingAt(c, m.seq)
      BY <2>1 DEF FlyingAt
    <2>3. AwaitedAt(c, m.seq)
      BY <2>2 DEF MatchInv, PlaceInv, Awaited
    <2> QED
      BY <2>3 DEF AwaitedAt
  <1> QED
    BY <1>1, MatchInvHolds, PTL

-----------------------------------------------------------------------------
(* Programs that use neither call: data *)

\* Requests in use by one process have different buffers.
LEMMA BuffersApart ==
  ASSUME LentInv, MembersApart, NEW r \in Req, NEW q \in Req, InUse(r), InUse(q),
         ROwner[r] = ROwner[q], req[r].base = req[q].base
  PROVE  r = q
  <1>1. PICK h \in Handle : Active(h) /\ Carries(h, r)
    BY DEF LentInv, CopyInv, UseIsActive
  <1>2. PICK p \in Handle : Active(p) /\ Carries(p, q)
    BY DEF LentInv, CopyInv, UseIsActive
  <1>3. PICK j \in Leaves(h) : request[j] = r
    BY <1>1 DEF Carries
  <1>4. PICK k \in Leaves(p) : request[k] = q
    BY <1>2 DEF Carries
  <1>5. /\ j \in Handle /\ Single(j) /\ HOwner[j] = HOwner[h]
        /\ k \in Handle /\ Single(k) /\ HOwner[k] = HOwner[p]
    BY <1>1, <1>2, <1>3, <1>4, LeavesSingle DEF Active, LentInv, CopyInv
  <1>6. /\ req[r].base = mh[j].base /\ ROwner[r] = HOwner[h]
        /\ req[q].base = mh[k].base /\ ROwner[q] = HOwner[p]
    BY <1>3, <1>4, <1>5 DEF LentInv, CopyInv, HandleInv, OwnInv, Owned, Describes
  <1>7. mh[j].base \in Bases(h) /\ mh[k].base \in Bases(p)
    BY DEF Bases
  <1>8. h = p
    BY <1>1, <1>2, <1>6, <1>7 DEF LentInv, ActiveApart
  <1>9. j = k
    BY <1>3, <1>4, <1>6, <1>8, ZenonT(60) DEF Leaves, MembersApart
  <1> QED
    BY <1>3, <1>4, <1>9

\* Steps that put no member on a list and give no member a new buffer.
LEMMA KeepMembersApart ==
  ASSUME MembersApart,
         \A h \in Handle : \A k \in Handle :
           k \in chain'[h] => k \in chain[h] /\ mh'[k].base = mh[k].base,
         chain' \in [Handle -> SUBSET Handle]
  PROVE  MembersApart'
  BY DEF MembersApart

LEMMA DeclareMultipleApart ==
  ASSUME HandleInv, HandleInv', MembersApart, NEW h \in Handle, NEW S \in SUBSET Handle,
         DeclareMultiple(h, S)
  PROVE  MembersApart'
  <1> DEFINE K     == Splice(S)
             inner == {s \in S : Multiple(s)}
  <1>1. /\ mh' = [k \in Handle |-> CASE k = h -> NewMultiple(K)
                                     [] k \in K -> Mark(mh[k])
                                     [] k \in inner -> NoHandle
                                     [] OTHER -> mh[k]]
        /\ chain' = [k \in Handle |-> IF k = h THEN K
                                      ELSE IF k \in inner THEN {} ELSE chain[k]]
        /\ mh[h].type = "free"
        /\ \A s \in S : Live(s) /\ (Multiple(s) \/ mh[s].num = 1)
        /\ \A j, k \in K : j # k => mh[j].base # mh[k].base
    BY DEF DeclareMultiple
  <1>2. /\ K \subseteq Handle /\ h \notin K /\ \A p \in Handle : h \notin chain[p]
        /\ \A k \in K : ~Multiple(k)
    BY <1>1, SpliceMembers DEF HandleInv
  <1>3. \A p \in Handle : \A k \in chain[p] : k \in Handle /\ ~Multiple(k)
    BY DEF HandleInv, TypeInv, TypeOK, Chained, Single, Multiple, Kinds
  <1>4. \A k \in Handle : Mark(mh[k]).base = mh[k].base
    <2> SUFFICES ASSUME NEW k \in Handle PROVE Mark(mh[k]).base = mh[k].base
      OBVIOUS
    <2>1. mh[k] \in HandleRec
      BY DEF HandleInv, TypeInv, TypeOK
    <2> QED
      BY <2>1, MarkType
  <1>5. \A k \in Handle : k # h /\ ~Multiple(k) => mh'[k].base = mh[k].base
    <2> SUFFICES ASSUME NEW k \in Handle, k # h, ~Multiple(k)
                 PROVE  mh'[k].base = mh[k].base
      OBVIOUS
    <2>1. k \notin inner
      OBVIOUS
    <2> HIDE DEF K, inner
    <2>2. mh'[k] = IF k \in K THEN Mark(mh[k]) ELSE mh[k]
      BY <1>1, <2>1
    <2> QED
      BY <1>4, <2>2
  <1> HIDE DEF K, inner
  <1>6. \A p \in Handle : \A j, k \in chain'[p] : j # k => mh'[j].base # mh'[k].base
    <2> SUFFICES ASSUME NEW p \in Handle, NEW j \in chain'[p], NEW k \in chain'[p], j # k
                 PROVE  mh'[j].base # mh'[k].base
      OBVIOUS
    <2>1. CASE p = h
      <3>1. j \in K /\ k \in K
        BY <1>1, <2>1
      <3>2. j \in Handle /\ k \in Handle /\ j # h /\ k # h /\ ~Multiple(j) /\ ~Multiple(k)
        BY <1>2, <3>1
      <3> QED
        BY <1>1, <1>5, <3>1, <3>2
    <2>2. CASE p # h
      <3>1. j \in chain[p] /\ k \in chain[p]
        BY <1>1, <2>2
      <3>2. j \in Handle /\ k \in Handle /\ j # h /\ k # h /\ ~Multiple(j) /\ ~Multiple(k)
        BY <1>2, <1>3, <3>1
      <3> QED
        BY <1>5, <3>1, <3>2 DEF MembersApart
    <2> QED
      BY <2>1, <2>2
  <1> QED
    BY <1>6 DEF MembersApart

LEMMA MembersApartNext ==
  ASSUME NoReaddress, HandleInv, HandleInv', MembersApart, [Next]_vars
  PROVE  MembersApart'
  <1>1. chain' \in [Handle -> SUBSET Handle]
    BY DEF HandleInv, TypeInv, TypeOK
  <1>2. \A p \in Handle : \A k \in chain[p] :
          k \in Handle /\ Single(k) /\ mh[k].num = 0
    BY DEF HandleInv, TypeInv, TypeOK, Chained
  <1>3. ASSUME UNCHANGED handleVars PROVE MembersApart'
    BY <1>1, <1>3, KeepMembersApart DEF handleVars
  <1>4. ASSUME NEW h \in Handle, NEW d \in Decls, Declare(h, d) PROVE MembersApart'
    <2>1. mh[h].type = "free" /\ chain' = chain
      BY <1>4 DEF Declare
    <2>2. \A k \in Handle \ {h} : mh'[k] = mh[k]
      BY <1>4 DEF Declare, HandleInv, TypeInv, TypeOK
    <2>3. \A p \in Handle : h \notin chain[p]
      BY <1>2, <2>1 DEF Single, Kinds
    <2> QED
      BY <1>1, <2>1, <2>2, <2>3, KeepMembersApart
  <1>5. ASSUME NEW h \in Handle, NEW S \in SUBSET {k \in Handle : Live(k)},
               DeclareMultiple(h, S)
        PROVE  MembersApart'
    BY <1>5, DeclareMultipleApart
  <1>6. ASSUME NEW h \in Handle, Free(h) PROVE MembersApart'
    <2>1. /\ mh[h].num # 0
          /\ mh' = [k \in Handle |-> IF k \in Released(h) THEN NoHandle ELSE mh[k]]
          /\ chain' = [chain EXCEPT ![h] = {}]
      BY <1>6 DEF Free
    <2>2. \A p \in Handle \ {h} : \A k \in chain[p] : k \notin Released(h)
      BY <1>2, <2>1 DEF Released, HandleInv, TypeInv, Chained
    <2>3. chain'[h] = {} /\ \A p \in Handle \ {h} : chain'[p] = chain[p]
      BY <2>1 DEF HandleInv, TypeInv, TypeOK
    <2> QED
      BY <1>1, <2>1, <2>2, <2>3, KeepMembersApart
  <1>7. ASSUME NEW h \in Handle, NEW b \in Buf, ChangeAddress(h, b) PROVE MembersApart'
    <2>1. mh[h].num # 0 /\ chain' = chain
      BY <1>7 DEF ChangeAddress
    <2>2. \A k \in Handle \ {h} : mh'[k] = mh[k]
      BY <1>7 DEF ChangeAddress, HandleInv, TypeInv, TypeOK
    <2>3. \A p \in Handle : h \notin chain[p]
      BY <1>2, <2>1
    <2> QED
      BY <1>1, <2>1, <2>2, <2>3, KeepMembersApart
  <1>8. ASSUME NEW h \in Handle, NEW a \in {0, 1}, mh' = [mh EXCEPT ![h].activeP = a],
               chain' = chain
        PROVE  MembersApart'
    <2>1. \A k \in Handle : mh'[k].base = mh[k].base
      BY <1>8, ActiveOnly DEF HandleInv
    <2> QED
      BY <1>1, <1>8, <2>1, KeepMembersApart
  <1>9. ASSUME NEW h \in Handle, Start(h) \/ IsComplete(h) PROVE MembersApart'
    BY <1>8, <1>9 DEF Start, IsComplete, Complete
  <1>10. ASSUME NEW n \in Node, EndWait(n) PROVE MembersApart'
    <2>1. waiting[n] \in Handle /\ Complete(waiting[n])
      BY <1>10 DEF EndWait, HandleInv, TypeInv, TypeOK
    <2> QED
      BY <1>8, <2>1 DEF Complete
  <1>11. ~(\E h \in Handle : \E addr \in [chain[h] -> Buf] : ChangeAddressMultiple(h, addr))
    BY DEF NoReaddress, ChangeAddressMultiple
  <1>12. ASSUME \/ \E h \in Handle : BeginWait(h) \/ Misuse(h)
                \/ \E h, k \in Handle : WaitMember(h, k)
                \/ \E n \in Node, b \in Buf, v \in Data : Write(n, b, v)
                \/ Progress
                \/ UNCHANGED vars
         PROVE  MembersApart'
    BY <1>3, <1>12 DEF BeginWait, Misuse, WaitMember, Write, vars, Progress,
                       Buffer, Deliver, Transfer
  <1> QED
    BY <1>4, <1>5, <1>6, <1>7, <1>9, <1>10, <1>11, <1>12 DEF Next

LEMMA KeepData ==
  ASSUME SendKept, WireCarries, DataDelivered, Settled,
         \A r \in Req : InUse(r) =>
           mem'[ROwner[r]][req[r].base] = mem[ROwner[r]][req[r].base]
  PROVE  SendKept' /\ WireCarries' /\ DataDelivered'
  <1>1. \A r \in Req : InUse(r)' => InUse(r) /\ req'[r] = req[r]
    BY DEF Settled, InUse
  <1>2. sent' = sent /\ wire' = wire
    BY DEF Settled
  <1>3. SendKept'
    BY <1>1, <1>2 DEF SendKept, InUse
  <1>4. WireCarries'
    BY <1>2 DEF WireCarries
  <1>5. DataDelivered'
    BY <1>1, <1>2 DEF DataDelivered, InUse
  <1> QED
    BY <1>3, <1>4, <1>5

LEMMA WriteData ==
  ASSUME NoReaddress, DataInv, NEW n \in Node, NEW b \in Buf, NEW v \in Data, Write(n, b, v)
  PROVE  SendKept' /\ WireCarries' /\ DataDelivered'
  <1>1. b \notin lent[n] /\ mem' = [mem EXCEPT ![n][b] = v]
    BY DEF Write
  <1>2. Settled
    BY QuietSettled DEF DataInv, MatchInv
  <1>3. ASSUME NEW r \in Req, InUse(r)
        PROVE  mem'[ROwner[r]][req[r].base] = mem[ROwner[r]][req[r].base]
    <2>1. req[r].base \in lent[ROwner[r]]
      BY <1>3, LentInvSuffices DEF DataInv, BufferHandedBack
    <2>2. mem \in [Node -> [Buf -> Data]]
      BY DEF DataInv, MatchInv, LinkInv, HandleInv, TypeInv, TypeOK
    <2>3. ROwner[r] \in Node /\ req[r].base \in Buf
      BY <1>3, PoolAssumption DEF DataInv, MatchInv, LinkInv, HandleInv, TypeInv,
                                  RequestsFilled, InUse
    <2>4. ROwner[r] # n \/ req[r].base # b
      BY <1>1, <2>1
    <2> QED
      BY <1>1, <2>2, <2>3, <2>4
  <1> QED
    BY <1>2, <1>3, KeepData DEF DataInv

LEMMA StartData ==
  ASSUME DataInv, NEW h \in Handle, Start(h)
  PROVE  SendKept' /\ WireCarries' /\ DataDelivered'
  <1> DEFINE R == Reqs(h)
  <1>1. (\A r \in R : r # None /\ req[r].st = "inactive") /\ Post(R)
    BY StartIsClean DEF DataInv, MatchInv
  <1>2. R \in SUBSET Req
    BY <1>1, ReqsInRange DEF Start, DataInv, MatchInv, CopyInv, HandleInv
  <1>3. wire' = wire /\ mem' = mem
    BY DEF Start
  <1> HIDE DEF R
  <1>4. PostEffect(R)
    BY <1>1, <1>2, PostHasEffect DEF DataInv, MatchInv, CopyInv, HandleInv
  <1>5. /\ \A r \in Req \ R : req'[r] = req[r]
        /\ \A r \in R : /\ req'[r].st = "active" /\ req'[r].kind = req[r].kind
                        /\ req'[r].chan = req[r].chan /\ req'[r].base = req[r].base
        /\ \A c \in Chan : \A i \in DOMAIN sent[c] : sent'[c][i] = sent[c][i]
    BY <1>4 DEF PostEffect
  <1>6. \A c \in Chan : DOMAIN sent[c] \subseteq DOMAIN sent'[c]
    BY <1>4 DEF PostEffect
  <1>7. \A r \in Req : req[r].st # "free" => req[r].chan \in Chan
    BY DEF DataInv, MatchInv, LinkInv, HandleInv, TypeInv, RequestsFilled
  <1>8. SendKept'
    <2> SUFFICES ASSUME NEW r \in Req, req'[r].st = "active", req'[r].kind = "send"
                 PROVE  mem'[ROwner[r]][req'[r].base] = sent'[req'[r].chan][req'[r].seq].val
      BY DEF SendKept
    <2>1. CASE r \in R
      <3>1. sent'[req[r].chan][req'[r].seq] = Entry(r)
        BY <1>4, <1>5, <2>1 DEF PostEffect
      <3>2. Entry(r).val = mem[ROwner[r]][req[r].base]
        BY DEF Entry
      <3> QED
        BY <1>3, <1>5, <2>1, <3>1, <3>2
    <2>2. CASE r \notin R
      <3>1. req'[r] = req[r] /\ req[r].chan \in Chan /\ req[r].seq \in DOMAIN sent[req[r].chan]
        BY <1>5, <1>7, <2>2 DEF DataInv, MatchInv, LinkInv, SentInPlace
      <3> QED
        BY <1>3, <1>5, <3>1 DEF DataInv, SendKept
    <2> QED
      BY <2>1, <2>2
  <1>9. WireCarries'
    BY <1>3, <1>5 DEF DataInv, MatchInv, LinkInv, SentInPlace, WireCarries
  <1>10. DataDelivered'
    <2> SUFFICES ASSUME NEW r \in Req, req'[r].st = "complete", req'[r].kind = "recv"
                 PROVE  /\ req'[r].seq \in DOMAIN sent'[req'[r].chan]
                        /\ mem'[ROwner[r]][req'[r].base]
                             = sent'[req'[r].chan][req'[r].seq].val
      BY DEF DataDelivered
    <2>1. req'[r] = req[r] /\ req[r].chan \in Chan
      BY <1>5, <1>7
    <2>2. /\ req[r].seq \in DOMAIN sent[req[r].chan]
          /\ mem[ROwner[r]][req[r].base] = sent[req[r].chan][req[r].seq].val
      BY <2>1 DEF DataInv, DataDelivered
    <2> QED
      BY <1>3, <1>5, <1>6, <2>1, <2>2
  <1> QED
    BY <1>8, <1>9, <1>10

LEMMA BufferData ==
  ASSUME DataInv, NEW r \in Req, Buffer(r)
  PROVE  SendKept' /\ WireCarries' /\ DataDelivered'
  <1>1. /\ req[r].st = "active" /\ req[r].kind = "send"
        /\ wire' = wire \cup {[chan |-> req[r].chan, seq |-> req[r].seq,
                               val |-> mem[ROwner[r]][req[r].base],
                               link |-> req[r].link]}
        /\ req' = [req EXCEPT ![r] = Finished(r)]
        /\ sent' = sent /\ mem' = mem
    BY DEF Buffer, clientVars
  <1>2. /\ req[r] \in ReqRec
        /\ \A q \in Req \ {r} : req'[q] = req[q]
        /\ req'[r] = Finished(r)
    BY <1>1 DEF DataInv, MatchInv, LinkInv, HandleInv, TypeInv, TypeOK
  <1>3. req'[r].st = "complete" /\ req'[r].kind = "send"
    BY <1>1, <1>2, FinishedType
  <1>4. SendKept' /\ DataDelivered'
    BY <1>1, <1>2, <1>3 DEF DataInv, SendKept, DataDelivered
  <1>5. WireCarries'
    BY <1>1 DEF DataInv, SendKept, WireCarries
  <1> QED
    BY <1>4, <1>5

\* The data of place i of channel c arrives in the buffer of the receive q.
LEMMA ArriveData ==
  ASSUME DataInv, NEW q \in Req, req[q].st = "active", req[q].kind = "recv",
         NEW c, NEW i, c = req[q].chan, i = req[q].seq,
         i \in DOMAIN sent[c],
         mem' = [mem EXCEPT ![ROwner[q]][req[q].base] = sent[c][i].val],
         req'[q].st = "complete", req'[q].chan = c, req'[q].seq = i,
         req'[q].base = req[q].base,
         \A r \in Req \ {q} : /\ req'[r].kind = "recv" => req'[r] = req[r]
                              /\ req'[r].st = "active" => req'[r] = req[r],
         wire' \subseteq wire, sent' = sent
  PROVE  SendKept' /\ WireCarries' /\ DataDelivered'
  <1>1. mem \in [Node -> [Buf -> Data]]
    BY DEF DataInv, MatchInv, LinkInv, HandleInv, TypeInv, TypeOK
  <1>2. \A r \in Req : InUse(r) => ROwner[r] \in Node /\ req[r].base \in Buf
    BY PoolAssumption DEF DataInv, MatchInv, LinkInv, HandleInv, TypeInv,
                          RequestsFilled, InUse
  <1>3. ASSUME NEW r \in Req \ {q}, InUse(r)
        PROVE  mem'[ROwner[r]][req[r].base] = mem[ROwner[r]][req[r].base]
    <2>1. InUse(q)
      BY DEF InUse
    <2>2. ROwner[r] # ROwner[q] \/ req[r].base # req[q].base
      BY <1>3, <2>1, BuffersApart DEF DataInv
    <2> QED
      BY <1>1, <1>2, <1>3, <2>1, <2>2
  <1>4. mem'[ROwner[q]][req[q].base] = sent[c][i].val
    BY <1>1, <1>2 DEF InUse
  <1>5. SendKept'
    <2> SUFFICES ASSUME NEW r \in Req, req'[r].st = "active", req'[r].kind = "send"
                 PROVE  mem'[ROwner[r]][req'[r].base] = sent'[req'[r].chan][req'[r].seq].val
      BY DEF SendKept
    <2>1. r # q /\ req'[r] = req[r] /\ InUse(r)
      BY DEF InUse
    <2>2. mem[ROwner[r]][req[r].base] = sent[req[r].chan][req[r].seq].val
      <3>1. SendKept
        BY DEF DataInv
      <3> QED
        BY <2>1, <3>1 DEF SendKept
    <2>3. mem'[ROwner[r]][req[r].base] = mem[ROwner[r]][req[r].base]
      BY <1>3, <2>1
    <2> QED
      BY <2>1, <2>2, <2>3
  <1>6. WireCarries'
    BY DEF DataInv, WireCarries
  <1>7. DataDelivered'
    <2> SUFFICES ASSUME NEW r \in Req, req'[r].st = "complete", req'[r].kind = "recv"
                 PROVE  /\ req'[r].seq \in DOMAIN sent'[req'[r].chan]
                        /\ mem'[ROwner[r]][req'[r].base]
                             = sent'[req'[r].chan][req'[r].seq].val
      BY DEF DataDelivered
    <2>1. CASE r = q
      BY <1>4, <2>1
    <2>2. CASE r # q
      <3>1. req'[r] = req[r] /\ InUse(r)
        BY <2>2 DEF InUse
      <3>2. DataDelivered
        BY DEF DataInv
      <3>3. /\ req[r].seq \in DOMAIN sent[req[r].chan]
            /\ mem[ROwner[r]][req[r].base] = sent[req[r].chan][req[r].seq].val
        BY <3>1, <3>2 DEF DataDelivered
      <3>4. mem'[ROwner[r]][req[r].base] = mem[ROwner[r]][req[r].base]
        BY <1>3, <2>2, <3>1
      <3> QED
        BY <3>1, <3>3, <3>4
    <2> QED
      BY <2>1, <2>2
  <1> QED
    BY <1>5, <1>6, <1>7

LEMMA DeliverData ==
  ASSUME DataInv, NEW m \in wire, NEW q \in Req, Deliver(m, q)
  PROVE  SendKept' /\ WireCarries' /\ DataDelivered'
  <1>1. /\ req[q].st = "active" /\ req[q].kind = "recv"
        /\ req[q].chan = m.chan /\ req[q].seq = m.seq
        /\ wire' = wire \ {m}
        /\ mem' = [mem EXCEPT ![ROwner[q]][req[q].base] = m.val]
        /\ req' = [req EXCEPT ![q] = Finished(q)]
        /\ sent' = sent
    BY DEF Deliver
  <1>2. /\ req[q] \in ReqRec
        /\ \A r \in Req \ {q} : req'[r] = req[r]
        /\ req'[q] = Finished(q)
    BY <1>1 DEF DataInv, MatchInv, LinkInv, HandleInv, TypeInv, TypeOK
  <1>3. /\ req'[q].st = "complete" /\ req'[q].chan = req[q].chan
        /\ req'[q].seq = req[q].seq /\ req'[q].base = req[q].base
    BY <1>1, <1>2, FinishedType
  <1>4. m.seq \in DOMAIN sent[m.chan] /\ m.val = sent[m.chan][m.seq].val
    BY DEF DataInv, MatchInv, LinkInv, SentInPlace, WireCarries
  <1>5. mem' = [mem EXCEPT ![ROwner[q]][req[q].base] = sent[m.chan][m.seq].val]
    BY <1>1, <1>4
  <1>6. wire' \subseteq wire
    BY <1>1
  <1>7. m.chan = req[q].chan /\ m.seq = req[q].seq /\ req'[q].chan = m.chan
        /\ req'[q].seq = m.seq
    BY <1>1, <1>3
  <1> QED
    BY <1>1, <1>2, <1>3, <1>4, <1>5, <1>6, <1>7, ArriveData

LEMMA TransferData ==
  ASSUME DataInv, NEW r \in Req, NEW q \in Req, Transfer(r, q)
  PROVE  SendKept' /\ WireCarries' /\ DataDelivered'
  <1> SUFFICES ASSUME NEW c, NEW i, c = req[r].chan, i = req[r].seq
               PROVE  SendKept' /\ WireCarries' /\ DataDelivered'
    OBVIOUS
  <1>1. /\ req[r].st = "active" /\ req[r].kind = "send"
        /\ req[q].st = "active" /\ req[q].kind = "recv"
        /\ req[q].chan = c /\ req[q].seq = i
        /\ mem' = [mem EXCEPT ![ROwner[q]][req[q].base] = mem[ROwner[r]][req[r].base]]
        /\ req' = [req EXCEPT ![r] = Finished(r), ![q] = Finished(q)]
        /\ sent' = sent /\ wire' = wire
    BY DEF Transfer
  <1>2. /\ req[q] \in ReqRec /\ req[r] \in ReqRec
        /\ \A p \in Req \ {r, q} : req'[p] = req[p]
        /\ req'[q] = Finished(q) /\ req'[r] = Finished(r)
    BY <1>1 DEF DataInv, MatchInv, LinkInv, HandleInv, TypeInv, TypeOK
  <1>3. /\ req'[q].st = "complete" /\ req'[q].chan = c
        /\ req'[q].seq = i /\ req'[q].base = req[q].base
        /\ req'[r].st = "complete" /\ req'[r].kind = "send"
    BY <1>1, <1>2, FinishedType
  <1>4. i \in DOMAIN sent[c] /\ mem[ROwner[r]][req[r].base] = sent[c][i].val
    BY <1>1 DEF DataInv, MatchInv, LinkInv, SentInPlace, SendKept
  <1>5. mem' = [mem EXCEPT ![ROwner[q]][req[q].base] = sent[c][i].val]
    BY <1>1, <1>4
  <1>6. \A p \in Req \ {q} : /\ req'[p].kind = "recv" => req'[p] = req[p]
                             /\ req'[p].st = "active" => req'[p] = req[p]
    BY <1>2, <1>3
  <1> QED
    BY <1>1, <1>3, <1>4, <1>5, <1>6, ArriveData

LEMMA InitDataInv == Init => DataInv
  <1> SUFFICES ASSUME Init PROVE DataInv
    OBVIOUS
  <1>1. MatchInv /\ LentInv
    BY InitMatchInv, LentInit
  <1>2. MembersApart /\ SendKept /\ WireCarries /\ DataDelivered
    BY DEF Init, NoRequest, MembersApart, SendKept, WireCarries, DataDelivered
  <1> QED
    BY <1>1, <1>2 DEF DataInv

LEMMA DataNext ==
  ASSUME NoReaddress, NoMemberWait, DataInv, [Next]_vars
  PROVE  DataInv'
  <1>1. MatchInv' /\ LentInv'
    BY MatchNext, LentNext DEF DataInv
  <1>2. HandleInv /\ HandleInv' /\ CopyInv
    BY <1>1 DEF DataInv, MatchInv, LinkInv
  <1>3. MembersApart'
    BY <1>2, MembersApartNext DEF DataInv
  <1> DEFINE Kept == SendKept' /\ WireCarries' /\ DataDelivered'
  <1>4. ASSUME NEW h \in Handle, Start(h) PROVE Kept
    BY <1>4, StartData
  <1>5. ASSUME Progress PROVE Kept
    BY <1>5, BufferData, DeliverData, TransferData DEF Progress
  <1>6. ASSUME NEW n \in Node, NEW b \in Buf, NEW v \in Data, Write(n, b, v) PROVE Kept
    BY <1>6, WriteData
  <1>7. ASSUME NEW h \in Handle, IsComplete(h) PROVE Settled /\ mem' = mem
    BY <1>2, <1>7, CompleteSettled DEF IsComplete, Complete
  <1>8. ASSUME NEW n \in Node, EndWait(n) PROVE Settled /\ mem' = mem
    <2>1. waiting[n] \in Handle /\ Complete(waiting[n])
      BY <1>2, <1>8 DEF EndWait, HandleInv, TypeInv, TypeOK
    <2> QED
      BY <1>2, <2>1, CompleteSettled DEF Complete
  <1>9. ASSUME \/ \E h \in Handle, d \in Decls : Declare(h, d)
               \/ \E h \in Handle : \E S \in SUBSET {k \in Handle : Live(k)} :
                    DeclareMultiple(h, S)
               \/ \E h \in Handle : Free(h)
               \/ \E h \in Handle, b \in Buf : ChangeAddress(h, b)
               \/ \E h \in Handle : \E addr \in [chain[h] -> Buf] :
                    ChangeAddressMultiple(h, addr)
               \/ \E h \in Handle : BeginWait(h) \/ Misuse(h)
               \/ \E h, k \in Handle : WaitMember(h, k)
               \/ UNCHANGED vars
        PROVE  Settled /\ mem' = mem
    <2>1. Settled
      BY <1>2, <1>9, QuietSettled
    <2>2. mem' = mem
      BY <1>9 DEF Declare, DeclareMultiple, Free, ChangeAddress, ChangeAddressMultiple,
                  BeginWait, Misuse, WaitMember, clientVars, vars
    <2> QED
      BY <2>1, <2>2
  <1>10. Settled /\ mem' = mem => Kept
    BY KeepData DEF DataInv
  <1> HIDE DEF Kept
  <1>11. Kept
    BY <1>4, <1>5, <1>6, <1>7, <1>8, <1>9, <1>10 DEF Next
  <1> QED
    BY <1>1, <1>3, <1>11 DEF DataInv, Kept

\* If the program neither calls QMP_change_address_multiple nor waits for a member
\* of a multiple, a completed receive has in its buffer what the send in its place of
\* the channel had in its own at QMP_start, whether MPI copied the message early,
\* held it on the way, or moved it when both sides were posted.
THEOREM DataArrives ==
  ASSUME NoReaddress, NoMemberWait PROVE Spec => []DataDelivered
  <1>1. DataInv /\ [Next]_vars => DataInv'
    BY DataNext
  <1>2. DataInv => DataDelivered
    BY DEF DataInv
  <1> QED
    BY <1>1, <1>2, InitDataInv, PTL DEF Spec

-----------------------------------------------------------------------------
(* Starting a multiple *)

\* Only QMP_start sets activeP.
LEMMA ActivatedByStart ==
  ASSUME HandleInv, [Next]_vars, NEW h \in Handle, mh[h].activeP = 0, mh'[h].activeP = 1
  PROVE  Start(h)
  <1>1. mh \in [Handle -> HandleRec] /\ NoHandle.activeP = 0
    BY DEF HandleInv, TypeInv, TypeOK, NoHandle
  <1>2. \A k \in Handle : mh[k] \in HandleRec /\ Mark(mh[k]).activeP = mh[k].activeP
    <2> SUFFICES ASSUME NEW k \in Handle
                 PROVE  mh[k] \in HandleRec /\ Mark(mh[k]).activeP = mh[k].activeP
      OBVIOUS
    <2>1. mh[k] \in HandleRec
      BY <1>1
    <2> QED
      BY <2>1, MarkType
  <1>3. ASSUME NEW k \in Handle, NEW b \in Buf
        PROVE  [mh[k] EXCEPT !.base = b].activeP = mh[k].activeP
    BY <1>2, RebaseType
  <1>4. ASSUME NEW k \in Handle, mh' = [mh EXCEPT ![k].activeP = 0] PROVE FALSE
    BY <1>1, <1>4
  <1>5. ASSUME NEW k \in Handle, NEW d \in Decls, Declare(k, d) PROVE FALSE
    BY <1>1, <1>5 DEF Declare
  <1>6. ASSUME NEW k \in Handle, NEW S \in SUBSET {j \in Handle : Live(j)},
               DeclareMultiple(k, S)
        PROVE  FALSE
    <2>1. \/ mh'[h] = NewMultiple(Splice(S))
          \/ mh'[h] = Mark(mh[h])
          \/ mh'[h] = NoHandle
          \/ mh'[h] = mh[h]
      BY <1>6 DEF DeclareMultiple
    <2> QED
      BY <1>1, <1>2, <2>1 DEF NewMultiple
  <1>7. ASSUME NEW k \in Handle, Free(k) PROVE FALSE
    BY <1>1, <1>7 DEF Free
  <1>8. ASSUME NEW k \in Handle, NEW b \in Buf, ChangeAddress(k, b) PROVE FALSE
    <2>1. mh' = [mh EXCEPT ![k] = [mh[k] EXCEPT !.base = b]]
      BY <1>8 DEF ChangeAddress
    <2> DEFINE m == [mh[h] EXCEPT !.base = b]
    <2>2. mh'[h] = mh[h] \/ mh'[h] = m
      BY <1>1, <2>1
    <2>3. m.activeP = mh[h].activeP
      BY <1>3
    <2> HIDE DEF m
    <2> QED
      BY <2>2, <2>3
  <1>9. ASSUME NEW k \in Handle, NEW addr \in [chain[k] -> Buf],
               ChangeAddressMultiple(k, addr)
        PROVE  FALSE
    <2>1. mh'[h] = IF h \in chain[k] THEN [mh[h] EXCEPT !.base = addr[h]] ELSE mh[h]
      BY <1>9 DEF ChangeAddressMultiple
    <2> QED
      BY <1>3, <2>1
  <1>10. ASSUME NEW k \in Handle, Start(k) PROVE k = h
    BY <1>1, <1>10 DEF Start
  <1>11. ASSUME NEW k \in Handle, IsComplete(k) PROVE FALSE
    BY <1>4, <1>11 DEF IsComplete, Complete
  <1>12. ASSUME NEW n \in Node, EndWait(n) PROVE FALSE
    <2>1. waiting[n] \in Handle /\ Complete(waiting[n])
      BY <1>12 DEF EndWait, HandleInv, TypeInv, TypeOK
    <2> QED
      BY <1>4, <2>1 DEF Complete
  <1>13. ~UNCHANGED handleVars
    BY DEF handleVars
  <1>14. ~(\E k \in Handle : BeginWait(k) \/ Misuse(k))
    BY <1>13 DEF BeginWait, Misuse
  <1>15. ~(\E k, j \in Handle : WaitMember(k, j))
    BY <1>13 DEF WaitMember
  <1>16. ~(\E n \in Node, b \in Buf, v \in Data : Write(n, b, v))
    BY <1>13 DEF Write
  <1>17. ~Progress
    BY <1>13 DEF Progress, Buffer, Deliver, Transfer
  <1>18. ~UNCHANGED vars
    BY <1>13 DEF vars
  <1> QED
    BY <1>5, <1>6, <1>7, <1>8, <1>9, <1>10, <1>11, <1>12,
       <1>14, <1>15, <1>16, <1>17, <1>18 DEF Next

\* If the program never calls QMP_change_address_multiple, the QMP_start of a multiple
\* makes the request of each of its members active.
THEOREM StartsMembers == ASSUME NoReaddress PROVE Spec => StartStartsMembers
  <1> DEFINE Starts == \A h \in Handle : Multiple(h) /\ mh[h].activeP = 0 /\ mh'[h].activeP = 1 =>
                         \A k \in chain[h] : req'[request[k]].st = "active"
  <1>1. CopyInv /\ [Next]_vars => [Starts]_vars
    <2> SUFFICES ASSUME CopyInv, [Next]_vars, NEW h \in Handle,
                        Multiple(h), mh[h].activeP = 0, mh'[h].activeP = 1,
                        NEW k \in chain[h]
                 PROVE  req'[request[k]].st = "active"
      OBVIOUS
    <2>1. Start(h)
      BY ActivatedByStart DEF CopyInv
    <2>2. (\A r \in Reqs(h) : r # None /\ req[r].st = "inactive") /\ Post(Reqs(h))
      BY <2>1, StartIsClean
    <2>3. Live(h) /\ Reqs(h) \subseteq Req
      BY <2>2, ReqsInRange DEF Live, CopyInv, HandleInv
    <2>4. PostEffect(Reqs(h))
      BY <2>2, <2>3, PostHasEffect DEF CopyInv, HandleInv
    <2>5. request[k] \in Reqs(h)
      BY <2>3, ReqsCarried DEF CopyInv, Leaves
    <2> QED
      BY <2>4, <2>5 DEF PostEffect
  <1> QED
    BY <1>1, CopyInvHolds, PTL DEF Spec, StartStartsMembers
=============================================================================
