---------------------------- MODULE ServerProofs ----------------------------
(***************************************************************************)
(* Theorems about module Server, for every set of clients, every number of *)
(* file descriptors and every bound on instances and responses: its types, *)
(* the ACKs of the accept thread, and the order of the responses.          *)
(***************************************************************************)
EXTENDS Server, SequenceTheorems, WellFoundedInduction, TLAPS

(***************************************************************************)
(* The order on responses (message.cpp:21-40) is one that                  *)
(* std::priority_queue accepts, and its top is what message.cpp:31-33      *)
(* promises.                                                               *)
(***************************************************************************)

\* operator< never holds between a response and itself.
THEOREM LessIrreflexive == ASSUME NEW r \in Response PROVE ~Less(r, r)
BY DEF Less, TieLess, Response

\* operator< is transitive.
THEOREM LessTransitive ==
  ASSUME NEW r \in Response, NEW s \in Response, NEW t \in Response,
         Less(r, s), Less(s, t)
  PROVE  Less(r, t)
BY DEF Less, TieLess, Response

\* operator> is the converse of operator<, and at most one of them holds.
THEOREM LessAsymmetric ==
  ASSUME NEW r \in Response, NEW s \in Response, Less(r, s)
  PROVE  Greater(s, r) /\ ~Less(s, r)
BY DEF Less, Greater, TieLess, Response

\* Two responses with different ids are always ordered: the weak ordering of
\* message.h:89 is a total one on responses that do not share an id.
THEOREM LessConnected ==
  ASSUME NEW r \in Response, NEW s \in Response, r.id # s.id
  PROVE  Less(r, s) \/ Less(s, r)
BY DEF Less, TieLess, Response

\* The response that the server takes from its queue has the highest priority, and
\* among the responses of that priority the lowest id.
THEOREM TopIsOldestOfHighestPriority ==
  ASSUME NEW Q \in SUBSET Response, NEW r \in Response, IsTop(r, Q),
         NEW s \in Q
  PROVE  /\ s.priority <= r.priority
         /\ s.priority = r.priority => r.id <= s.id
<1>1. ~Less(r, s)
  BY DEF IsTop
<1>2. s \in Response
  OBVIOUS
<1> QED
  BY <1>1, <1>2 DEF Less, TieLess, Response

\* The queue leaves the server no choice: when no two queued responses share an id,
\* only one of them can be at the top.
THEOREM TopIsUnique ==
  ASSUME NEW Q \in SUBSET Response,
         \A r, s \in Q : r.id = s.id => r = s,
         NEW r \in Q, NEW s \in Q, IsTop(r, Q), IsTop(s, Q)
  PROVE  r = s
<1>1. ~Less(r, s) /\ ~Less(s, r)
  BY DEF IsTop
<1>2. r \in Response /\ s \in Response
  OBVIOUS
<1>3. r.id = s.id
  BY <1>1, <1>2, LessConnected
<1> QED
  BY <1>3

(***************************************************************************)
(* The inductive invariant.                                                *)
(***************************************************************************)

\* The types of TypeOK, by the groups of variables that the actions leave unchanged
\* together.
FdTypes ==
  /\ peer \in [Clients -> {"new", "connected", "gone"}]
  /\ fdOwner \in [Fds -> Owner]

InterruptTypes == interrupt \subseteq {0, 1} /\ acks \in Nat

CollectionTypes ==
  /\ clients \in Seq(Fds) /\ newClients \in Seq(Fds)
  /\ clientMap \in Map(Fds) /\ creator \in Map(Clients) /\ nextId \in 0 .. MaxInstances

\* Responses are about instances that have been created.
QueueTypes == queue \subseteq Response /\ \A r \in queue : r.instance \in Instances

AcceptTypes == acceptPc \in {"poll", "push", "ack", "done"} /\ acceptFd \in Fds

\* The read thread scans slots that are in use.
ReadTypes ==
  /\ readPc \in {"poll", "blocked", "refresh", "scan", "assign", "request", "sweep", "done"}
  /\ waitfds \in Seq(Fds \union {-1}) /\ ready \subseteq DOMAIN waitfds
  /\ readFrom \in Owner /\ invalid \in Seq(Fds)
  /\ \A k \in ready : waitfds[k] # -1

WriteTypes ==
  /\ writePc \in {"wait", "lookup", "header", "body", "invalidate", "done"}
  /\ writeFd \in Fds /\ writeMsg \in Response
  /\ writePc \in {"lookup", "header", "body"} => writeMsg.instance \in Instances

UnmapTypes ==
  /\ unmapPc \in {"none", "header", "body", "erase"}
  /\ unmapFd \in Fds /\ unmapMsg \in Response
  /\ unmapPc # "none" => unmapMsg.instance \in Instances

CallerTypes ==
  /\ nextResponse \in 0 .. MaxResponses
  /\ announced \subseteq Instances
  /\ dtorPc \in {"none", "joining", "done"}

SendTypes ==
  wire \in [Clients -> SUBSET Instances] /\ writeFailed \in BOOLEAN /\ killed \in BOOLEAN

HistoryTypes == popped \in Seq(Response) /\ notified \subseteq Instances \X Instances

\* There is a slot and an id left when an instance is assigned.
AssignInv ==
  readPc = "assign" => ready # {} /\ nextId < MaxInstances /\ readFrom \in Clients

\* The threads are where they may be while clients_mutex_ is held.
HolderInv ==
  /\ clientsOwner \in {"none", "read", "write", "unmap"} /\ notifying \in BOOLEAN
  /\ clientsOwner = "read" => AtInvalidate("read")
  /\ clientsOwner = "write" => AtInvalidate("write")
  /\ clientsOwner = "unmap" <=> unmapPc # "none"

TypeInv ==
  /\ running \in BOOLEAN
  /\ FdTypes /\ InterruptTypes /\ CollectionTypes /\ QueueTypes
  /\ AcceptTypes /\ ReadTypes /\ WriteTypes /\ UnmapTypes /\ CallerTypes
  /\ SendTypes /\ HistoryTypes /\ AssignInv /\ HolderInv

\* The ACKs that are, or are about to be, in the receive buffer.
Acks == acks + (IF acceptPc = "ack" THEN 1 ELSE 0)

\* The accept thread pushes a client before it sends the ACK.  An ACK that the read
\* thread fails to receive stays, and that thread is done after one more refresh.
AckInv ==
  /\ readPc # "done" => Acks <= Len(newClients)
  /\ readPc = "refresh" => newClients # <<>>
  /\ running => Acks + (IF readPc = "refresh" THEN 1 ELSE 0) <= Len(newClients)

\* A response of the queue is a create response of its instance, which has priority, or
\* a forward response.
Kind(r) ==
  \/ r.verb = "create" /\ r.priority = 1
  \/ r.verb = "forward" /\ r.priority = 0

\* The ids of queued responses are drawn, and different.
IdInv ==
  /\ \A r \in queue : Kind(r) /\ r.id < nextResponse /\ r.instance \in announced
  /\ \A r, s \in queue : r.id = s.id => r = s

\* What has left the queue is older than what is in it, priority by priority, and no
\* create response is left behind by a forward response of its instance.
PoppedInv ==
  \A k \in DOMAIN popped :
    /\ popped[k].id < nextResponse /\ popped[k].instance \in announced
    /\ \A r \in queue :
         /\ popped[k].priority = r.priority => popped[k].id < r.id
         /\ ~(popped[k].verb = "forward" /\ r.verb = "create"
               /\ popped[k].instance = r.instance)

OrderInv == IdInv /\ PoppedInv /\ SentInOrder

(***************************************************************************)
(* Operators of the library and helpers of the model.                      *)
(***************************************************************************)

\* A nonempty set of natural numbers has a least element, and Min returns it.
LEMMA MinIsLeast ==
  ASSUME NEW S \in SUBSET Nat, S # {}
  PROVE  Min(S) \in S /\ \A y \in S : Min(S) <= y
<1> DEFINE R == {p \in Nat \X Nat : p[1] < p[2]}
<1>1. IsWellFoundedOn(R, Nat)
  BY NatLessThanWellFounded DEF OpToRel
<1>2. \E x \in S : \A y \in S : <<y, x>> \notin R
  <2> HIDE DEF R
  <2> QED
    BY <1>1, WFMin
<1>3. \A x, y \in Nat : <<y, x>> \notin R => x <= y
  OBVIOUS
<1>4. \E x \in S : \A y \in S : x <= y
  BY <1>2, <1>3
<1> QED
  BY <1>4 DEF Min

\* The first occurrence of an element is removed from a sequence.
LEMMA RemoveFirstType ==
  ASSUME NEW S, NEW s \in Seq(S), NEW e
  PROVE  RemoveFirst(s, e) \in Seq(S)
<1>1. CASE \E i \in 1 .. Len(s) : s[i] = e
  <2> DEFINE I == {i \in 1 .. Len(s) : s[i] = e}
  <2>1. I # {}
    BY <1>1
  <2>2. SelectInSeq(s, LAMBDA v : v = e) = Min(I)
    BY <2>1 DEF SelectInSeq
  <2>3. RemoveFirst(s, e) = RemoveAt(s, Min(I))
    BY <1>1, <2>2, Zenon DEF RemoveFirst
  <2>4. I \subseteq 1 .. Len(s) /\ I \subseteq Nat /\ Len(s) \in Nat
    BY LenProperties
  <2> HIDE DEF I
  <2>41. Min(I) \in 1 .. Len(s)
    BY <2>1, <2>4, MinIsLeast
  <2>5. \A j \in 1 .. Len(s) : s[j] \in S
    BY ElementOfSeq
  <2>6. SubSeq(s, 1, Min(I) - 1) \in Seq(S)
    BY <2>4, <2>41, <2>5, SubSeqProperties
  <2>7. SubSeq(s, Min(I) + 1, Len(s)) \in Seq(S)
    BY <2>4, <2>41, <2>5, SubSeqProperties
  <2> QED
    BY <2>3, <2>6, <2>7, ConcatProperties DEF RemoveAt
<1> QED
  BY <1>1 DEF RemoveFirst

\* A map of the type of client_map_ is a function on some of the instances.
LEMMA MapType ==
  ASSUME NEW S, NEW map \in Map(S)
  PROVE  /\ DOMAIN map \subseteq Instances
         /\ \A i \in DOMAIN map : map[i] \in S
BY DEF Map

\* The map of no instance.
LEMMA EmptyMap == ASSUME NEW S PROVE <<>> \in Map(S)
BY DEF Map

\* map::insert.
LEMMA ExtendedType ==
  ASSUME NEW S, NEW map \in Map(S), NEW i \in Instances, NEW v \in S
  PROVE  /\ Extended(map, i, v) \in Map(S)
         /\ DOMAIN Extended(map, i, v) = DOMAIN map \union {i}
         /\ Extended(map, i, v)[i] = v
         /\ \A j \in DOMAIN map : j # i => Extended(map, i, v)[j] = map[j]
<1>1. DOMAIN map \subseteq Instances /\ \A j \in DOMAIN map : map[j] \in S
  BY MapType
<1>2. Extended(map, i, v) \in [DOMAIN map \union {i} -> S]
  BY <1>1 DEF Extended
<1> QED
  BY <1>1, <1>2 DEF Extended, Map

\* map::erase.
LEMMA ErasedType ==
  ASSUME NEW S, NEW map \in Map(S), NEW i
  PROVE  /\ Erased(map, i) \in Map(S)
         /\ DOMAIN Erased(map, i) = DOMAIN map \ {i}
         /\ \A j \in DOMAIN Erased(map, i) : Erased(map, i)[j] = map[j]
<1>1. DOMAIN map \subseteq Instances /\ \A j \in DOMAIN map : map[j] \in S
  BY MapType
<1>2. Erased(map, i) \in [DOMAIN map \ {i} -> S]
  BY <1>1 DEF Erased
<1> QED
  BY <1>1, <1>2 DEF Erased, Map

\* client_map_[i] is a file descriptor.
LEMMA LookupType ==
  ASSUME clientMap \in Map(Fds), NEW i
  PROVE  Lookup(i) \in Fds
BY MapType, ServerAssumption DEF Lookup, Fds

(***************************************************************************)
(* Types.                                                                  *)
(***************************************************************************)

LEMMA InitialTypes == Init => TypeInv
<1> SUFFICES ASSUME Init PROVE TypeInv
  OBVIOUS
<1> USE ServerAssumption DEF Init
<1>1. NoMessage \in Response
  BY DEF NoMessage, Response, Status, Verb
<1>2. 0 \in Fds /\ fdOwner \in [Fds -> Owner]
  BY DEF Fds, Owner
<1>3. clientMap \in Map(Fds) /\ creator \in Map(Clients)
  BY EmptyMap
<1>4. FdTypes /\ InterruptTypes /\ QueueTypes
  BY <1>2 DEF FdTypes, InterruptTypes, QueueTypes
<1>5. CollectionTypes
  BY <1>3 DEF CollectionTypes
<1>6. AcceptTypes /\ ReadTypes /\ WriteTypes /\ UnmapTypes
  BY <1>1, <1>2 DEF AcceptTypes, ReadTypes, WriteTypes, UnmapTypes, Owner
<1>7. CallerTypes /\ AssignInv
  BY DEF CallerTypes, AssignInv
<1>8. HolderInv
  BY DEF HolderInv
<1>9. SendTypes
  BY DEF SendTypes
<1>10. HistoryTypes
  BY EmptySeq DEF HistoryTypes
<1> QED
  BY <1>4, <1>6, <1>7, <1>5, <1>8, <1>9, <1>10 DEF TypeInv

\* What does not change keeps its type.
LEMMA TypeFrame ==
  ASSUME TypeInv
  PROVE  /\ UNCHANGED running => running' \in BOOLEAN
         /\ UNCHANGED fdVars => FdTypes'
         /\ UNCHANGED interruptVars => InterruptTypes'
         /\ UNCHANGED collectionVars => CollectionTypes'
         /\ UNCHANGED queue => QueueTypes'
         /\ UNCHANGED acceptVars => AcceptTypes'
         /\ UNCHANGED readVars => ReadTypes'
         /\ UNCHANGED writeVars => WriteTypes'
         /\ UNCHANGED unmapVars => UnmapTypes'
         /\ UNCHANGED callerVars => CallerTypes'
         /\ UNCHANGED sendVars => SendTypes'
         /\ UNCHANGED <<popped, notified>> => HistoryTypes'
         /\ UNCHANGED <<readVars, collectionVars>> => AssignInv'
         /\ UNCHANGED <<lockVars, readVars, writeVars, unmapVars>> => HolderInv'
<1>1. UNCHANGED running => running' \in BOOLEAN
  BY DEF TypeInv
<1>2. UNCHANGED fdVars => FdTypes'
  BY DEF TypeInv, FdTypes, fdVars
<1>3. UNCHANGED interruptVars => InterruptTypes'
  BY DEF TypeInv, InterruptTypes, interruptVars
<1>4. UNCHANGED collectionVars => CollectionTypes'
  BY DEF TypeInv, CollectionTypes, collectionVars
<1>5. UNCHANGED queue => QueueTypes'
  BY DEF TypeInv, QueueTypes
<1>6. UNCHANGED acceptVars => AcceptTypes'
  BY DEF TypeInv, AcceptTypes, acceptVars
<1>7. UNCHANGED readVars => ReadTypes'
  BY DEF TypeInv, ReadTypes, readVars
<1>8. UNCHANGED writeVars => WriteTypes'
  BY DEF TypeInv, WriteTypes, writeVars
<1>9. UNCHANGED unmapVars => UnmapTypes'
  BY DEF TypeInv, UnmapTypes, unmapVars
<1>10. UNCHANGED callerVars => CallerTypes'
  BY DEF TypeInv, CallerTypes, callerVars
<1>11. UNCHANGED sendVars => SendTypes'
  BY DEF TypeInv, SendTypes, sendVars
<1>12. UNCHANGED <<popped, notified>> => HistoryTypes'
  BY DEF TypeInv, HistoryTypes
<1>13. UNCHANGED <<readVars, collectionVars>> => AssignInv'
  BY DEF TypeInv, AssignInv, readVars, collectionVars
<1>14. UNCHANGED <<lockVars, readVars, writeVars, unmapVars>> => HolderInv'
  BY DEF TypeInv, HolderInv, AtInvalidate, lockVars, readVars, writeVars, unmapVars
<1> QED
  BY <1>1, <1>2, <1>3, <1>4, <1>5, <1>6, <1>7, <1>8, <1>9, <1>10, <1>11, <1>12, <1>13,
     <1>14

\* A send() adds an instance to what one connection was told about, or nothing.
LEMMA SendKeepsTypes ==
  ASSUME SendTypes, NEW f \in Fds, NEW r \in Response, r.instance \in Instances,
         SendOk(f, r) \/ SendFails(f) \/ SendKills(f)
  PROVE  SendTypes'
<1>1. CASE SendOk(f, r)
  <2>1. CASE Gone(f)
    BY <1>1, <2>1 DEF SendOk, SendTypes
  <2>2. CASE ~Gone(f)
    <3>1. wire[fdOwner[f]] \union {r.instance} \in SUBSET Instances
      BY <1>1 DEF SendOk, SendTypes
    <3>2. wire' = [wire EXCEPT ![fdOwner[f]] = wire[fdOwner[f]] \union {r.instance}]
      BY <1>1, <2>2 DEF SendOk
    <3> QED
      BY <1>1, <3>1, <3>2 DEF SendOk, SendTypes
  <2> QED
    BY <2>1, <2>2
<1>2. CASE SendFails(f) \/ SendKills(f)
  BY <1>2 DEF SendFails, SendKills, SendTypes
<1> QED
  BY <1>1, <1>2

\* The steps of the clients and of the accept thread.
LEMMA AcceptKeepsTypes ==
  ASSUME TypeInv,
         \/ \E c \in Clients : Disconnect(c) \/ AcceptClient(c)
         \/ AcceptPush \/ AcceptAck \/ AcceptAckFails \/ AcceptFails
  PROVE  TypeInv'
<1> USE TypeFrame DEF TypeInv, sharedVars, restVars
<1>1. ASSUME NEW c \in Clients, Disconnect(c) PROVE TypeInv'
  <2>1. FdTypes'
    BY <1>1 DEF Disconnect, FdTypes
  <2> QED
    BY <1>1, <2>1 DEF Disconnect
<1>2. ASSUME NEW c \in Clients, AcceptClient(c) PROVE TypeInv'
  <2> DEFINE unused == {f \in Fds : fdOwner[f] = "closed"}
  <2>1. unused \subseteq Nat /\ unused # {}
    BY <1>2 DEF AcceptClient, Fds
  <2>2. Min(unused) \in unused
    BY <2>1, MinIsLeast
  <2>3. Min(unused) \in Fds
    BY <2>2
  <2> HIDE DEF unused
  <2>4. acceptFd' = Min(unused) /\ fdOwner' = [fdOwner EXCEPT ![Min(unused)] = c]
    BY <1>2 DEF AcceptClient, unused
  <2>5. FdTypes'
    BY <1>2, <2>4 DEF AcceptClient, FdTypes, Owner
  <2>6. AcceptTypes'
    BY <1>2, <2>3, <2>4 DEF AcceptClient, AcceptTypes
  <2> QED
    BY <1>2, <2>5, <2>6 DEF AcceptClient
<1>3. CASE AcceptPush
  <2>1. CollectionTypes'
    BY <1>3, AppendProperties DEF AcceptPush, CollectionTypes, AcceptTypes
  <2>2. AcceptTypes'
    BY <1>3 DEF AcceptPush, AcceptTypes
  <2>3. AssignInv'
    BY <1>3 DEF AcceptPush, AssignInv, readVars
  <2> QED
    BY <1>3, <2>1, <2>2, <2>3 DEF AcceptPush
<1>4. CASE AcceptAck
  <2>1. UNCHANGED interrupt
    BY <1>4 DEF AcceptAck
  <2>2. acks' \in Nat
    <3>1. acks' = acks + 0 \/ acks' = acks + 1
      BY <1>4 DEF AcceptAck
    <3> QED
      BY <3>1 DEF InterruptTypes
  <2>3. AcceptTypes'
    BY <1>4 DEF AcceptAck, LoopOr, AcceptTypes
  <2> QED
    BY <1>4, <2>1, <2>2, <2>3 DEF AcceptAck, InterruptTypes
<1>5. CASE AcceptAckFails \/ AcceptFails
  <2>1. InterruptTypes' /\ AcceptTypes' /\ running' \in BOOLEAN
    BY <1>5 DEF AcceptAckFails, AcceptFails, Fail, InterruptTypes, AcceptTypes
  <2> QED
    BY <1>5, <2>1 DEF AcceptAckFails, AcceptFails
<1> QED
  BY <1>1, <1>2, <1>3, <1>4, <1>5

\* The first slot that is ready.
LEMMA ReadySlot ==
  ASSUME ReadTypes, ready # {}
  PROVE  /\ Min(ready) \in ready /\ Min(ready) \in 1 .. Len(waitfds)
         /\ waitfds[Min(ready)] \in Fds
<1>1. DOMAIN waitfds = 1 .. Len(waitfds) /\ Len(waitfds) \in Nat
  BY LenProperties DEF ReadTypes
<1>2. ready \subseteq Nat
  BY <1>1 DEF ReadTypes
<1>3. Min(ready) \in ready
  BY <1>2, MinIsLeast
<1>4. Min(ready) \in 1 .. Len(waitfds)
  BY <1>1, <1>3 DEF ReadTypes
<1>5. waitfds[Min(ready)] \in Fds \union {-1}
  BY <1>4, ElementOfSeq DEF ReadTypes
<1> QED
  BY <1>3, <1>4, <1>5 DEF ReadTypes

\* The steps of the read thread between its wait and its scan.
LEMMA ReadKeepsTypes ==
  ASSUME TypeInv,
         \/ ReadPoll \/ ReadAck \/ ReadRefresh \/ ReadScan
         \/ ReadRequested \/ ReadSweep \/ ReadSwept \/ ReadFails
  PROVE  TypeInv'
<1> USE TypeFrame DEF TypeInv, sharedVars, restVars
<1>1. CASE ReadAck
  <2>1. InterruptTypes' /\ running' \in BOOLEAN
    <3>1. CASE acks' = acks - 1 /\ UNCHANGED <<running, interrupt>>
      BY <1>1, <3>1 DEF ReadAck, InterruptTypes
    <3>2. CASE Fail /\ UNCHANGED acks
      BY <3>2 DEF Fail, InterruptTypes
    <3> QED
      BY <1>1, <3>1, <3>2 DEF ReadAck
  <2>2. ReadTypes' /\ AssignInv' /\ HolderInv'
    BY <1>1
       DEF ReadAck, ReadTypes, AssignInv, HolderInv, AtInvalidate, lockVars, writeVars,
           unmapVars
  <2> QED
    BY <1>1, <2>1, <2>2 DEF ReadAck
<1>2. CASE ReadRefresh
  <2>1. Head(newClients) \in Fds \union {-1} /\ Tail(newClients) \in Seq(Fds)
    BY <1>2, HeadTailProperties DEF ReadRefresh, CollectionTypes
  <2>2. CollectionTypes'
    BY <1>2, <2>1 DEF ReadRefresh, CollectionTypes
  <2>3. waitfds' = Append(waitfds, Head(newClients))
    BY <1>2 DEF ReadRefresh
  <2>4. /\ waitfds' \in Seq(Fds \union {-1}) /\ DOMAIN waitfds \subseteq DOMAIN waitfds'
        /\ \A k \in DOMAIN waitfds : waitfds'[k] = waitfds[k]
    BY <2>1, <2>3, AppendProperties, LenProperties DEF ReadTypes
  <2>5. ReadTypes' /\ AssignInv'
    BY <1>2, <2>4 DEF ReadRefresh, ReadTypes, AssignInv, LoopOr
  <2>6. HolderInv'
    BY <1>2 DEF ReadRefresh, HolderInv, ClientsFree, lockVars, writeVars, unmapVars
  <2> QED
    BY <1>2, <2>2, <2>5, <2>6 DEF ReadRefresh
<1>3. CASE ReadScan
  <2>1. ready' \subseteq DOMAIN waitfds /\ \A k \in ready' : waitfds[k] # -1
    BY <1>3 DEF ReadScan, MayHaveSent, HungUp, Listening
  <2>2. ReadTypes' /\ AssignInv' /\ HolderInv'
    BY <1>3, <2>1
       DEF ReadScan, ReadTypes, AssignInv, HolderInv, AtInvalidate, lockVars, writeVars,
           unmapVars
  <2> QED
    BY <1>3, <2>2 DEF ReadScan
<1>4. CASE ReadPoll \/ ReadRequested \/ ReadSweep \/ ReadSwept
  <2>1. ReadTypes' /\ AssignInv' /\ HolderInv'
    BY <1>4
       DEF ReadPoll, ReadRequested, ReadSweep, ReadSwept, ReadTypes, AssignInv, HolderInv,
           AtInvalidate, LoopOr, lockVars, writeVars, unmapVars
  <2> QED
    BY <1>4, <2>1 DEF ReadPoll, ReadRequested, ReadSweep, ReadSwept
<1>5. CASE ReadFails
  <2>1. InterruptTypes' /\ ReadTypes' /\ AssignInv' /\ HolderInv' /\ running' \in BOOLEAN
    BY <1>5
       DEF ReadFails, Fail, InterruptTypes, ReadTypes, AssignInv, HolderInv, AtInvalidate, lockVars,
           writeVars, unmapVars
  <2> QED
    BY <1>5, <2>1 DEF ReadFails
<1> QED
  BY <1>1, <1>2, <1>3, <1>4, <1>5

\* What the read thread does with a slot that is ready.
LEMMA SlotKeepsTypes ==
  ASSUME TypeInv,
         ReadCreate \/ ReadAssign \/ ReadOther \/ ReadThrows \/ ReadDead
  PROVE  TypeInv'
<1> USE TypeFrame DEF TypeInv, sharedVars, restVars
<1>1. CASE ReadCreate
  <2>1. readFrom' \in Owner
    BY <1>1 DEF ReadCreate, Owner
  <2>2. ReadTypes' /\ AssignInv' /\ HolderInv'
    BY <1>1, <2>1
       DEF ReadCreate, ReadTypes, AssignInv, HolderInv, AtInvalidate, lockVars, collectionVars,
           writeVars, unmapVars
  <2> QED
    BY <1>1, <2>2 DEF ReadCreate
<1>2. CASE ReadAssign
  <2>1. nextId \in Instances /\ ready # {} /\ nextId + 1 \in 0 .. MaxInstances
    BY <1>2, ServerAssumption DEF ReadAssign, AssignInv, CollectionTypes, Instances
  <2>2. waitfds[Min(ready)] \in Fds
    BY <2>1, ReadySlot
  <2>3. readFrom \in Clients
    BY <1>2 DEF ReadAssign, AssignInv
  <2>4. clientMap' \in Map(Fds) /\ creator' \in Map(Clients)
    BY <1>2, <2>1, <2>2, <2>3, ExtendedType DEF ReadAssign, CollectionTypes
  <2>5. CollectionTypes'
    BY <1>2, <2>1, <2>4 DEF ReadAssign, CollectionTypes
  <2>6. ReadTypes' /\ AssignInv' /\ HolderInv'
    BY <1>2
       DEF ReadAssign, ReadTypes, AssignInv, HolderInv, AtInvalidate, lockVars, Owner, ClientsFree,
           writeVars, unmapVars
  <2> QED
    BY <1>2, <2>5, <2>6 DEF ReadAssign
<1>3. CASE ReadOther
  <2>1. ReadTypes' /\ AssignInv' /\ HolderInv'
    BY <1>3
       DEF ReadOther, ReadTypes, AssignInv, HolderInv, AtInvalidate, lockVars, writeVars, unmapVars
  <2> QED
    BY <1>3, <2>1 DEF ReadOther
<1>4. CASE ReadThrows
  <2>1. SendTypes'
    BY <1>4 DEF ReadThrows, SendTypes
  <2> QED
    BY <1>4, <2>1 DEF ReadThrows
<1>5. CASE ReadDead
  <2> DEFINE k == Min(ready)
  <2>1. ready # {} /\ UNCHANGED <<readPc, readFrom>> /\ readPc = "scan"
    BY <1>5 DEF ReadDead
  <2>2. k \in ready /\ k \in 1 .. Len(waitfds) /\ waitfds[k] \in Fds
    BY <2>1, ReadySlot
  <2>3. /\ invalid' = Append(invalid, waitfds[k]) /\ ready' = ready \ {k}
        /\ waitfds' = [waitfds EXCEPT ![k] = -1]
    BY <1>5 DEF ReadDead
  <2> HIDE DEF k
  <2>4. invalid' \in Seq(Fds)
    BY <2>2, <2>3, AppendProperties DEF ReadTypes
  <2>5. -1 \in Fds \union {-1}
    OBVIOUS
  <2>6. /\ waitfds' \in Seq(Fds \union {-1}) /\ DOMAIN waitfds' = DOMAIN waitfds
        /\ \A j \in DOMAIN waitfds : j # k => waitfds'[j] = waitfds[j]
    BY <2>2, <2>3, <2>5, ExceptSeq, LenProperties DEF ReadTypes
  <2>7. ReadTypes'
    BY <2>1, <2>3, <2>4, <2>6 DEF ReadTypes
  <2>8. AssignInv' /\ HolderInv'
    BY <1>5, <2>1 DEF ReadDead, AssignInv, HolderInv, AtInvalidate, lockVars, writeVars, unmapVars
  <2> QED
    BY <1>5, <2>7, <2>8 DEF ReadDead
<1> QED
  BY <1>1, <1>2, <1>3, <1>4, <1>5

\* invalidate, by either thread.
LEMMA InvalidateKeepsTypes ==
  ASSUME TypeInv,
         NEW t \in Thread, InvalidateStep(t) \/ InvalidateNotified(t)
  PROVE  TypeInv'
<1> USE TypeFrame DEF TypeInv, sharedVars, restVars
<1>1. AtInvalidate(t)
  BY DEF Thread, InvalidateStep, InvalidateLock, InvalidateMapping, InvalidateNotified,
         InvalidateClose, HolderInv
<1>2. Target(t) \in Fds
  BY <1>1, HeadTailProperties DEF AtInvalidate, Target, ReadTypes, WriteTypes
<1>3. CASE InvalidateLock(t)
  <2>1. clients' \in Seq(Fds)
    BY <1>3, RemoveFirstType DEF InvalidateLock, CollectionTypes
  <2>2. CollectionTypes' /\ AssignInv'
    BY <1>3, <2>1 DEF InvalidateLock, CollectionTypes, AssignInv, readVars
  <2>3. HolderInv'
    BY <1>1, <1>3
       DEF InvalidateLock, HolderInv, AtInvalidate, ClientsFree, Thread, readVars, writeVars,
           unmapVars
  <2> QED
    BY <1>3, <2>2, <2>3 DEF InvalidateLock
<1>4. CASE InvalidateMapping(t)
  <2> DEFINE S == Mapped(Target(t))
             later == {j \in DOMAIN clientMap : j > Min(S)}
  <2>1. DOMAIN clientMap \subseteq Instances /\ Instances \subseteq Nat
    BY MapType, ServerAssumption DEF Instances, CollectionTypes
  <2>2. S # {} /\ S \subseteq Nat /\ S \subseteq Instances
    BY <1>4, <2>1 DEF InvalidateMapping, Mapped
  <2>3. Min(S) \in Instances
    BY <2>2, MinIsLeast
  <2>4. later \subseteq Nat /\ later \subseteq Instances
    BY <2>1
  <2>5. later # {} => Min(later) \in Instances
    BY <2>4, MinIsLeast
  <2>6. /\ clientMap' = Erased(clientMap, Min(S))
        /\ \E j \in IF later # {} THEN {Min(later)} ELSE Instances :
             notified' = notified \union {<<Min(S), j>>}
    BY <1>4 DEF InvalidateMapping
  <2> HIDE DEF S, later
  <2>7. HistoryTypes'
    BY <1>4, <2>3, <2>5, <2>6 DEF InvalidateMapping, HistoryTypes
  <2>8. clientMap' \in Map(Fds)
    BY <2>6, ErasedType DEF CollectionTypes
  <2>9. CollectionTypes' /\ AssignInv'
    BY <1>4, <2>8 DEF InvalidateMapping, CollectionTypes, AssignInv, readVars
  <2>10. HolderInv'
    BY <1>4 DEF InvalidateMapping, HolderInv, AtInvalidate, readVars, writeVars, unmapVars
  <2> QED
    BY <1>4, <2>7, <2>9, <2>10 DEF InvalidateMapping
<1>5. CASE InvalidateClose(t)
  <2>1. FdTypes'
    BY <1>2, <1>5 DEF InvalidateClose, FdTypes, Owner
  <2>2. t = "read" => ReadTypes' /\ WriteTypes'
    BY <1>1, <1>5, HeadTailProperties
       DEF InvalidateClose, AtInvalidate, ReadTypes, WriteTypes
  <2>3. t = "write" => WriteTypes' /\ ReadTypes'
    BY <1>1, <1>5 DEF InvalidateClose, AtInvalidate, WriteTypes, ReadTypes, LoopOr
  <2>4. AssignInv' /\ HolderInv'
    BY <1>1, <1>5
       DEF InvalidateClose, AtInvalidate, AssignInv, HolderInv, Thread, collectionVars,
           unmapVars
  <2> QED
    BY <1>5, <2>1, <2>2, <2>3, <2>4 DEF InvalidateClose, Thread
<1>6. CASE InvalidateNotified(t)
  <2>1. HolderInv'
    BY <1>6 DEF InvalidateNotified, HolderInv, AtInvalidate, readVars, writeVars, unmapVars
  <2> QED
    BY <1>6, <2>1 DEF InvalidateNotified
<1> QED
  BY <1>3, <1>4, <1>5, <1>6 DEF InvalidateStep

\* The steps of the write thread outside invalidate.
LEMMA WriteKeepsTypes ==
  ASSUME TypeInv,
         WritePop \/ WriteLookup \/ WriteSend \/ WriteThrows \/ WriteStops
  PROVE  TypeInv'
<1> USE TypeFrame DEF TypeInv, sharedVars, restVars
<1>1. CASE WritePop
  <2>1. PICK r \in queue : writeMsg' = r /\ popped' = Append(popped, r) /\ queue' = queue \ {r}
    BY <1>1 DEF WritePop
  <2>2. r \in Response /\ r.instance \in Instances
    BY DEF QueueTypes
  <2>3. popped' \in Seq(Response)
    BY <2>1, <2>2, AppendProperties DEF HistoryTypes
  <2>4. QueueTypes' /\ HistoryTypes'
    BY <1>1, <2>1, <2>3 DEF WritePop, QueueTypes, HistoryTypes
  <2>5. WriteTypes' /\ HolderInv'
    BY <1>1, <2>1, <2>2
       DEF WritePop, WriteTypes, HolderInv, AtInvalidate, lockVars, readVars, unmapVars
  <2> QED
    BY <1>1, <2>4, <2>5 DEF WritePop
<1>2. CASE WriteLookup
  <2>1. writeFd' \in Fds /\ writeMsg.instance \in Instances
    BY <1>2, LookupType DEF WriteLookup, CollectionTypes, WriteTypes
  <2>2. clientMap' \in Map(Fds)
    BY <1>2, <2>1, ExtendedType DEF WriteLookup, CollectionTypes
  <2>3. CollectionTypes' /\ AssignInv'
    BY <1>2, <2>2 DEF WriteLookup, CollectionTypes, AssignInv, readVars
  <2>4. WriteTypes' /\ HolderInv'
    BY <1>2, <2>1 DEF WriteLookup, WriteTypes, HolderInv, AtInvalidate, lockVars, readVars, unmapVars
  <2> QED
    BY <1>2, <2>3, <2>4 DEF WriteLookup
<1>3. CASE WriteSend
  <2>1. SendTypes'
    BY <1>3, SendKeepsTypes DEF WriteSend, WriteTypes
  <2>2. WriteTypes' /\ HolderInv'
    BY <1>3 DEF WriteSend, WriteTypes, LoopOr, HolderInv, AtInvalidate, lockVars, readVars, unmapVars
  <2> QED
    BY <1>3, <2>1, <2>2 DEF WriteSend
<1>4. CASE WriteThrows
  <2>1. SendTypes'
    BY <1>4 DEF WriteThrows, SendTypes
  <2> QED
    BY <1>4, <2>1 DEF WriteThrows
<1>5. CASE WriteStops
  <2>1. WriteTypes' /\ HolderInv'
    BY <1>5 DEF WriteStops, WriteTypes, HolderInv, AtInvalidate, lockVars, readVars, unmapVars
  <2> QED
    BY <1>5, <2>1 DEF WriteStops
<1> QED
  BY <1>1, <1>2, <1>3, <1>4, <1>5

\* The steps of the conductor.
LEMMA CallerKeepsTypes ==
  ASSUME TypeInv,
         \/ \E i \in Instances : Enqueue(i, "create") \/ Enqueue(i, "forward") \/ UnmapBegin(i)
         \/ UnmapSend \/ UnmapErase \/ Destroy \/ Destroyed
  PROVE  TypeInv'
<1> USE TypeFrame DEF TypeInv, sharedVars, restVars
<1>1. ASSUME NEW i \in Instances, NEW p \in {0, 1}, NEW v \in {"create", "forward", "destroy"}
      PROVE  NewResponse(i, p, v) \in Response /\ NewResponse(i, p, v).instance = i
  BY ServerAssumption DEF NewResponse, Response, Status, Verb, Instances, CallerTypes
<1>2. ASSUME NEW i \in Instances, NEW v \in {"create", "forward"}, Enqueue(i, v)
      PROVE  TypeInv'
  <2>1. PICK p \in {0, 1} : queue' = queue \union {NewResponse(i, p, v)}
    BY <1>2 DEF Enqueue
  <2>2. QueueTypes'
    BY <1>1, <2>1 DEF QueueTypes
  <2>3. CallerTypes'
    BY <1>2, ServerAssumption DEF Enqueue, CallerTypes
  <2> QED
    BY <1>2, <2>2, <2>3 DEF Enqueue
<1>3. ASSUME NEW i \in Instances, UnmapBegin(i) PROVE TypeInv'
  <2>1. unmapFd' \in Fds
    BY <1>3, LookupType DEF UnmapBegin, CollectionTypes
  <2>2. clientMap' \in Map(Fds)
    BY <1>3, <2>1, ExtendedType DEF UnmapBegin, CollectionTypes
  <2>3. CollectionTypes' /\ AssignInv'
    BY <1>3, <2>2 DEF UnmapBegin, CollectionTypes, AssignInv, readVars
  <2>4. unmapMsg' \in Response /\ unmapMsg'.instance = i
    BY <1>1, <1>3 DEF UnmapBegin
  <2>5. UnmapTypes' /\ HolderInv'
    BY <1>3, <2>1, <2>4 DEF UnmapBegin, UnmapTypes, HolderInv
  <2>6. CallerTypes'
    BY <1>3, ServerAssumption DEF UnmapBegin, CallerTypes
  <2> QED
    BY <1>3, <2>3, <2>5, <2>6 DEF UnmapBegin
<1>4. CASE UnmapSend
  <2>1. SendTypes'
    BY <1>4, SendKeepsTypes DEF UnmapSend, UnmapTypes
  <2>2. UnmapTypes' /\ HolderInv'
    BY <1>4
       DEF UnmapSend, UnmapTypes, HolderInv, AtInvalidate, lockVars, readVars, writeVars
  <2> QED
    BY <1>4, <2>1, <2>2 DEF UnmapSend
<1>5. CASE UnmapErase
  <2>1. clientMap' \in Map(Fds)
    BY <1>5, ErasedType DEF UnmapErase, CollectionTypes
  <2>2. CollectionTypes' /\ AssignInv'
    BY <1>5, <2>1 DEF UnmapErase, CollectionTypes, AssignInv, readVars
  <2>3. UnmapTypes' /\ HolderInv'
    BY <1>5 DEF UnmapErase, UnmapTypes, HolderInv
  <2> QED
    BY <1>5, <2>2, <2>3 DEF UnmapErase
<1>6. CASE Destroy
  <2>1. InterruptTypes' /\ CallerTypes' /\ running' \in BOOLEAN
    BY <1>6 DEF Destroy, InterruptTypes, CallerTypes
  <2> QED
    BY <1>6, <2>1 DEF Destroy
<1>7. CASE Destroyed
  <2>1. FdTypes' /\ InterruptTypes' /\ CallerTypes'
    BY <1>7 DEF Destroyed, FdTypes, InterruptTypes, CallerTypes, Owner
  <2> QED
    BY <1>7, <2>1 DEF Destroyed
<1> QED
  BY <1>2, <1>3, <1>4, <1>5, <1>6, <1>7

\* The variables of the server keep their types, for every bound.
THEOREM TypeCorrect == Spec => []TypeInv
<1>1. Init => TypeInv
  BY InitialTypes
<1>2. TypeInv /\ [Next]_vars => TypeInv'
  <2> SUFFICES ASSUME TypeInv, [Next]_vars PROVE TypeInv'
    OBVIOUS
  <2>1. CASE UNCHANGED vars
    BY <2>1, TypeFrame DEF vars, sharedVars, restVars, TypeInv
  <2>2. CASE Next
    BY <2>2, AcceptKeepsTypes, ReadKeepsTypes, SlotKeepsTypes, InvalidateKeepsTypes,
       WriteKeepsTypes, CallerKeepsTypes
       DEF Next, AcceptStep, ReadStep, WriteStep, Thread
  <2> QED
    BY <2>1, <2>2
<1> QED
  BY <1>1, <1>2, PTL DEF Spec

\* The type invariant that the runs check.
THEOREM TypesHold == Spec => []TypeOK
<1>1. TypeInv => TypeOK
  BY DEF TypeInv, FdTypes, InterruptTypes, CollectionTypes, QueueTypes, AcceptTypes,
         ReadTypes, WriteTypes, UnmapTypes, CallerTypes, SendTypes, HistoryTypes,
         HolderInv, TypeOK
<1> QED
  BY <1>1, TypeCorrect, PTL

(***************************************************************************)
(* The ACKs of the accept thread.                                          *)
(***************************************************************************)

\* Four actions touch the ACKs and the queue of new clients.
LEMMA AckFrame ==
  ASSUME Next
  PROVE  \/ AcceptPush \/ AcceptAck \/ ReadAck \/ ReadRefresh
         \/ /\ UNCHANGED <<acks, newClients>> /\ (running' => running)
            /\ acceptPc' = "ack" => acceptPc = "ack"
            /\ readPc' = "refresh" => readPc = "refresh"
            /\ readPc = "done" => readPc' = "done"
<1> DEFINE Same == /\ UNCHANGED <<acks, newClients>> /\ (running' => running)
                   /\ acceptPc' = "ack" => acceptPc = "ack"
                   /\ readPc' = "refresh" => readPc = "refresh"
                   /\ readPc = "done" => readPc' = "done"
<1> USE DEF sharedVars, restVars, acceptVars, readVars, interruptVars, collectionVars
<1>1. ASSUME NEW c \in Clients, Disconnect(c) \/ AcceptClient(c) PROVE Same
  BY <1>1 DEF Disconnect, AcceptClient
<1>2. CASE AcceptAckFails \/ AcceptFails \/ ReadFails
  BY <1>2 DEF AcceptAckFails, AcceptFails, ReadFails, Fail
<1>3. CASE ReadPoll \/ ReadScan \/ ReadCreate \/ ReadAssign \/ ReadOther \/ ReadThrows
  BY <1>3 DEF ReadPoll, ReadScan, ReadCreate, ReadAssign, ReadOther, ReadThrows
<1>4. CASE ReadDead \/ ReadRequested \/ ReadSweep \/ ReadSwept
  BY <1>4 DEF ReadDead, ReadRequested, ReadSweep, ReadSwept, LoopOr
<1>5. ASSUME NEW t \in Thread, InvalidateStep(t) \/ InvalidateNotified(t) PROVE Same
  BY <1>5
     DEF InvalidateStep, InvalidateLock, InvalidateMapping, InvalidateNotified,
         InvalidateClose
<1>6. CASE WritePop \/ WriteLookup \/ WriteSend \/ WriteThrows \/ WriteStops
  BY <1>6 DEF WritePop, WriteLookup, WriteSend, WriteThrows, WriteStops
<1>7. ASSUME NEW i \in Instances,
             Enqueue(i, "create") \/ Enqueue(i, "forward") \/ UnmapBegin(i)
      PROVE  Same
  BY <1>7 DEF Enqueue, UnmapBegin
<1>8. CASE UnmapSend \/ UnmapErase \/ Destroy \/ Destroyed
  BY <1>8 DEF UnmapSend, UnmapErase, Destroy, Destroyed
<1> QED
  BY <1>1, <1>2, <1>3, <1>4, <1>5, <1>6, <1>7, <1>8
     DEF Next, AcceptStep, ReadStep, WriteStep, Thread

\* There is a client in new_clients_ for every ACK that the read thread has taken, that
\* is on its way, or that the accept thread is about to send, whatever the threads do
\* in between, as long as none of them fails.
LEMMA AckInductive == TypeInv /\ AckInv /\ [Next]_vars => AckInv'
<1> SUFFICES ASSUME TypeInv, AckInv, [Next]_vars PROVE AckInv'
  OBVIOUS
<1>1. acks \in Nat /\ newClients \in Seq(Fds) /\ Len(newClients) \in Nat /\ acceptFd \in Fds
  BY LenProperties DEF TypeInv, InterruptTypes, CollectionTypes, AcceptTypes
<1>2. newClients # <<>> <=> Len(newClients) > 0
  BY <1>1, EmptySeq
<1> USE DEF AckInv, Acks
<1>3. CASE AcceptPush
  <2>1. newClients' = Append(newClients, acceptFd) /\ UNCHANGED <<acks, readPc, running>>
    BY <1>3 DEF AcceptPush, interruptVars, readVars
  <2>2. Len(newClients') = Len(newClients) + 1 /\ newClients' # <<>>
    BY <1>1, <2>1, AppendProperties
  <2>3. acceptPc = "push" /\ acceptPc' = "ack"
    BY <1>3 DEF AcceptPush
  <2> QED
    BY <1>1, <2>1, <2>2, <2>3
<1>4. CASE AcceptAck
  <2>1. acceptPc = "ack" /\ acceptPc' # "ack" /\ UNCHANGED <<newClients, readPc, running>>
    BY <1>4 DEF AcceptAck, LoopOr, collectionVars, readVars
  <2>2. acks' = acks + 0 \/ acks' = acks + 1
    BY <1>4 DEF AcceptAck
  <2> QED
    BY <1>1, <2>1, <2>2
<1>5. CASE ReadAck
  <2>1. /\ acks > 0 /\ readPc \in {"poll", "blocked"} /\ readPc' = "refresh"
        /\ UNCHANGED <<newClients, acceptPc>>
        /\ \/ acks' = acks - 1 /\ UNCHANGED running
           \/ running' = FALSE /\ UNCHANGED acks
    BY <1>5 DEF ReadAck, Fail, collectionVars, acceptVars
  <2>2. Len(newClients) > 0
    BY <1>1, <2>1
  <2> QED
    BY <1>1, <1>2, <2>1, <2>2
<1>6. CASE ReadRefresh
  <2>1. /\ newClients' = Tail(newClients) /\ newClients # <<>>
        /\ UNCHANGED <<acks, acceptPc, running>>
    BY <1>6 DEF ReadRefresh, interruptVars, acceptVars
  <2>2. Len(newClients') = Len(newClients) - 1
    BY <1>1, <2>1, HeadTailProperties
  <2>3. readPc = "refresh" /\ readPc' = IF running THEN "poll" ELSE "done"
    BY <1>6 DEF ReadRefresh, LoopOr
  <2> QED
    BY <1>1, <2>1, <2>2, <2>3
<1>7. CASE UNCHANGED vars
  BY <1>7
     DEF vars, sharedVars, interruptVars, collectionVars, acceptVars, readVars
<1>8. CASE /\ UNCHANGED <<acks, newClients>> /\ (running' => running)
           /\ acceptPc' = "ack" => acceptPc = "ack"
           /\ readPc' = "refresh" => readPc = "refresh"
           /\ readPc = "done" => readPc' = "done"
  BY <1>1, <1>8
<1> QED
  BY <1>3, <1>4, <1>5, <1>6, <1>7, <1>8, AckFrame

\* The read thread finds a client for every ACK (server.cpp:372), and one is queued also
\* when its recv() has failed (server.cpp:361).
THEOREM AckedClientIsQueued == Spec => []AckedClientQueued
<1>1. Init => AckInv
  BY EmptySeq DEF Init, AckInv, Acks
<1>2. TypeInv /\ AckInv => AckedClientQueued
  <2> SUFFICES ASSUME TypeInv, AckInv PROVE AckedClientQueued
    OBVIOUS
  <2>1. acks \in Nat /\ Len(newClients) \in Nat
    BY LenProperties DEF TypeInv, InterruptTypes, CollectionTypes
  <2> QED
    BY <2>1 DEF AckInv, Acks, AckedClientQueued
<1> QED
  BY <1>1, <1>2, AckInductive, TypeCorrect, PTL DEF Spec

(***************************************************************************)
(* The order of the responses.                                             *)
(***************************************************************************)

orderVars == <<queue, popped, nextResponse, announced>>

\* Three actions touch the queue, what has left it, or the ids.
LEMMA OrderFrame ==
  ASSUME Next
  PROVE  \/ WritePop
         \/ \E i \in Instances : Enqueue(i, "create") \/ Enqueue(i, "forward") \/ UnmapBegin(i)
         \/ UNCHANGED orderVars
<1> USE DEF sharedVars, restVars, callerVars, orderVars
<1>1. ASSUME NEW c \in Clients, Disconnect(c) \/ AcceptClient(c) PROVE UNCHANGED orderVars
  BY <1>1 DEF Disconnect, AcceptClient
<1>2. CASE AcceptPush \/ AcceptAck \/ AcceptAckFails \/ AcceptFails
  BY <1>2 DEF AcceptPush, AcceptAck, AcceptAckFails, AcceptFails
<1>3. CASE \/ ReadPoll \/ ReadAck \/ ReadRefresh \/ ReadScan
           \/ ReadRequested \/ ReadSweep \/ ReadSwept \/ ReadFails
  BY <1>3
     DEF ReadPoll, ReadAck, ReadRefresh, ReadScan, ReadRequested, ReadSweep, ReadSwept,
         ReadFails
<1>4. CASE ReadCreate \/ ReadAssign \/ ReadOther \/ ReadThrows \/ ReadDead
  BY <1>4 DEF ReadCreate, ReadAssign, ReadOther, ReadThrows, ReadDead
<1>5. ASSUME NEW t \in Thread, InvalidateStep(t) \/ InvalidateNotified(t)
      PROVE  UNCHANGED orderVars
  BY <1>5
     DEF InvalidateStep, InvalidateLock, InvalidateMapping, InvalidateNotified,
         InvalidateClose
<1>6. CASE WriteLookup \/ WriteSend \/ WriteThrows \/ WriteStops
  BY <1>6 DEF WriteLookup, WriteSend, WriteThrows, WriteStops
<1>7. CASE UnmapSend \/ UnmapErase \/ Destroy \/ Destroyed
  BY <1>7 DEF UnmapSend, UnmapErase, Destroy, Destroyed
<1> QED
  BY <1>1, <1>2, <1>3, <1>4, <1>5, <1>6, <1>7
     DEF Next, AcceptStep, ReadStep, WriteStep, Thread

\* What is appended to the popped responses comes after all of them.
LEMMA AppendPopped ==
  ASSUME popped \in Seq(Response), NEW r \in Response, popped' = Append(popped, r)
  PROVE  /\ DOMAIN popped' = 1 .. Len(popped) + 1 /\ Len(popped) \in Nat
         /\ DOMAIN popped = 1 .. Len(popped)
         /\ popped'[Len(popped) + 1] = r
         /\ \A k \in DOMAIN popped : popped'[k] = popped[k] /\ popped[k] \in Response
BY AppendProperties, LenProperties, ElementOfSeq

\* pop() takes the response that comes first.
LEMMA PopKeepsOrder == ASSUME TypeInv, OrderInv, WritePop PROVE OrderInv'
<1>1. PICK r \in queue :
        IsTop(r, queue) /\ popped' = Append(popped, r) /\ queue' = queue \ {r}
  BY DEF WritePop
<1>2. UNCHANGED <<nextResponse, announced>>
  BY DEF WritePop, callerVars
<1>3. queue \subseteq Response /\ r \in Response /\ popped \in Seq(Response)
  BY DEF TypeInv, QueueTypes, HistoryTypes
<1>4. \A s \in queue' : s.priority <= r.priority /\ (s.priority = r.priority => r.id < s.id)
  <2> TAKE s \in queue'
  <2>1. s \in queue /\ s # r /\ s.id # r.id
    BY <1>1 DEF OrderInv, IdInv
  <2>2. s.priority <= r.priority /\ (s.priority = r.priority => r.id <= s.id)
    BY <1>1, <1>3, <2>1, TopIsOldestOfHighestPriority
  <2> QED
    BY <1>3, <2>1, <2>2 DEF Response
<1>5. IdInv'
  BY <1>1, <1>2 DEF OrderInv, IdInv
<1>6. /\ DOMAIN popped' = 1 .. Len(popped) + 1 /\ Len(popped) \in Nat
      /\ DOMAIN popped = 1 .. Len(popped)
      /\ popped'[Len(popped) + 1] = r
      /\ \A k \in DOMAIN popped : popped'[k] = popped[k] /\ popped[k] \in Response
  BY <1>1, <1>3, AppendPopped
<1>7. \A k \in DOMAIN popped' : k \in DOMAIN popped \/ k = Len(popped) + 1
  BY <1>6
<1>8. PoppedInv'
  <2> SUFFICES ASSUME NEW k \in DOMAIN popped'
               PROVE  /\ popped'[k].id < nextResponse /\ popped'[k].instance \in announced
                      /\ \A s \in queue' :
                           /\ popped'[k].priority = s.priority => popped'[k].id < s.id
                           /\ ~(popped'[k].verb = "forward" /\ s.verb = "create"
                                 /\ popped'[k].instance = s.instance)
    BY <1>2 DEF PoppedInv
  <2>1. CASE k \in DOMAIN popped
    BY <1>1, <1>6, <2>1 DEF OrderInv, PoppedInv
  <2>2. CASE k = Len(popped) + 1
    <3>1. r.id < nextResponse /\ r.instance \in announced /\ Kind(r)
      BY DEF OrderInv, IdInv
    <3>2. \A s \in queue' : Kind(s)
      BY <1>1 DEF OrderInv, IdInv
    <3>3. \A s \in queue' : ~(r.verb = "forward" /\ s.verb = "create")
      BY <1>4, <3>1, <3>2 DEF Kind
    <3> QED
      BY <1>4, <1>6, <2>2, <3>1, <3>3
  <2> QED
    BY <1>7, <2>1, <2>2
<1>9. SentInOrder'
  <2> SUFFICES ASSUME NEW j \in DOMAIN popped', NEW k \in DOMAIN popped', j < k
               PROVE  /\ popped'[j].priority = popped'[k].priority => popped'[j].id < popped'[k].id
                      /\ ~(popped'[j].verb = "forward" /\ popped'[k].verb = "create"
                            /\ popped'[j].instance = popped'[k].instance)
    BY DEF SentInOrder
  <2>1. j \in DOMAIN popped
    BY <1>6
  <2>2. CASE k \in DOMAIN popped
    BY <1>6, <2>1, <2>2 DEF OrderInv, SentInOrder
  <2>3. CASE k = Len(popped) + 1
    BY <1>6, <2>1, <2>3 DEF OrderInv, PoppedInv
  <2> QED
    BY <1>7, <2>2, <2>3
<1> QED
  BY <1>5, <1>8, <1>9 DEF OrderInv

\* A response that is enqueued is newer than all others, and a create response comes
\* before the first forward response of its instance.
LEMMA EnqueueKeepsOrder ==
  ASSUME TypeInv, OrderInv, NEW i \in Instances, NEW v \in {"create", "forward"},
         Enqueue(i, v)
  PROVE  OrderInv'
<1> DEFINE r == NewResponse(i, IF v = "create" THEN 1 ELSE 0, v)
<1>1. /\ queue' = queue \union {r} /\ nextResponse' = nextResponse + 1 /\ UNCHANGED popped
      /\ announced' = announced \union {i}
      /\ v = "create" => i \notin announced
  BY DEF Enqueue
<1>2. r.id = nextResponse /\ r.instance = i /\ r.verb = v /\ Kind(r)
  BY DEF NewResponse, Kind
<1>3. nextResponse \in Nat /\ \A s \in queue : s.id \in Nat
  BY DEF TypeInv, CallerTypes, QueueTypes, Response
<1>4. \A k \in DOMAIN popped : popped[k].id \in Nat
  <2>1. \A k \in DOMAIN popped : popped[k] \in Response
    BY ElementOfSeq, LenProperties DEF TypeInv, HistoryTypes
  <2> QED
    BY <2>1 DEF Response
<1> HIDE DEF r
<1>5. IdInv'
  BY <1>1, <1>2, <1>3 DEF OrderInv, IdInv
<1>6. PoppedInv'
  <2> SUFFICES ASSUME NEW k \in DOMAIN popped
               PROVE  /\ popped[k].id < nextResponse + 1
                      /\ popped[k].instance \in announced \union {i}
                      /\ \A s \in queue \union {r} :
                           /\ popped[k].priority = s.priority => popped[k].id < s.id
                           /\ ~(popped[k].verb = "forward" /\ s.verb = "create"
                                 /\ popped[k].instance = s.instance)
    BY <1>1 DEF PoppedInv
  <2>1. popped[k].id < nextResponse /\ popped[k].instance \in announced
    BY DEF OrderInv, PoppedInv
  <2>2. popped[k].id < nextResponse + 1
    BY <1>3, <1>4, <2>1
  <2>3. r.verb = "create" => popped[k].instance # r.instance
    BY <1>1, <1>2, <2>1
  <2> QED
    BY <1>2, <2>1, <2>2, <2>3 DEF OrderInv, PoppedInv
<1> QED
  BY <1>1, <1>5, <1>6 DEF OrderInv, SentInOrder

LEMMA OrderInductive == TypeInv /\ OrderInv /\ [Next]_vars => OrderInv'
<1> SUFFICES ASSUME TypeInv, OrderInv, [Next]_vars PROVE OrderInv'
  OBVIOUS
<1>1. ASSUME NEW i \in Instances, UnmapBegin(i) PROVE OrderInv'
  <2>1. nextResponse' = nextResponse + 1 /\ UNCHANGED <<queue, popped, announced>>
    BY <1>1 DEF UnmapBegin
  <2>2. nextResponse \in Nat /\ \A s \in queue : s.id \in Nat
    BY DEF TypeInv, CallerTypes, QueueTypes, Response
  <2>3. \A k \in DOMAIN popped : popped[k].id \in Nat
    <3>1. \A k \in DOMAIN popped : popped[k] \in Response
      BY ElementOfSeq, LenProperties DEF TypeInv, HistoryTypes
    <3> QED
      BY <3>1 DEF Response
  <2> QED
    BY <2>1, <2>2, <2>3 DEF OrderInv, IdInv, PoppedInv, SentInOrder
<1>2. ASSUME UNCHANGED orderVars PROVE OrderInv'
  BY <1>2 DEF orderVars, OrderInv, IdInv, PoppedInv, SentInOrder
<1>3. CASE UNCHANGED vars
  BY <1>2, <1>3 DEF vars, sharedVars, restVars, callerVars, orderVars
<1> QED
  BY <1>1, <1>2, <1>3, OrderFrame, PopKeepsOrder, EnqueueKeepsOrder

\* Responses leave the queue priority by priority in the order of their ids, and no
\* forward response overtakes the create response of its instance.
THEOREM ResponsesAreSentInOrder == Spec => []SentInOrder
<1>1. Init => OrderInv
  BY EmptySeq DEF Init, OrderInv, IdInv, PoppedInv, SentInOrder
<1>2. OrderInv => SentInOrder
  BY DEF OrderInv
<1> QED
  BY <1>1, <1>2, OrderInductive, TypeCorrect, PTL DEF Spec
=============================================================================
