---------------------------- MODULE RoutingProofs ----------------------------
(***************************************************************************)
(* Theorems about module Server that relate its file descriptors to what   *)
(* the threads keep of them: as long as no send() has failed, every open   *)
(* connection is polled once and client_map_ leads to the creator of an    *)
(* instance.                                                               *)
(***************************************************************************)
EXTENDS ServerProofs, FiniteSetTheorems

(***************************************************************************)
(* The inductive invariants.                                               *)
(***************************************************************************)

InSeq(s, e) == \E k \in DOMAIN s : s[k] = e

Distinct(s) == \A j, k \in DOMAIN s : s[j] = s[k] => j = k

\* Where a file descriptor may be between accept() and close().
Polled(f) == InSeq(waitfds, f)

Waiting(f) == InSeq(newClients, f)

Swept(f) == InSeq(invalid, f)

Accepted(f) == acceptPc = "push" /\ acceptFd = f

Placed(f) == Polled(f) \/ Waiting(f) \/ Swept(f) \/ Accepted(f)

\* The threads have ended before the destructor closes the clients.
StopInv ==
  dtorPc = "done" => acceptPc = "done" /\ readPc = "done" /\ writePc = "done"

\* Only a failing send() makes the write thread invalidate a client.
WriterInv == ~writeFailed => writePc # "invalidate"

\* No file descriptor is twice in one place.
DistinctInv ==
  ~writeFailed =>
    /\ Distinct(newClients) /\ Distinct(invalid)
    /\ \A j, k \in DOMAIN waitfds : waitfds[j] = waitfds[k] /\ waitfds[j] # -1 => j = k

\* No file descriptor is in two places.
ExclusiveInv ==
  ~writeFailed =>
    \A f \in Fds :
      /\ Polled(f) => ~Waiting(f) /\ ~Swept(f) /\ ~Accepted(f)
      /\ Waiting(f) => ~Swept(f) /\ ~Accepted(f)
      /\ Swept(f) => ~Accepted(f)

\* An open connection is in some place, and what is in a place is open.
PlacedInv ==
  ~writeFailed =>
    \A f \in Fds :
      /\ fdOwner[f] \in Clients => Placed(f)
      /\ Placed(f) => fdOwner[f] \in Clients \/ dtorPc = "done"

PlaceInv == StopInv /\ WriterInv /\ DistinctInv /\ ExclusiveInv /\ PlacedInv

\* The connection that sent the request is still open when its instance is mapped.
SenderInv ==
  ~writeFailed /\ readPc = "assign" => fdOwner[waitfds[Min(ready)]] = readFrom

RouteInv == SenderInv /\ MappedToCreator

(***************************************************************************)
(* Sequences of different elements.                                        *)
(***************************************************************************)

LEMMA AppendDistinct ==
  ASSUME NEW S, NEW s \in Seq(S), NEW e \in S
  PROVE  /\ \A x : InSeq(Append(s, e), x) <=> InSeq(s, x) \/ x = e
         /\ Distinct(s) /\ ~InSeq(s, e) => Distinct(Append(s, e))
<1>1. /\ DOMAIN s = 1 .. Len(s) /\ Len(s) \in Nat
      /\ DOMAIN Append(s, e) = 1 .. Len(s) + 1
      /\ Append(s, e)[Len(s) + 1] = e
      /\ \A k \in DOMAIN s : Append(s, e)[k] = s[k]
  BY AppendProperties, LenProperties
<1>2. \A k \in DOMAIN Append(s, e) : k \in DOMAIN s \/ k = Len(s) + 1
  BY <1>1
<1>3. DOMAIN s \subseteq DOMAIN Append(s, e) /\ Len(s) + 1 \in DOMAIN Append(s, e)
  BY <1>1
<1> QED
  BY <1>1, <1>2, <1>3 DEF InSeq, Distinct

LEMMA TailDistinct ==
  ASSUME NEW S, NEW s \in Seq(S), s # <<>>, Distinct(s)
  PROVE  /\ \A x : InSeq(Tail(s), x) <=> InSeq(s, x) /\ x # Head(s)
         /\ InSeq(s, Head(s))
         /\ Distinct(Tail(s))
<1>1. DOMAIN s = 1 .. Len(s) /\ Len(s) \in Nat \ {0}
  BY EmptySeq, LenProperties
<1>2. DOMAIN Tail(s) = 1 .. Len(s) - 1 /\ Head(s) = s[1]
  BY <1>1, HeadTailProperties, LenProperties
<1>3. \A k \in DOMAIN Tail(s) :
        k \in Nat /\ k + 1 \in DOMAIN s /\ k + 1 # 1 /\ Tail(s)[k] = s[k + 1]
  BY <1>1, <1>2, HeadTailProperties
<1>4. \A k \in DOMAIN s : k = 1 \/ (k - 1 \in DOMAIN Tail(s) /\ Tail(s)[k - 1] = s[k])
  <2> TAKE k \in DOMAIN s
  <2>1. k = 1 \/ k - 1 \in DOMAIN Tail(s)
    BY <1>1, <1>2
  <2>2. k - 1 \in DOMAIN Tail(s) => Tail(s)[k - 1] = s[k - 1 + 1]
    BY <1>3
  <2>3. k - 1 + 1 = k
    BY <1>1
  <2> QED
    BY <2>1, <2>2, <2>3
<1>5. 1 \in DOMAIN s
  BY <1>1
<1>6. InSeq(s, Head(s))
  BY <1>2, <1>5 DEF InSeq
<1>7. ASSUME NEW x PROVE InSeq(Tail(s), x) <=> InSeq(s, x) /\ x # Head(s)
  <2>1. ASSUME InSeq(Tail(s), x) PROVE InSeq(s, x) /\ x # Head(s)
    <3>1. PICK k \in DOMAIN Tail(s) : Tail(s)[k] = x
      BY <2>1 DEF InSeq
    <3>2. k + 1 \in DOMAIN s /\ s[k + 1] = x /\ k + 1 # 1
      BY <1>3, <3>1
    <3> QED
      BY <1>2, <1>5, <3>2 DEF InSeq, Distinct
  <2>2. ASSUME InSeq(s, x), x # Head(s) PROVE InSeq(Tail(s), x)
    BY <1>2, <1>4, <2>2 DEF InSeq
  <2> QED
    BY <2>1, <2>2
<1>8. Distinct(Tail(s))
  <2> SUFFICES ASSUME NEW j \in DOMAIN Tail(s), NEW k \in DOMAIN Tail(s), Tail(s)[j] = Tail(s)[k]
               PROVE  j = k
    BY DEF Distinct
  <2>1. j + 1 = k + 1
    BY <1>3 DEF Distinct
  <2> QED
    BY <1>3, <2>1
<1> QED
  BY <1>6, <1>7, <1>8

\* A slot is given up.
LEMMA SlotCleared ==
  ASSUME ReadTypes, NEW k \in 1 .. Len(waitfds), waitfds[k] \in Fds,
         \A i, j \in DOMAIN waitfds : waitfds[i] = waitfds[j] /\ waitfds[i] # -1 => i = j,
         waitfds' = [waitfds EXCEPT ![k] = -1]
  PROVE  /\ \A f \in Fds : InSeq(waitfds', f) <=> InSeq(waitfds, f) /\ f # waitfds[k]
         /\ \A i, j \in DOMAIN waitfds' : waitfds'[i] = waitfds'[j] /\ waitfds'[i] # -1 => i = j
<1>1. DOMAIN waitfds = 1 .. Len(waitfds)
  BY LenProperties DEF ReadTypes
<1>2. /\ DOMAIN waitfds' = DOMAIN waitfds
      /\ \A j \in DOMAIN waitfds : waitfds'[j] = IF j = k THEN -1 ELSE waitfds[j]
  BY <1>1
<1>3. -1 \notin Fds
  BY ServerAssumption DEF Fds
<1> QED
  BY <1>1, <1>2, <1>3 DEF InSeq

(***************************************************************************)
(* The places of a file descriptor.                                        *)
(***************************************************************************)

\* The variables that tell where a file descriptor is.
placeVars == <<waitfds, newClients, invalid, fdOwner, acceptFd>>

\* The other actions leave the file descriptors in their places.
Settled ==
  /\ UNCHANGED placeVars
  /\ acceptPc' = "push" <=> acceptPc = "push"
  /\ acceptPc' = "done" \/ acceptPc # "done"
  /\ readPc' = "done" \/ readPc # "done"
  /\ writePc' = "done" \/ writePc # "done"
  /\ ~writeFailed' => ~writeFailed
  /\ writePc' = "invalidate" => writePc = "invalidate" \/ writeFailed'
  /\ dtorPc' = "done" <=> dtorPc = "done"

LEMMA PlaceFrame ==
  ASSUME Next, TypeInv
  PROVE  \/ \E c \in Clients : AcceptClient(c)
         \/ AcceptPush \/ ReadRefresh \/ ReadDead \/ Destroyed
         \/ \E t \in Thread : InvalidateClose(t)
         \/ Settled
<1> USE DEF sharedVars, restVars, acceptVars, readVars, writeVars, sendVars, callerVars, fdVars,
            collectionVars, placeVars, Settled
<1>1. writeFailed \in BOOLEAN
  BY DEF TypeInv, SendTypes
<1>2. ASSUME NEW c \in Clients, Disconnect(c) PROVE Settled
  BY <1>1, <1>2 DEF Disconnect
<1>3. CASE AcceptAck \/ AcceptAckFails \/ AcceptFails
  BY <1>1, <1>3 DEF AcceptAck, AcceptAckFails, AcceptFails, LoopOr
<1>4. CASE ReadPoll \/ ReadAck \/ ReadScan \/ ReadRequested \/ ReadSweep \/ ReadSwept \/ ReadFails
  BY <1>1, <1>4
     DEF ReadPoll, ReadAck, ReadScan, ReadRequested, ReadSweep, ReadSwept, ReadFails, LoopOr
<1>5. CASE ReadCreate \/ ReadAssign \/ ReadOther \/ ReadThrows
  BY <1>1, <1>5 DEF ReadCreate, ReadAssign, ReadOther, ReadThrows
<1>6. ASSUME NEW t \in Thread, InvalidateLock(t) \/ InvalidateMapping(t) \/ InvalidateNotified(t)
      PROVE  Settled
  BY <1>1, <1>6 DEF InvalidateLock, InvalidateMapping, InvalidateNotified
<1>7. CASE WritePop \/ WriteLookup \/ WriteThrows \/ WriteStops
  BY <1>1, <1>7 DEF WritePop, WriteLookup, WriteThrows, WriteStops
<1>8. CASE WriteSend
  BY <1>1, <1>8 DEF WriteSend, SendOk, SendFails, SendKills, LoopOr
<1>9. ASSUME NEW i \in Instances,
             Enqueue(i, "create") \/ Enqueue(i, "forward") \/ UnmapBegin(i)
      PROVE  Settled
  BY <1>1, <1>9 DEF Enqueue, UnmapBegin
<1>10. CASE UnmapSend
  BY <1>1, <1>10 DEF UnmapSend, SendOk, SendFails, SendKills
<1>11. CASE UnmapErase \/ Destroy
  BY <1>1, <1>11 DEF UnmapErase, Destroy
<1> QED
  BY <1>2, <1>3, <1>4, <1>5, <1>6, <1>7, <1>8, <1>9, <1>10, <1>11
     DEF Next, AcceptStep, ReadStep, WriteStep, InvalidateStep, Thread

LEMMA SettledKeepsPlaces ==
  ASSUME PlaceInv, Settled
  PROVE  PlaceInv'
<1> USE DEF PlaceInv, Settled, placeVars
<1>1. \A f \in Fds : /\ Polled(f)' = Polled(f) /\ Waiting(f)' = Waiting(f)
                     /\ Swept(f)' = Swept(f) /\ Accepted(f)' = Accepted(f)
                     /\ Placed(f)' = Placed(f)
  BY DEF Polled, Waiting, Swept, Accepted, Placed, InSeq
<1>2. StopInv' /\ WriterInv'
  BY DEF StopInv, WriterInv
<1>3. DistinctInv'
  BY DEF DistinctInv, Distinct
<1>4. ExclusiveInv' /\ PlacedInv'
  BY <1>1 DEF ExclusiveInv, PlacedInv
<1> QED
  BY <1>2, <1>3, <1>4

\* accept() returns a file descriptor that is in no place.
LEMMA AcceptKeepsPlaces ==
  ASSUME TypeInv, PlaceInv, NEW c \in Clients, AcceptClient(c)
  PROVE  PlaceInv'
<1> DEFINE unused == {f \in Fds : fdOwner[f] = "closed"}
           g == Min(unused)
<1>1. unused \subseteq Nat /\ unused # {}
  BY DEF AcceptClient, Fds
<1>2. g \in unused
  BY <1>1, MinIsLeast
<1>3. /\ acceptPc = "poll" /\ acceptPc' = "push" /\ acceptFd' = g
      /\ fdOwner' = [fdOwner EXCEPT ![g] = c]
      /\ UNCHANGED <<waitfds, newClients, invalid, readPc, writePc, dtorPc, writeFailed>>
  BY DEF AcceptClient, collectionVars, readVars, writeVars, restVars, callerVars, sendVars
<1>4. g \in Fds /\ fdOwner[g] = "closed" /\ fdOwner[g] \notin Clients
  BY <1>2, ServerAssumption
<1> HIDE DEF g, unused
<1>5. fdOwner'[g] = c /\ \A f \in Fds : f # g => fdOwner'[f] = fdOwner[f]
  BY <1>3, <1>4 DEF TypeInv, FdTypes
<1>6. dtorPc # "done"
  BY <1>3 DEF PlaceInv, StopInv
<1>7. ~writeFailed => ~Placed(g)
  BY <1>4, <1>6 DEF PlaceInv, PlacedInv
<1>8. \A f \in Fds : /\ Polled(f)' = Polled(f) /\ Waiting(f)' = Waiting(f)
                     /\ Swept(f)' = Swept(f) /\ ~Accepted(f) /\ Accepted(f)' = (f = g)
  BY <1>3 DEF Polled, Waiting, Swept, Accepted, InSeq
<1>9. StopInv' /\ WriterInv' /\ DistinctInv'
  BY <1>3, <1>6 DEF PlaceInv, StopInv, WriterInv, DistinctInv, Distinct
<1>10. ExclusiveInv'
  BY <1>3, <1>7, <1>8 DEF PlaceInv, ExclusiveInv, Placed
<1>11. PlacedInv'
  BY <1>3, <1>4, <1>5, <1>6, <1>7, <1>8 DEF PlaceInv, PlacedInv, Placed
<1> QED
  BY <1>9, <1>10, <1>11 DEF PlaceInv

LEMMA PushKeepsPlaces ==
  ASSUME TypeInv, PlaceInv, AcceptPush
  PROVE  PlaceInv'
<1>1. /\ acceptPc = "push" /\ acceptPc' = "ack" /\ newClients' = Append(newClients, acceptFd)
      /\ UNCHANGED <<waitfds, invalid, fdOwner, readPc, writePc, dtorPc, writeFailed>>
  BY DEF AcceptPush, fdVars, readVars, writeVars, restVars, callerVars, sendVars
<1>2. newClients \in Seq(Fds) /\ acceptFd \in Fds
  BY DEF TypeInv, CollectionTypes, AcceptTypes
<1>3. ~writeFailed => ~InSeq(newClients, acceptFd)
  BY <1>1, <1>2 DEF PlaceInv, ExclusiveInv, Waiting, Accepted
<1>4. \A f \in Fds : /\ Polled(f)' = Polled(f) /\ Swept(f)' = Swept(f) /\ ~Accepted(f)'
                     /\ Accepted(f) = (f = acceptFd)
                     /\ Waiting(f)' <=> Waiting(f) \/ f = acceptFd
  BY <1>1, <1>2, AppendDistinct DEF Polled, Waiting, Swept, Accepted, InSeq
<1>5. ~writeFailed => Distinct(newClients')
  BY <1>1, <1>2, <1>3, AppendDistinct DEF PlaceInv, DistinctInv
<1>6. StopInv' /\ WriterInv' /\ DistinctInv'
  BY <1>1, <1>5 DEF PlaceInv, StopInv, WriterInv, DistinctInv, Distinct
<1>7. ExclusiveInv' /\ PlacedInv'
  BY <1>1, <1>2, <1>4 DEF PlaceInv, ExclusiveInv, PlacedInv, Placed
<1> QED
  BY <1>6, <1>7 DEF PlaceInv

\* The read thread moves a new client to a slot.
LEMMA RefreshKeepsPlaces ==
  ASSUME TypeInv, PlaceInv, ReadRefresh
  PROVE  PlaceInv'
<1> DEFINE g == Head(newClients)
<1>1. /\ newClients # <<>> /\ newClients' = Tail(newClients) /\ waitfds' = Append(waitfds, g)
      /\ readPc = "refresh"
      /\ UNCHANGED <<invalid, fdOwner, acceptPc, acceptFd, writePc, dtorPc, writeFailed>>
  BY DEF ReadRefresh, fdVars, acceptVars, writeVars, restVars, callerVars, sendVars
<1>2. /\ newClients \in Seq(Fds) /\ waitfds \in Seq(Fds \union {-1})
      /\ g \in Fds /\ g \in Fds \union {-1}
  BY <1>1, HeadTailProperties DEF TypeInv, CollectionTypes, ReadTypes
<1> HIDE DEF g
<1>3. ~writeFailed =>
        /\ \A x : InSeq(newClients', x) <=> InSeq(newClients, x) /\ x # g
        /\ InSeq(newClients, g) /\ Distinct(newClients')
  BY <1>1, <1>2, TailDistinct DEF PlaceInv, DistinctInv, g
<1>4. \A x : InSeq(waitfds', x) <=> InSeq(waitfds, x) \/ x = g
  BY <1>1, <1>2, AppendDistinct
<1>5. ~writeFailed => Waiting(g) /\ ~Polled(g)
  BY <1>2, <1>3 DEF PlaceInv, ExclusiveInv, Waiting
<1>6. ~writeFailed =>
        \A j, k \in DOMAIN waitfds' : waitfds'[j] = waitfds'[k] /\ waitfds'[j] # -1 => j = k
  <2>1. /\ \A k \in DOMAIN waitfds' : k \in DOMAIN waitfds \/ k = Len(waitfds) + 1
        /\ \A k \in DOMAIN waitfds : waitfds'[k] = waitfds[k]
        /\ waitfds'[Len(waitfds) + 1] = g
    BY <1>1, <1>2, AppendProperties, LenProperties
  <2> QED
    BY <1>5, <2>1 DEF PlaceInv, DistinctInv, Polled, InSeq
<1>7. StopInv' /\ WriterInv' /\ DistinctInv'
  BY <1>1, <1>3, <1>6 DEF PlaceInv, StopInv, WriterInv, DistinctInv
<1>8. ~writeFailed =>
        \A f \in Fds : /\ Polled(f)' <=> Polled(f) \/ f = g
                       /\ Waiting(f)' <=> Waiting(f) /\ f # g
                       /\ Swept(f)' = Swept(f) /\ Accepted(f)' = Accepted(f)
  BY <1>1, <1>3, <1>4 DEF Polled, Waiting, Swept, Accepted, InSeq
<1>9. ExclusiveInv' /\ PlacedInv'
  BY <1>1, <1>2, <1>5, <1>8 DEF PlaceInv, ExclusiveInv, PlacedInv, Placed
<1> QED
  BY <1>7, <1>9 DEF PlaceInv

\* The read thread gives up the slot of a client that is gone.
LEMMA DeadKeepsPlaces ==
  ASSUME TypeInv, PlaceInv, ReadDead
  PROVE  PlaceInv'
<1> DEFINE k == Min(ready)
           g == waitfds[k]
<1>1. /\ ready # {} /\ readPc = "scan"
      /\ invalid' = Append(invalid, g) /\ waitfds' = [waitfds EXCEPT ![k] = -1]
      /\ UNCHANGED <<newClients, fdOwner, acceptPc, acceptFd, readPc, writePc, dtorPc,
                     writeFailed>>
  BY DEF ReadDead, fdVars, acceptVars, writeVars, restVars, callerVars, sendVars,
         sharedVars, collectionVars
<1>2. ReadTypes /\ invalid \in Seq(Fds) /\ k \in 1 .. Len(waitfds) /\ g \in Fds
  BY <1>1, ReadySlot DEF TypeInv, ReadTypes
<1>3. InSeq(waitfds, g)
  BY <1>2, LenProperties DEF InSeq, ReadTypes
<1> HIDE DEF k, g
<1>4. g = waitfds[k]
  BY DEF g
<1>5. ~writeFailed =>
        /\ \A f \in Fds : InSeq(waitfds', f) <=> InSeq(waitfds, f) /\ f # g
        /\ \A i, j \in DOMAIN waitfds' : waitfds'[i] = waitfds'[j] /\ waitfds'[i] # -1 => i = j
  BY <1>1, <1>2, <1>4, SlotCleared DEF PlaceInv, DistinctInv
<1>6. ~writeFailed => Polled(g) /\ ~Swept(g)
  BY <1>2, <1>3 DEF PlaceInv, ExclusiveInv, Polled
<1>7. /\ \A x : InSeq(invalid', x) <=> InSeq(invalid, x) \/ x = g
      /\ ~writeFailed => Distinct(invalid')
  BY <1>1, <1>2, <1>6, AppendDistinct DEF PlaceInv, DistinctInv, Swept
<1>8. StopInv' /\ WriterInv' /\ DistinctInv'
  BY <1>1, <1>5, <1>7 DEF PlaceInv, StopInv, WriterInv, DistinctInv, Distinct
<1>9. ~writeFailed =>
        \A f \in Fds : /\ Polled(f)' <=> Polled(f) /\ f # g
                       /\ Swept(f)' <=> Swept(f) \/ f = g
                       /\ Waiting(f)' = Waiting(f) /\ Accepted(f)' = Accepted(f)
  BY <1>1, <1>5, <1>7 DEF Polled, Waiting, Swept, Accepted, InSeq
<1>10. ExclusiveInv' /\ PlacedInv'
  BY <1>1, <1>2, <1>6, <1>9 DEF PlaceInv, ExclusiveInv, PlacedInv, Placed
<1> QED
  BY <1>8, <1>10 DEF PlaceInv

\* As long as no send() has failed it is the read thread that closes a connection.
LEMMA ReaderCloses ==
  ASSUME TypeInv, PlaceInv, NEW t \in Thread, clientsOwner = t, ~writeFailed
  PROVE  t = "read" /\ readPc = "sweep" /\ invalid # <<>> /\ Head(invalid) \in Fds
<1>1. t = "read" /\ readPc = "sweep" /\ invalid # <<>>
  BY DEF TypeInv, HolderInv, AtInvalidate, PlaceInv, WriterInv, Thread
<1> QED
  BY <1>1, HeadTailProperties DEF TypeInv, ReadTypes

LEMMA CloseKeepsPlaces ==
  ASSUME TypeInv, PlaceInv, NEW t \in Thread, InvalidateClose(t)
  PROVE  PlaceInv'
<1> DEFINE g == Head(invalid)
<1>1. clientsOwner = t /\ UNCHANGED <<acceptPc, acceptFd, readPc, dtorPc, writeFailed>>
  BY DEF InvalidateClose, acceptVars, restVars, callerVars, sendVars
<1>2. StopInv'
  BY <1>1 DEF PlaceInv, StopInv, InvalidateClose, TypeInv, HolderInv, AtInvalidate, Thread
<1>3. CASE writeFailed
  BY <1>1, <1>2, <1>3 DEF PlaceInv, WriterInv, DistinctInv, ExclusiveInv, PlacedInv
<1>4. CASE ~writeFailed
  <2>1. t = "read" /\ readPc = "sweep" /\ invalid # <<>> /\ g \in Fds
    BY <1>1, <1>4, ReaderCloses
  <2>2. /\ invalid' = Tail(invalid) /\ fdOwner' = [fdOwner EXCEPT ![g] = "closed"]
        /\ UNCHANGED <<newClients, waitfds, writePc>>
    BY <2>1 DEF InvalidateClose, Target, collectionVars
  <2>3. dtorPc # "done"
    BY <2>1 DEF PlaceInv, StopInv
  <2>4. invalid \in Seq(Fds) /\ Distinct(invalid)
    BY <1>4 DEF TypeInv, ReadTypes, PlaceInv, DistinctInv
  <2> HIDE DEF g
  <2>5. /\ \A x : InSeq(invalid', x) <=> InSeq(invalid, x) /\ x # g
        /\ InSeq(invalid, g) /\ Distinct(invalid')
    BY <2>1, <2>2, <2>4, TailDistinct DEF g
  <2>6. fdOwner'[g] = "closed" /\ \A f \in Fds : f # g => fdOwner'[f] = fdOwner[f]
    BY <2>1, <2>2 DEF TypeInv, FdTypes
  <2>7. "closed" \notin Clients
    BY ServerAssumption
  <2>8. WriterInv' /\ DistinctInv'
    BY <1>1, <2>2, <2>5 DEF PlaceInv, WriterInv, DistinctInv
  <2>9. \A f \in Fds : /\ Swept(f)' <=> Swept(f) /\ f # g
                       /\ Polled(f)' = Polled(f) /\ Waiting(f)' = Waiting(f)
                       /\ Accepted(f)' = Accepted(f)
    BY <1>1, <2>2, <2>5 DEF Polled, Waiting, Swept, Accepted, InSeq
  <2>10. Swept(g) /\ ~Polled(g) /\ ~Waiting(g) /\ ~Accepted(g)
    BY <1>4, <2>1, <2>5 DEF PlaceInv, ExclusiveInv, Swept
  <2>11. ExclusiveInv' /\ PlacedInv'
    BY <1>1, <1>4, <2>1, <2>3, <2>6, <2>7, <2>9, <2>10
       DEF PlaceInv, ExclusiveInv, PlacedInv, Placed
  <2> QED
    BY <1>2, <2>8, <2>11 DEF PlaceInv
<1> QED
  BY <1>3, <1>4

LEMMA DestroyedKeepsPlaces ==
  ASSUME TypeInv, PlaceInv, Destroyed
  PROVE  PlaceInv'
<1>1. /\ acceptPc = "done" /\ readPc = "done" /\ writePc = "done" /\ dtorPc' = "done"
      /\ fdOwner' = [f \in Fds |-> IF f \in ToSet(clients) THEN "closed" ELSE fdOwner[f]]
      /\ UNCHANGED <<acceptPc, acceptFd, readPc, writePc, waitfds, newClients, invalid,
                     writeFailed>>
  BY DEF Destroyed, acceptVars, readVars, writeVars, collectionVars, sendVars
<1>2. \A f \in Fds : fdOwner'[f] \in Clients => fdOwner[f] \in Clients
  BY <1>1, ServerAssumption
<1>3. \A f \in Fds : /\ Polled(f)' = Polled(f) /\ Waiting(f)' = Waiting(f)
                     /\ Swept(f)' = Swept(f) /\ Accepted(f)' = Accepted(f)
                     /\ Placed(f)' = Placed(f)
  BY <1>1 DEF Polled, Waiting, Swept, Accepted, Placed, InSeq
<1>4. StopInv' /\ WriterInv' /\ DistinctInv'
  BY <1>1 DEF PlaceInv, StopInv, WriterInv, DistinctInv, Distinct
<1>5. ExclusiveInv' /\ PlacedInv'
  BY <1>1, <1>2, <1>3 DEF PlaceInv, ExclusiveInv, PlacedInv
<1> QED
  BY <1>4, <1>5 DEF PlaceInv

LEMMA PlaceInductive == TypeInv /\ PlaceInv /\ [Next]_vars => PlaceInv'
<1> SUFFICES ASSUME TypeInv, PlaceInv, [Next]_vars PROVE PlaceInv'
  OBVIOUS
<1>1. CASE UNCHANGED vars
  <2>1. Settled
    BY <1>1
       DEF vars, sharedVars, restVars, acceptVars, readVars, writeVars, sendVars, callerVars,
           fdVars, collectionVars, placeVars, Settled
  <2> QED
    BY <2>1, SettledKeepsPlaces
<1>2. CASE Next
  BY <1>2, PlaceFrame, SettledKeepsPlaces, AcceptKeepsPlaces, PushKeepsPlaces,
     RefreshKeepsPlaces, DeadKeepsPlaces, CloseKeepsPlaces, DestroyedKeepsPlaces
<1> QED
  BY <1>1, <1>2

LEMMA InitialPlaces == Init => PlaceInv
<1> SUFFICES ASSUME Init PROVE PlaceInv
  OBVIOUS
<1>1. \A f \in Fds : fdOwner[f] \notin Clients
  BY ServerAssumption DEF Init
<1>2. \A k : k \notin DOMAIN waitfds /\ k \notin DOMAIN newClients /\ k \notin DOMAIN invalid
  BY DEF Init
<1>3. \A f \in Fds : ~Polled(f) /\ ~Waiting(f) /\ ~Swept(f) /\ ~Accepted(f)
  BY <1>2 DEF Init, Polled, Waiting, Swept, Accepted, InSeq
<1> QED
  BY <1>1, <1>2, <1>3
     DEF Init, PlaceInv, StopInv, WriterInv, DistinctInv, Distinct, ExclusiveInv, PlacedInv,
         Placed

\* Every open connection is in one place, and no file descriptor is in two.
LEMMA PlacesHold == Spec => []PlaceInv
BY InitialPlaces, PlaceInductive, TypeCorrect, PTL DEF Spec

\* A set of at most one element.
LEMMA CardinalityOfOne ==
  ASSUME NEW S, \A x, y \in S : x = y
  PROVE  Cardinality(S) = IF S = {} THEN 0 ELSE 1
<1>1. CASE S = {}
  BY <1>1, FS_EmptySet
<1>2. ASSUME NEW x \in S PROVE Cardinality(S) = 1
  <2>1. S = {x}
    OBVIOUS
  <2> QED
    BY <2>1, FS_Singleton
<1> QED
  BY <1>1, <1>2

\* As long as no send() has failed, the read thread polls every open connection in
\* exactly one slot, or has it on the way there, for any number of connections.
THEOREM ConnectionsArePolledOnce == Spec => []PolledOnce
<1>1. TypeInv /\ PlaceInv => PolledOnce
  <2> SUFFICES ASSUME TypeInv, PlaceInv, ~writeFailed, NEW f \in Fds, fdOwner[f] \in Clients
               PROVE  Cardinality({k \in DOMAIN waitfds : waitfds[k] = f})
                      + Cardinality({k \in DOMAIN newClients : newClients[k] = f})
                      + Cardinality({k \in DOMAIN invalid : invalid[k] = f})
                      + (IF acceptPc = "push" /\ acceptFd = f THEN 1 ELSE 0) = 1
    BY DEF PolledOnce
  <2> DEFINE slots == {k \in DOMAIN waitfds : waitfds[k] = f}
             fresh == {k \in DOMAIN newClients : newClients[k] = f}
             swept == {k \in DOMAIN invalid : invalid[k] = f}
  <2>1. f # -1
    BY ServerAssumption DEF Fds
  <2>2. \A j, k \in slots : j = k
    BY <2>1 DEF PlaceInv, DistinctInv
  <2>3. (\A j, k \in fresh : j = k) /\ (\A j, k \in swept : j = k)
    BY DEF PlaceInv, DistinctInv, Distinct
  <2>4. (slots # {} <=> Polled(f)) /\ (fresh # {} <=> Waiting(f)) /\ (swept # {} <=> Swept(f))
    BY DEF Polled, Waiting, Swept, InSeq
  <2> HIDE DEF slots, fresh, swept
  <2>5. /\ Cardinality(slots) = IF Polled(f) THEN 1 ELSE 0
        /\ Cardinality(fresh) = IF Waiting(f) THEN 1 ELSE 0
        /\ Cardinality(swept) = IF Swept(f) THEN 1 ELSE 0
    BY <2>2, <2>3, <2>4, CardinalityOfOne
  <2>6. Placed(f)
    BY DEF PlaceInv, PlacedInv
  <2>7. Cardinality(slots) + Cardinality(fresh) + Cardinality(swept)
          + (IF acceptPc = "push" /\ acceptFd = f THEN 1 ELSE 0) = 1
    BY <2>5, <2>6 DEF PlaceInv, ExclusiveInv, Placed, Accepted
  <2> QED
    BY <2>7 DEF slots, fresh, swept
<1> QED
  BY <1>1, PlacesHold, TypeCorrect, PTL

(***************************************************************************)
(* The routes of client_map_.                                              *)
(***************************************************************************)

mapVars == <<clientMap, creator, fdOwner>>

\* The other actions leave the mappings and the request that is being read alone.
Kept ==
  /\ UNCHANGED mapVars
  /\ readPc' = "assign" => UNCHANGED <<readPc, waitfds, ready, readFrom>>
  /\ ~writeFailed' => ~writeFailed
  /\ dtorPc' # "done" => dtorPc # "done"

LEMMA RouteFrame ==
  ASSUME Next, TypeInv
  PROVE  \/ \E c \in Clients : AcceptClient(c)
         \/ ReadCreate \/ ReadAssign
         \/ \E t \in Thread : InvalidateMapping(t) \/ InvalidateClose(t)
         \/ WriteLookup \/ UnmapErase \/ \E i \in Instances : UnmapBegin(i)
         \/ Destroyed
         \/ Kept
<1> USE DEF sharedVars, restVars, readVars, sendVars, callerVars, fdVars, collectionVars,
            mapVars, Kept
<1>1. writeFailed \in BOOLEAN
  BY DEF TypeInv, SendTypes
<1>2. ASSUME NEW c \in Clients, Disconnect(c) PROVE Kept
  BY <1>1, <1>2 DEF Disconnect
<1>3. CASE AcceptPush \/ AcceptAck \/ AcceptAckFails \/ AcceptFails
  BY <1>1, <1>3 DEF AcceptPush, AcceptAck, AcceptAckFails, AcceptFails
<1>4. CASE \/ ReadPoll \/ ReadAck \/ ReadRefresh \/ ReadScan
           \/ ReadRequested \/ ReadSweep \/ ReadSwept \/ ReadFails
  BY <1>1, <1>4
     DEF ReadPoll, ReadAck, ReadRefresh, ReadScan, ReadRequested, ReadSweep, ReadSwept,
         ReadFails, LoopOr
<1>5. CASE ReadOther \/ ReadThrows \/ ReadDead
  BY <1>1, <1>5 DEF ReadOther, ReadThrows, ReadDead
<1>6. ASSUME NEW t \in Thread, InvalidateLock(t) \/ InvalidateNotified(t) PROVE Kept
  BY <1>1, <1>6 DEF InvalidateLock, InvalidateNotified
<1>7. CASE WritePop \/ WriteThrows \/ WriteStops
  BY <1>1, <1>7 DEF WritePop, WriteThrows, WriteStops
<1>8. CASE WriteSend
  BY <1>1, <1>8 DEF WriteSend, SendOk, SendFails, SendKills
<1>9. ASSUME NEW i \in Instances, Enqueue(i, "create") \/ Enqueue(i, "forward") PROVE Kept
  BY <1>1, <1>9 DEF Enqueue
<1>10. CASE UnmapSend
  BY <1>1, <1>10 DEF UnmapSend, SendOk, SendFails, SendKills
<1>11. CASE Destroy
  BY <1>1, <1>11 DEF Destroy
<1> QED
  BY <1>2, <1>3, <1>4, <1>5, <1>6, <1>7, <1>8, <1>9, <1>10, <1>11
     DEF Next, AcceptStep, ReadStep, WriteStep, InvalidateStep, Thread

LEMMA KeptKeepsRoutes ==
  ASSUME RouteInv, Kept
  PROVE  RouteInv'
BY DEF RouteInv, SenderInv, MappedToCreator, Kept, mapVars

\* A mapping that is followed leads to an open connection.
LEMMA MappedIsOpen ==
  ASSUME TypeInv, RouteInv, ~writeFailed, dtorPc # "done",
         NEW i \in DOMAIN clientMap, clientMap[i] # 0
  PROVE  /\ clientMap[i] \in Fds /\ i \in DOMAIN creator
         /\ fdOwner[clientMap[i]] = creator[i] /\ creator[i] \in Clients
         /\ creator[i] # "closed"
<1>1. clientMap \in Map(Fds) /\ creator \in Map(Clients)
  BY DEF TypeInv, CollectionTypes
<1>2. clientMap[i] \in Fds /\ \A j \in DOMAIN creator : creator[j] \in Clients
  BY <1>1, MapType
<1> QED
  BY <1>2, ServerAssumption DEF RouteInv, MappedToCreator

\* accept() returns a file descriptor that no mapping names.
LEMMA AcceptKeepsRoutes ==
  ASSUME TypeInv, PlaceInv, RouteInv, NEW c \in Clients, AcceptClient(c)
  PROVE  RouteInv'
<1> DEFINE unused == {f \in Fds : fdOwner[f] = "closed"}
           g == Min(unused)
<1>1. unused \subseteq Nat /\ unused # {}
  BY DEF AcceptClient, Fds
<1>2. g \in unused
  BY <1>1, MinIsLeast
<1>3. /\ fdOwner' = [fdOwner EXCEPT ![g] = c]
      /\ UNCHANGED <<clientMap, creator, readPc, waitfds, ready, readFrom, dtorPc, writeFailed>>
  BY DEF AcceptClient, collectionVars, readVars, restVars, callerVars, sendVars
<1>4. g \in Fds /\ fdOwner[g] = "closed"
  BY <1>2
<1> HIDE DEF g, unused
<1>5. \A f \in Fds : fdOwner[f] # "closed" => fdOwner'[f] = fdOwner[f]
  BY <1>3, <1>4 DEF TypeInv, FdTypes
<1>6. SenderInv'
  <2> SUFFICES ASSUME ~writeFailed, readPc = "assign"
               PROVE  fdOwner'[waitfds[Min(ready)]] = readFrom
    BY <1>3 DEF SenderInv
  <2>1. waitfds[Min(ready)] \in Fds /\ readFrom \in Clients
    BY ReadySlot DEF TypeInv, AssignInv
  <2>2. fdOwner[waitfds[Min(ready)]] = readFrom /\ readFrom # "closed"
    BY <2>1, ServerAssumption DEF RouteInv, SenderInv
  <2> QED
    BY <1>5, <2>1, <2>2
<1>7. MappedToCreator'
  BY <1>3, <1>5, MappedIsOpen DEF MappedToCreator
<1> QED
  BY <1>6, <1>7 DEF RouteInv

\* The map new is map with v at i.
Grown(new, map, i, v) ==
  /\ DOMAIN new = DOMAIN map \union {i} /\ new[i] = v
  /\ \A j \in DOMAIN map : j # i => new[j] = map[j]

\* What Extended does, in one formula.
LEMMA ExtendedGrows ==
  ASSUME NEW S, NEW map \in Map(S), NEW i \in Instances, NEW v \in S
  PROVE  Grown(Extended(map, i, v), map, i, v)
BY ExtendedType DEF Grown

\* An instance is mapped to the connection that its request came from.
LEMMA AssignKeepsRoutes ==
  ASSUME TypeInv, RouteInv, ReadAssign
  PROVE  RouteInv'
<1> DEFINE f == waitfds[Min(ready)]
<1>1. /\ readPc = "assign" /\ readPc' = "request"
      /\ clientMap' = Extended(clientMap, nextId, f)
      /\ creator' = Extended(creator, nextId, readFrom)
      /\ UNCHANGED <<fdOwner, dtorPc, writeFailed>>
  BY DEF ReadAssign, fdVars, restVars, callerVars, sendVars
<1>2. ready # {} /\ readFrom \in Clients /\ nextId \in Instances
  BY <1>1, ServerAssumption DEF TypeInv, AssignInv, CollectionTypes, Instances
<1>3. f \in Fds
  BY <1>2, ReadySlot DEF TypeInv
<1> HIDE DEF f
<1>4. clientMap \in Map(Fds) /\ creator \in Map(Clients)
  BY DEF TypeInv, CollectionTypes
<1>5. /\ DOMAIN clientMap' = DOMAIN clientMap \union {nextId} /\ clientMap'[nextId] = f
      /\ \A j \in DOMAIN clientMap : j # nextId => clientMap'[j] = clientMap[j]
  <2>1. Grown(Extended(clientMap, nextId, f), clientMap, nextId, f)
    BY <1>2, <1>3, <1>4, ExtendedGrows
  <2> QED
    BY <1>1, <2>1 DEF Grown
<1>6. /\ DOMAIN creator' = DOMAIN creator \union {nextId} /\ creator'[nextId] = readFrom
      /\ \A j \in DOMAIN creator : j # nextId => creator'[j] = creator[j]
  <2>1. Grown(Extended(creator, nextId, readFrom), creator, nextId, readFrom)
    BY <1>2, <1>4, ExtendedGrows
  <2> QED
    BY <1>1, <2>1 DEF Grown
<1>7. ~writeFailed => fdOwner[f] = readFrom
  BY <1>1 DEF RouteInv, SenderInv, f
<1>8. SenderInv'
  BY <1>1 DEF SenderInv
<1>9. MappedToCreator'
  BY <1>1, <1>5, <1>6, <1>7 DEF RouteInv, MappedToCreator
<1> QED
  BY <1>8, <1>9 DEF RouteInv

\* The file descriptor of a connection is closed when none of its mappings is left.
LEMMA CloseKeepsRoutes ==
  ASSUME TypeInv, PlaceInv, RouteInv, NEW t \in Thread, InvalidateClose(t)
  PROVE  RouteInv'
<1> SUFFICES ASSUME ~writeFailed PROVE RouteInv'
  BY DEF InvalidateClose, restVars, sendVars, RouteInv, SenderInv, MappedToCreator
<1> DEFINE g == Head(invalid)
<1>1. t = "read" /\ readPc = "sweep" /\ g \in Fds
  BY ReaderCloses DEF InvalidateClose
<1>2. /\ Mapped(g) = {} /\ fdOwner' = [fdOwner EXCEPT ![g] = "closed"]
      /\ UNCHANGED <<clientMap, creator, readPc, dtorPc, writeFailed>>
  BY <1>1 DEF InvalidateClose, Target, collectionVars, restVars, callerVars, sendVars
<1> HIDE DEF g
<1>3. \A i \in DOMAIN clientMap : clientMap[i] # g
  BY <1>2 DEF Mapped
<1>4. \A f \in Fds : f # g => fdOwner'[f] = fdOwner[f]
  BY <1>1, <1>2 DEF TypeInv, FdTypes
<1>5. SenderInv'
  BY <1>1, <1>2 DEF SenderInv
<1>6. MappedToCreator'
  BY <1>2, <1>3, <1>4, MappedIsOpen DEF MappedToCreator
<1> QED
  BY <1>5, <1>6 DEF RouteInv

\* Mappings are erased, or made of nothing.
LEMMA LookupKeepsRoutes ==
  ASSUME TypeInv, RouteInv,
         \/ \E t \in Thread : InvalidateMapping(t)
         \/ WriteLookup \/ UnmapErase \/ \E i \in Instances : UnmapBegin(i)
  PROVE  RouteInv'
<1>1. /\ UNCHANGED <<creator, fdOwner, readPc, waitfds, ready, readFrom, dtorPc, writeFailed>>
      /\ \/ \E i \in Instances : clientMap' = Erased(clientMap, i)
         \/ \E i \in Instances : clientMap' = Extended(clientMap, i, Lookup(i))
  <2> USE DEF fdVars, readVars, restVars, callerVars, sendVars
  <2>1. ASSUME NEW t \in Thread, InvalidateMapping(t) PROVE <1>1
    <3>1. Mapped(Target(t)) # {} /\ clientMap' = Erased(clientMap, Min(Mapped(Target(t))))
      BY <2>1 DEF InvalidateMapping
    <3>2. Mapped(Target(t)) \subseteq Instances
      BY MapType DEF TypeInv, CollectionTypes, Mapped
    <3>3. Instances \subseteq Nat
      BY DEF Instances
    <3>4. Min(Mapped(Target(t))) \in Instances
      BY <3>1, <3>2, <3>3, MinIsLeast
    <3> QED
      BY <2>1, <3>1, <3>4 DEF InvalidateMapping
  <2>2. CASE WriteLookup
    <3>1. writeMsg.instance \in Instances
      BY <2>2 DEF WriteLookup, TypeInv, WriteTypes
    <3> QED
      BY <2>2, <3>1 DEF WriteLookup
  <2>3. CASE UnmapErase
    <3>1. unmapMsg.instance \in Instances
      BY <2>3 DEF UnmapErase, TypeInv, UnmapTypes
    <3> QED
      BY <2>3, <3>1 DEF UnmapErase
  <2>4. ASSUME NEW i \in Instances, UnmapBegin(i) PROVE <1>1
    BY <2>4 DEF UnmapBegin
  <2> QED
    BY <2>1, <2>2, <2>3, <2>4
<1>2. clientMap \in Map(Fds) /\ \A i : Lookup(i) \in Fds
  BY LookupType DEF TypeInv, CollectionTypes
<1>3. \A i \in DOMAIN clientMap' : clientMap'[i] # 0 =>
        i \in DOMAIN clientMap /\ clientMap'[i] = clientMap[i]
  <2>1. ASSUME NEW i \in Instances, clientMap' = Erased(clientMap, i) PROVE <1>3
    <3>1. /\ DOMAIN Erased(clientMap, i) = DOMAIN clientMap \ {i}
          /\ \A j \in DOMAIN Erased(clientMap, i) : Erased(clientMap, i)[j] = clientMap[j]
      BY <1>2, ErasedType
    <3> QED
      BY <2>1, <3>1
  <2>2. ASSUME NEW i \in Instances, clientMap' = Extended(clientMap, i, Lookup(i)) PROVE <1>3
    <3>1. /\ DOMAIN clientMap' = DOMAIN clientMap \union {i} /\ clientMap'[i] = Lookup(i)
          /\ \A j \in DOMAIN clientMap : j # i => clientMap'[j] = clientMap[j]
      BY <1>2, <2>2, ExtendedType
    <3> QED
      BY <3>1 DEF Lookup
  <2> QED
    BY <1>1, <2>1, <2>2
<1>4. SenderInv'
  BY <1>1 DEF RouteInv, SenderInv
<1>5. MappedToCreator'
  BY <1>1, <1>3 DEF RouteInv, MappedToCreator
<1> QED
  BY <1>4, <1>5 DEF RouteInv

LEMMA RouteInductive ==
  TypeInv /\ PlaceInv /\ RouteInv /\ [Next]_vars => RouteInv'
<1> SUFFICES ASSUME TypeInv, PlaceInv, RouteInv, [Next]_vars PROVE RouteInv'
  OBVIOUS
<1>1. CASE UNCHANGED vars
  <2>1. Kept
    BY <1>1
       DEF vars, sharedVars, restVars, readVars, sendVars, callerVars, fdVars,
           collectionVars, mapVars, Kept
  <2> QED
    BY <2>1, KeptKeepsRoutes
<1>2. CASE ReadCreate
  BY <1>2
     DEF ReadCreate, sharedVars, restVars, sendVars, callerVars, fdVars, collectionVars,
         RouteInv, SenderInv, MappedToCreator
<1>3. CASE Destroyed
  <2>1. dtorPc' = "done" /\ readPc' = "done"
    BY <1>3 DEF Destroyed, readVars
  <2> QED
    BY <2>1 DEF RouteInv, SenderInv, MappedToCreator
<1>4. CASE Next
  BY <1>2, <1>3, <1>4, RouteFrame, KeptKeepsRoutes, AcceptKeepsRoutes, AssignKeepsRoutes,
     CloseKeepsRoutes, LookupKeepsRoutes
<1> QED
  BY <1>1, <1>4

\* As long as no send() has failed, a mapping of client_map_ leads to the connection that
\* created the instance, however many connections come and go and descriptors are reused.
THEOREM RoutesLeadToCreators == Spec => []MappedToCreator
<1>1. Init => RouteInv
  BY DEF Init, RouteInv, SenderInv, MappedToCreator
<1>2. RouteInv => MappedToCreator
  BY DEF RouteInv
<1> QED
  BY <1>1, <1>2, RouteInductive, PlacesHold, TypeCorrect, PTL DEF Spec
=============================================================================
