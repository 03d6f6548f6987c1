--------------------------- MODULE ConductorProofs ---------------------------
(***************************************************************************)
(* Theorems about module Conductor, for every bound on instances,          *)
(* requests, sertop output and invalidations.                              *)
(***************************************************************************)
EXTENDS Conductor, SequenceTheorems, TLAPS

(***************************************************************************)
(* The inductive invariant.                                                *)
(***************************************************************************)

\* The places at which the run thread holds queue_m_.
RunHolds ==
  {"test", "sleep", "awake", "requests", "created", "join", "unmap", "sending", "responses"}

\* The request being handled stays at the front of in_queue_ until the run thread
\* pops it.
FrontInv == runPc \in {"created", "join", "unmap", "sending"} => inQueue # <<>>

TypeInv == TypeOK /\ FrontInv

\* queue_m_ is held by the thread that runs inside it.
LockInv ==
  /\ runPc \in RunHolds => queueOwner = "run"
  /\ srvPc = "join" => queueOwner = "srv"

\* A create response is under construction only while the run thread is in the
\* constructor of the worker.
CreatingInv == creating # {} => runPc = "created"

\* Its id is newer than every id that has been pushed.
DrawnInv ==
  \A c \in creating :
    /\ creating = {c} /\ c.verb = "create" /\ c.id < nextId
    /\ \A k \in DOMAIN outQueue : outQueue[k].id < c.id
    /\ \A j \in DOMAIN enqueued : enqueued[j].id < c.id

\* A worker whose reader thread has been started has its create response pushed or
\* under construction.
StartedInv ==
  \A i \in Instances : reader[i] # "none" =>
    \E c \in Pushed \union creating :
      /\ c.instance = i /\ c.id < nextId
      /\ c.verb = "create" /\ c.status = "success"

OrderInv == ResponseIdsOrdered /\ DrawnInv

IInv ==
  TypeInv /\ LockInv /\ CreatingInv /\ OrderInv /\ StartedInv /\ CreateBeforeOutput

(***************************************************************************)
(* Sequences of responses.                                                 *)
(***************************************************************************)

\* Appending adds one element to the set of elements.
LEMMA AppendSet ==
  ASSUME NEW S, NEW s \in Seq(S), NEW e \in S
  PROVE  ToSet(Append(s, e)) = ToSet(s) \union {e}
BY AppendProperties, LenProperties DEF ToSet

\* A nonempty sequence has its head and the elements of its tail.
LEMMA HeadTailSet ==
  ASSUME NEW S, NEW s \in Seq(S), s # <<>>
  PROVE  ToSet(s) = ToSet(Tail(s)) \union {Head(s)}
<1>1. ASSUME NEW e \in ToSet(Tail(s)) PROVE e \in ToSet(s)
  <2>1. PICK k \in DOMAIN Tail(s) : e = Tail(s)[k]
    BY DEF ToSet
  <2>2. k + 1 \in DOMAIN s /\ Tail(s)[k] = s[k + 1]
    BY HeadTailProperties, LenProperties
  <2> QED
    BY <2>1, <2>2 DEF ToSet
<1>2. ASSUME NEW e \in ToSet(s) PROVE e \in ToSet(Tail(s)) \union {Head(s)}
  <2>1. PICK k \in DOMAIN s : e = s[k]
    BY DEF ToSet
  <2>2. k = 1 \/ (k - 1 \in DOMAIN Tail(s) /\ Tail(s)[k - 1] = s[k])
    BY HeadTailProperties, LenProperties
  <2> QED
    BY <2>1, <2>2 DEF ToSet
<1>3. Head(s) \in ToSet(s)
  BY EmptySeq, LenProperties DEF ToSet
<1> QED
  BY <1>1, <1>2, <1>3

\* Ids are numbers.
LEMMA IdType ==
  ASSUME NEW s \in Seq(Response)
  PROVE  \A k \in DOMAIN s : s[k].id \in Nat
<1>1. \A k \in DOMAIN s : s[k] \in Response
  BY ElementOfSeq, LenProperties
<1> QED
  BY <1>1 DEF Response

\* A response whose id is larger than all others may be appended.
LEMMA AppendIncreasing ==
  ASSUME NEW s \in Seq(Response), Increasing(s), NEW r \in Response,
         \A k \in DOMAIN s : s[k].id < r.id
  PROVE  Increasing(Append(s, r))
<1>1. \A k \in DOMAIN Append(s, r) :
        \/ k \in DOMAIN s /\ Append(s, r)[k] = s[k]
        \/ k = Len(s) + 1 /\ Append(s, r)[k] = r
  BY AppendProperties, LenProperties
<1>2. DOMAIN s = 1 .. Len(s) /\ Len(s) \in Nat
  BY LenProperties
<1> QED
  BY <1>1, <1>2 DEF Increasing

\* The front is older than the rest.
LEMMA TailIncreasing ==
  ASSUME NEW s \in Seq(Response), Increasing(s), s # <<>>
  PROVE  /\ Increasing(Tail(s))
         /\ \A k \in DOMAIN Tail(s) : Head(s).id < Tail(s)[k].id
<1>1. \A k \in DOMAIN Tail(s) : k \in Nat /\ k >= 1 /\ k + 1 \in DOMAIN s /\ Tail(s)[k] = s[k + 1]
  BY HeadTailProperties, LenProperties
<1>2. Head(s) = s[1] /\ 1 \in DOMAIN s
  BY EmptySeq, LenProperties
<1> QED
  BY <1>1, <1>2 DEF Increasing

(***************************************************************************)
(* What a step may do to the responses, and what it preserves.             *)
(***************************************************************************)

\* The types of the four variables.
ResponseTypeOK ==
  outQueue \in Seq(Response) /\ enqueued \in Seq(Response) /\ nextId \in Nat
  /\ creating \subseteq Response

\* A response with a fresh id is pushed on out_queue_.
Push(r) ==
  /\ r \in Response /\ r.id = nextId /\ nextId' = nextId + 1
  /\ outQueue' = Append(outQueue, r)
  /\ UNCHANGED <<enqueued, creating>>

\* A fresh id is drawn for a create response that is pushed later.
Draw(r) ==
  /\ r \in Response /\ r.id = nextId /\ nextId' = nextId + 1
  /\ creating' = {r}
  /\ UNCHANGED <<outQueue, enqueued>>

\* The drawn response is pushed.
PushDrawn(r) ==
  /\ r \in creating /\ creating' = {}
  /\ outQueue' = Append(outQueue, r)
  /\ UNCHANGED <<enqueued, nextId>>

\* The front of out_queue_ is handed to server::enqueue.
HandOver ==
  /\ outQueue # <<>>
  /\ outQueue' = Tail(outQueue)
  /\ enqueued' = Append(enqueued, Head(outQueue))
  /\ UNCHANGED <<nextId, creating>>

\* The id of a destroy response is drawn; unmap writes it past the queues.
Skip == nextId' = nextId + 1 /\ UNCHANGED <<outQueue, enqueued, creating>>

\* A response with a fresh id is the newest one.
LEMMA PushOrder ==
  ASSUME ResponseTypeOK, OrderInv, creating = {}, NEW r, Push(r)
  PROVE  OrderInv' /\ Pushed' = Pushed \union {r}
<1> USE DEF ResponseTypeOK, Push
<1>1. Increasing(outQueue')
  BY AppendIncreasing DEF OrderInv, ResponseIdsOrdered
<1>2. \A k \in DOMAIN outQueue' :
        (k \in DOMAIN outQueue /\ outQueue'[k] = outQueue[k]) \/ outQueue'[k] = r
  BY AppendProperties, LenProperties
<1>3. \A k \in DOMAIN outQueue : outQueue[k].id \in Nat
  BY IdType
<1>4. \A j \in DOMAIN enqueued : enqueued[j].id \in Nat
  BY IdType
<1>5. OrderInv'
  BY <1>1, <1>2, <1>3, <1>4 DEF OrderInv, ResponseIdsOrdered, DrawnInv
<1> QED
  BY <1>5, AppendSet DEF Pushed

\* So is one that is still under construction.
LEMMA DrawOrder ==
  ASSUME ResponseTypeOK, OrderInv, NEW r, Draw(r), r.verb = "create"
  PROVE  OrderInv' /\ Pushed' = Pushed
<1> USE DEF ResponseTypeOK, Draw
<1>1. \A k \in DOMAIN outQueue : outQueue[k].id \in Nat
  BY IdType
<1>2. \A j \in DOMAIN enqueued : enqueued[j].id \in Nat
  BY IdType
<1> QED
  BY <1>1, <1>2 DEF OrderInv, ResponseIdsOrdered, DrawnInv, Pushed

\* It still is when it is pushed.
LEMMA PushDrawnOrder ==
  ASSUME ResponseTypeOK, OrderInv, NEW r, PushDrawn(r)
  PROVE  OrderInv' /\ Pushed' = Pushed \union {r}
<1> USE DEF ResponseTypeOK, PushDrawn
<1>1. \A k \in DOMAIN outQueue : outQueue[k].id < r.id
  BY DEF OrderInv, DrawnInv
<1>2. Increasing(outQueue')
  BY <1>1, AppendIncreasing DEF OrderInv, ResponseIdsOrdered
<1>3. \A k \in DOMAIN outQueue' :
        (k \in DOMAIN outQueue /\ outQueue'[k] = outQueue[k]) \/ outQueue'[k] = r
  BY AppendProperties, LenProperties
<1>4. OrderInv'
  BY <1>2, <1>3 DEF OrderInv, ResponseIdsOrdered, DrawnInv
<1> QED
  BY <1>4, AppendSet DEF Pushed

\* The front of out_queue_ is newer than what was handed over before it.
LEMMA HandOverOrder ==
  ASSUME ResponseTypeOK, OrderInv, HandOver
  PROVE  OrderInv' /\ Pushed' = Pushed
<1> USE DEF ResponseTypeOK, HandOver
<1>1. Head(outQueue) \in Response /\ Tail(outQueue) \in Seq(Response)
  BY HeadTailProperties
<1>2. Head(outQueue) = outQueue[1] /\ 1 \in DOMAIN outQueue
  BY EmptySeq, LenProperties
<1>3. /\ Increasing(outQueue')
      /\ \A k \in DOMAIN outQueue' : Head(outQueue).id < outQueue'[k].id
  BY TailIncreasing DEF OrderInv, ResponseIdsOrdered
<1>4. \A j \in DOMAIN enqueued : enqueued[j].id < Head(outQueue).id
  BY <1>2 DEF OrderInv, ResponseIdsOrdered
<1>5. Increasing(enqueued')
  BY <1>1, <1>4, AppendIncreasing DEF OrderInv, ResponseIdsOrdered
<1>6. \A j \in DOMAIN enqueued' :
        (j \in DOMAIN enqueued /\ enqueued'[j] = enqueued[j]) \/ enqueued'[j] = Head(outQueue)
  BY <1>1, AppendProperties, LenProperties
<1>7. \A k \in DOMAIN outQueue' : k + 1 \in DOMAIN outQueue /\ outQueue'[k] = outQueue[k + 1]
  BY HeadTailProperties, LenProperties
<1>8. OrderInv'
  BY <1>2, <1>3, <1>5, <1>6, <1>7 DEF OrderInv, ResponseIdsOrdered, DrawnInv
<1>9. ToSet(enqueued') = ToSet(enqueued) \union {Head(outQueue)}
  BY <1>1, AppendSet
<1>10. ToSet(outQueue) = ToSet(outQueue') \union {Head(outQueue)}
  BY HeadTailSet
<1> QED
  BY <1>8, <1>9, <1>10 DEF Pushed

\* An id that is not pushed leaves a gap.
LEMMA SkipOrder ==
  ASSUME ResponseTypeOK, OrderInv, Skip
  PROVE  OrderInv' /\ Pushed' = Pushed
<1> USE DEF ResponseTypeOK, Skip
<1>1. \A k \in DOMAIN outQueue : outQueue[k].id \in Nat
  BY IdType
<1>2. \A j \in DOMAIN enqueued : enqueued[j].id \in Nat
  BY IdType
<1>3. \A c \in creating : c.id \in Nat
  BY DEF Response
<1> QED
  BY <1>1, <1>2, <1>3 DEF OrderInv, ResponseIdsOrdered, DrawnInv, Pushed

\* Steps that leave the responses alone.
LEMMA SameOrder ==
  ASSUME ResponseTypeOK, OrderInv, UNCHANGED responseVars
  PROVE  OrderInv' /\ Pushed' = Pushed
BY DEF OrderInv, ResponseIdsOrdered, DrawnInv, Pushed, responseVars

(***************************************************************************)
(* Type correctness.                                                       *)
(***************************************************************************)

\* The request at the front of in_queue_.
LEMMA SubjectType ==
  ASSUME inQueue \in Seq(Request), inQueue # <<>>
  PROVE  /\ Head(inQueue) \in Request /\ Tail(inQueue) \in Seq(Request)
         /\ Subject \in Instances /\ Subject \in Nat
<1>1. Head(inQueue) \in Request /\ Tail(inQueue) \in Seq(Request)
  BY HeadTailProperties
<1> QED
  BY <1>1, BoundsAssumption DEF Subject, Request, Instances

\* create_empty_response makes a response.
LEMMA NewResponseType ==
  ASSUME nextId \in Nat, NEW instance \in Nat, NEW priority \in Int,
         NEW status \in Status, NEW verb \in Verb
  PROVE  NewResponse(instance, priority, status, verb) \in Response
BY DEF NewResponse, Response

\* ~worker clears a flag and may make a pipe readable.
LEMMA StopThreadsType ==
  ASSUME WorkerTypeOK, NEW i, StopThreads(i)
  PROVE  /\ running' \in [Instances -> BOOLEAN] /\ interrupted' \in [Instances -> BOOLEAN]
         /\ UNCHANGED <<reader, writer, pending>>
BY DEF WorkerTypeOK, StopThreads

\* The initial values have their types.
LEMMA InitTypeInv ==
  ASSUME Init PROVE TypeInv
<1> USE BoundsAssumption DEF TypeInv, TypeOK, FrontInv
<1>1. QueueTypeOK
  BY EmptySeq DEF Init, QueueTypeOK
<1>2. WorkerTypeOK
  BY DEF Init, WorkerTypeOK
<1>3. ControlTypeOK
  <2>1. 0 \in 0 .. MaxOutputs /\ 0 \in 0 .. MaxInstances
        /\ 0 \in 0 .. MaxRequests /\ 0 \in 0 .. MaxInvalidations
    OBVIOUS
  <2> QED
    BY <2>1 DEF Init, ControlTypeOK, Crash
<1> QED
  BY <1>1, <1>2, <1>3 DEF Init

\* Every step keeps the types, and leaves a request that is being handled in place.
LEMMA NextTypeInv ==
  ASSUME TypeInv, [Next]_vars PROVE TypeInv'
<1> USE BoundsAssumption DEF TypeInv, TypeOK, FrontInv
<1> USE DEF vars, responseVars, flagVars, workerVars, serverVars, historyVars,
           mainVars, elsewhere, Wake
<1>1. inQueue # <<>> =>
        /\ Head(inQueue) \in Request /\ Tail(inQueue) \in Seq(Request)
        /\ Subject \in Instances /\ Subject \in Nat
  BY SubjectType DEF QueueTypeOK
<1>2. \A i \in Instances : i \in Nat
  BY DEF Instances
<1>3. CASE RunCheck
  BY <1>3 DEF RunCheck, QueueTypeOK, WorkerTypeOK, ControlTypeOK
<1>4. CASE RunLock
  BY <1>4 DEF RunLock, QueueTypeOK, WorkerTypeOK, ControlTypeOK
<1>5. CASE RunTest
  BY <1>5 DEF RunTest, Ready, QueueTypeOK, WorkerTypeOK, ControlTypeOK
<1>6. CASE RunSleep
  BY <1>6 DEF RunSleep, QueueTypeOK, WorkerTypeOK, ControlTypeOK
<1>7. CASE RunTimeout
  BY <1>7 DEF RunTimeout, QueueTypeOK, WorkerTypeOK, ControlTypeOK
<1>8. CASE RunWoken
  BY <1>8 DEF RunWoken, QueueTypeOK, WorkerTypeOK, ControlTypeOK
<1>9. CASE RunAwake
  BY <1>9 DEF RunAwake, QueueTypeOK, WorkerTypeOK, ControlTypeOK
<1>10. CASE RunCreate
  <2>1. inQueue # <<>>
    BY <1>10 DEF RunCreate, Handling
  <2> DEFINE made(status) == NewResponse(Subject, 1, status, "create")
  <2>2. \A status \in Status : made(status) \in Response
    BY <1>1, <2>1, NewResponseType DEF Verb, QueueTypeOK
  <2> HIDE DEF made
  <2>3. PICK status \in Status : creating' = {made(status)}
    BY <1>10 DEF RunCreate, made
  <2>4. QueueTypeOK'
    <3>1. creating' \subseteq Response
      BY <2>2, <2>3
    <3>2. UNCHANGED <<inQueue, outQueue, enqueued>> /\ nextId' = nextId + 1
      BY <1>10 DEF RunCreate
    <3> QED
      BY <3>1, <3>2 DEF QueueTypeOK
  <2>5. WorkerTypeOK'
    <3>1. Subject \in Instances
      BY <1>1, <2>1
    <3>2. \/ /\ workers' = workers \union {Subject}
             /\ running' = [running EXCEPT ![Subject] = TRUE]
             /\ reader' = [reader EXCEPT ![Subject] = "poll"]
             /\ writer' = [writer EXCEPT ![Subject] = "wait"]
             /\ UNCHANGED <<interrupted, pending>>
          \/ UNCHANGED <<workers, workerVars>>
      BY <1>10 DEF RunCreate
    <3> QED
      BY <3>1, <3>2 DEF WorkerTypeOK
  <2>6. ControlTypeOK' /\ FrontInv'
    BY <1>10, <2>1 DEF RunCreate, ControlTypeOK
  <2> QED
    BY <2>4, <2>5, <2>6
<1>11. CASE RunCreated
  BY <1>11, <1>1 DEF RunCreated, QueueTypeOK, WorkerTypeOK, ControlTypeOK
<1>12. CASE RunCreateThrows
  BY <1>12 DEF RunCreateThrows, Handling, Crash, QueueTypeOK, WorkerTypeOK, ControlTypeOK
<1>13. CASE RunForward
  <2>1. QueueTypeOK'
    BY <1>13, <1>1 DEF RunForward, Handling, Crash, QueueTypeOK
  <2>2. WorkerTypeOK'
    <3>1. /\ Subject \in Instances
          /\ pending' = [pending EXCEPT ![Subject] = @ + 1] \/ UNCHANGED pending
          /\ UNCHANGED <<workers, running, interrupted, reader, writer>>
      BY <1>13, <1>1 DEF RunForward, Handling
    <3> QED
      BY <3>1 DEF WorkerTypeOK
  <2>3. ControlTypeOK' /\ FrontInv'
    BY <1>13, <1>1 DEF RunForward, Handling, Crash, ControlTypeOK
  <2> QED
    BY <2>1, <2>2, <2>3
<1>14. CASE RunDestroy
  <2>1. QueueTypeOK'
    BY <1>14 DEF RunDestroy, StopThreads, QueueTypeOK
  <2>2. WorkerTypeOK'
    <3>1. /\ Subject \in Instances /\ workers' = workers \ {Subject}
          /\ StopThreads(Subject) \/ UNCHANGED workerVars
      BY <1>14, <1>1 DEF RunDestroy, Handling
    <3> QED
      BY <3>1, StopThreadsType DEF WorkerTypeOK
  <2>3. ControlTypeOK' /\ FrontInv'
    BY <1>14, <1>1 DEF RunDestroy, Handling, ControlTypeOK
  <2> QED
    BY <2>1, <2>2, <2>3
<1>15. CASE RunJoined
  BY <1>15 DEF RunJoined, QueueTypeOK, WorkerTypeOK, ControlTypeOK
<1>16. CASE RunUnmap
  <2>1. QueueTypeOK'
    BY <1>16, <1>1 DEF RunUnmap, QueueTypeOK
  <2>2. WorkerTypeOK'
    BY <1>16, <1>1 DEF RunUnmap, WorkerTypeOK
  <2>3. ControlTypeOK' /\ FrontInv'
    BY <1>16, <1>1 DEF RunUnmap, ControlTypeOK
  <2> QED
    BY <2>1, <2>2, <2>3
<1>17. CASE RunStop
  BY <1>17, <1>1 DEF RunStop, Handling, QueueTypeOK, WorkerTypeOK, ControlTypeOK
<1>18. CASE RunRequestsDone
  BY <1>18 DEF RunRequestsDone, QueueTypeOK, WorkerTypeOK, ControlTypeOK
<1>19. CASE RunEnqueue
  BY <1>19 DEF RunEnqueue, QueueTypeOK, WorkerTypeOK, ControlTypeOK
<1>20. CASE RunUnlock
  BY <1>20 DEF RunUnlock, QueueTypeOK, WorkerTypeOK, ControlTypeOK
<1>21. CASE OnServerFailure
  BY <1>21 DEF OnServerFailure, QueueTypeOK, WorkerTypeOK, ControlTypeOK
<1>22. CASE InvalidateBegin
  BY <1>22 DEF InvalidateBegin, QueueTypeOK, WorkerTypeOK, ControlTypeOK
<1>23. CASE OnInvalidate
  <2>1. QueueTypeOK'
    BY <1>23 DEF OnInvalidate, StopThreads, QueueTypeOK
  <2>2. WorkerTypeOK'
    BY <1>23, StopThreadsType DEF OnInvalidate, WorkerTypeOK
  <2>3. ControlTypeOK' /\ FrontInv'
    BY <1>23 DEF OnInvalidate, StopThreads, ControlTypeOK
  <2> QED
    BY <2>1, <2>2, <2>3
<1>24. CASE OnInvalidateJoined
  BY <1>24 DEF OnInvalidateJoined, QueueTypeOK, WorkerTypeOK, ControlTypeOK
<1>25. CASE InvalidateEnd
  BY <1>25 DEF InvalidateEnd, QueueTypeOK, WorkerTypeOK, ControlTypeOK
<1>26. CASE Notify
  BY <1>26 DEF Notify, QueueTypeOK, WorkerTypeOK, ControlTypeOK
<1>27. CASE MainJoined
  BY <1>27 DEF MainJoined, QueueTypeOK, WorkerTypeOK, ControlTypeOK
<1>28. CASE MainReaped
  BY <1>28 DEF MainReaped, QueueTypeOK, WorkerTypeOK, ControlTypeOK
<1>29. CASE MainExit
  BY <1>29 DEF MainExit, QueueTypeOK, WorkerTypeOK, ControlTypeOK
<1>30. CASE LateCallback
  BY <1>30 DEF LateCallback, Crash, QueueTypeOK, WorkerTypeOK, ControlTypeOK
<1>31. ASSUME NEW i \in Instances, InvalidateNext(i) PROVE TypeInv'
  <2>1. QueueTypeOK'
    BY <1>31, <1>2 DEF InvalidateNext, QueueTypeOK
  <2>2. WorkerTypeOK'
    BY <1>31, <1>2 DEF InvalidateNext, WorkerTypeOK
  <2>3. ControlTypeOK' /\ FrontInv'
    BY <1>31, <1>2 DEF InvalidateNext, ControlTypeOK
  <2> QED
    BY <2>1, <2>2, <2>3
<1>32. ASSUME NEW i \in Instances, ReaderReads(i) PROVE TypeInv'
  BY <1>32, <1>2 DEF ReaderReads, QueueTypeOK, WorkerTypeOK, ControlTypeOK
<1>33. ASSUME NEW i \in Instances, HandleResponse(i) PROVE TypeInv'
  <2>1. QueueTypeOK'
    BY <1>33, <1>2, NewResponseType DEF HandleResponse, PushResponse, Verb, Status, QueueTypeOK
  <2>2. WorkerTypeOK'
    BY <1>33, <1>2 DEF HandleResponse, PushResponse, WorkerTypeOK
  <2>3. ControlTypeOK' /\ FrontInv'
    BY <1>33, <1>2 DEF HandleResponse, PushResponse, ControlTypeOK
  <2> QED
    BY <2>1, <2>2, <2>3
<1>34. ASSUME NEW i \in Instances, ReaderInterrupted(i) PROVE TypeInv'
  BY <1>34, <1>2 DEF ReaderInterrupted, QueueTypeOK, WorkerTypeOK, ControlTypeOK
<1>35. ASSUME NEW i \in Instances, WriterSends(i) PROVE TypeInv'
  BY <1>35, <1>2 DEF WriterSends, QueueTypeOK, WorkerTypeOK, ControlTypeOK
<1>36. ASSUME NEW i \in Instances, WriterSent(i) PROVE TypeInv'
  BY <1>36, <1>2 DEF WriterSent, QueueTypeOK, WorkerTypeOK, ControlTypeOK
<1>37. ASSUME NEW i \in Instances, WriterStops(i) PROVE TypeInv'
  BY <1>37, <1>2 DEF WriterStops, QueueTypeOK, WorkerTypeOK, ControlTypeOK
<1>38. ASSUME NEW i \in Instances, WorkerFails(i) PROVE TypeInv'
  <2>1. QueueTypeOK'
    BY <1>38, <1>2 DEF WorkerFails, QueueTypeOK
  <2>2. WorkerTypeOK'
    BY <1>38, <1>2 DEF WorkerFails, WorkerTypeOK
  <2>3. ControlTypeOK' /\ FrontInv'
    BY <1>38, <1>2 DEF WorkerFails, ControlTypeOK
  <2> QED
    BY <2>1, <2>2, <2>3
<1>39. ASSUME NEW i \in Instances, ReaderHandlesFailure(i) PROVE TypeInv'
  <2>1. QueueTypeOK'
    <3>1. NewResponse(i, 1, "failure", "destroy") \in Response
      BY <1>2, NewResponseType DEF QueueTypeOK, Verb, Status
    <3>2. /\ \/ outQueue' = Append(outQueue, NewResponse(i, 1, "failure", "destroy"))
             \/ UNCHANGED outQueue
          /\ nextId' = nextId + 1 \/ UNCHANGED nextId
          /\ UNCHANGED <<enqueued, creating>>
      BY <1>39 DEF ReaderHandlesFailure, PushResponse
    <3>3. UNCHANGED inQueue
      BY <1>39 DEF ReaderHandlesFailure
    <3>4. outQueue' \in Seq(Response)
      BY <3>1, <3>2 DEF QueueTypeOK
    <3> QED
      BY <3>2, <3>3, <3>4 DEF QueueTypeOK
  <2>2. WorkerTypeOK'
    BY <1>39, <1>2 DEF ReaderHandlesFailure, PushResponse, Crash, WorkerTypeOK
  <2>3. ControlTypeOK' /\ FrontInv'
    BY <1>39, <1>2 DEF ReaderHandlesFailure, PushResponse, Crash, ControlTypeOK
  <2> QED
    BY <2>1, <2>2, <2>3
<1>40. ASSUME NEW i \in Instances, WriterHandlesFailure(i) PROVE TypeInv'
  <2>1. QueueTypeOK'
    <3>1. NewResponse(i, 1, "failure", "destroy") \in Response
      BY <1>2, NewResponseType DEF QueueTypeOK, Verb, Status
    <3>2. /\ \/ outQueue' = Append(outQueue, NewResponse(i, 1, "failure", "destroy"))
             \/ UNCHANGED outQueue
          /\ nextId' = nextId + 1 \/ UNCHANGED nextId
          /\ UNCHANGED <<enqueued, creating>>
      BY <1>40 DEF WriterHandlesFailure, PushResponse
    <3>3. UNCHANGED inQueue
      BY <1>40 DEF WriterHandlesFailure
    <3>4. outQueue' \in Seq(Response)
      BY <3>1, <3>2 DEF QueueTypeOK
    <3> QED
      BY <3>2, <3>3, <3>4 DEF QueueTypeOK
  <2>2. WorkerTypeOK'
    BY <1>40, <1>2 DEF WriterHandlesFailure, PushResponse, WorkerTypeOK
  <2>3. ControlTypeOK' /\ FrontInv'
    BY <1>40, <1>2 DEF WriterHandlesFailure, PushResponse, ControlTypeOK
  <2> QED
    BY <2>1, <2>2, <2>3
<1>41. ASSUME NEW i \in Instances, WriterJoinsItself(i) PROVE TypeInv'
  BY <1>41, <1>2 DEF WriterJoinsItself, Crash, QueueTypeOK, WorkerTypeOK, ControlTypeOK
<1>42. ASSUME NEW i \in Instances, MainDestroys(i) PROVE TypeInv'
  <2>1. QueueTypeOK'
    BY <1>42, <1>2 DEF MainDestroys, StopThreads, QueueTypeOK
  <2>2. WorkerTypeOK'
    BY <1>42, <1>2, StopThreadsType DEF MainDestroys, WorkerTypeOK
  <2>3. ControlTypeOK' /\ FrontInv'
    BY <1>42, <1>2 DEF MainDestroys, StopThreads, ControlTypeOK
  <2> QED
    BY <2>1, <2>2, <2>3
<1>43. ASSUME NEW i \in Instances, LateResponse(i) PROVE TypeInv'
  BY <1>43, <1>2 DEF LateResponse, QueueTypeOK, WorkerTypeOK, ControlTypeOK
<1>44. ASSUME NEW req \in Request, OnRequest(req) PROVE TypeInv'
  <2>1. QueueTypeOK' /\ inQueue' # <<>>
    BY <1>44 DEF OnRequest, QueueTypeOK
  <2>2. WorkerTypeOK'
    BY <1>44 DEF OnRequest, WorkerTypeOK
  <2>3. ControlTypeOK'
    <3>1. req.instance \in Instances
      BY DEF Request
    <3>2. nextInstance' \in 0 .. MaxInstances
      BY <1>44, <3>1 DEF OnRequest, ControlTypeOK, Instances
    <3>3. guessed' \subseteq Instances
      BY <1>44, <3>1 DEF OnRequest, ControlTypeOK
    <3> QED
      BY <1>44, <3>2, <3>3 DEF OnRequest, ControlTypeOK
  <2> QED
    BY <2>1, <2>2, <2>3
<1>45. CASE UNCHANGED vars
  BY <1>45 DEF QueueTypeOK, WorkerTypeOK, ControlTypeOK
<1>46. CASE RunUnmapSend
  <2>1. QueueTypeOK'
    BY <1>46, <1>1 DEF RunUnmapSend, QueueTypeOK
  <2>2. WorkerTypeOK'
    BY <1>46 DEF RunUnmapSend, WorkerTypeOK
  <2>3. ControlTypeOK' /\ FrontInv'
    BY <1>46, <1>1 DEF RunUnmapSend, Crash, ControlTypeOK
  <2> QED
    BY <2>1, <2>2, <2>3
<1> QED
  BY <1>3, <1>4, <1>5, <1>6, <1>7, <1>8, <1>9, <1>10, <1>11, <1>12, <1>13, <1>14,
     <1>15, <1>16, <1>17, <1>18, <1>19, <1>20, <1>21, <1>22, <1>23, <1>24, <1>25,
     <1>26, <1>27, <1>28, <1>29, <1>30, <1>31, <1>32, <1>33, <1>34, <1>35, <1>36,
     <1>37, <1>38, <1>39, <1>40, <1>41, <1>42, <1>43, <1>44, <1>45, <1>46
     DEF Next, RunStep, ServerStep, InvalidateStep, WorkerStep, ReaderStep, WriterStep, MainStep

\* Every variable has its type in every reachable state.
THEOREM TypeCorrect == Spec => []TypeOK
<1>1. Init => TypeInv
  BY InitTypeInv
<1>2. TypeInv /\ [Next]_vars => TypeInv'
  BY NextTypeInv
<1>3. TypeInv => TypeOK
  BY DEF TypeInv
<1> QED
  BY <1>1, <1>2, <1>3, PTL DEF Spec

(***************************************************************************)
(* The inductive invariant holds initially and is preserved.               *)
(***************************************************************************)

\* Who holds queue_m_, and when a create response is under construction.
LEMMA NextLockInv ==
  ASSUME TypeInv, LockInv, CreatingInv, [Next]_vars
  PROVE  LockInv' /\ CreatingInv'
<1> USE DEF LockInv, CreatingInv, RunHolds, QueueFree, Wake, vars, responseVars, serverVars,
            elsewhere
<1>1. CASE RunCheck
  BY <1>1 DEF RunCheck
<1>2. CASE RunLock
  BY <1>2 DEF RunLock
<1>3. CASE RunTest
  BY <1>3 DEF RunTest
<1>4. CASE RunSleep
  BY <1>4 DEF RunSleep
<1>5. CASE RunTimeout
  BY <1>5 DEF RunTimeout
<1>6. CASE RunWoken
  BY <1>6 DEF RunWoken
<1>7. CASE RunAwake
  BY <1>7 DEF RunAwake
<1>8. CASE RunCreate
  BY <1>8 DEF RunCreate, Handling
<1>9. CASE RunCreated
  BY <1>9 DEF RunCreated
<1>10. CASE RunCreateThrows
  BY <1>10 DEF RunCreateThrows, Handling
<1>11. CASE RunForward
  BY <1>11 DEF RunForward, Handling
<1>12. CASE RunDestroy
  BY <1>12 DEF RunDestroy, Handling
<1>13. CASE RunJoined
  BY <1>13 DEF RunJoined
<1>14. CASE RunUnmap
  BY <1>14 DEF RunUnmap
<1>15. CASE RunStop
  BY <1>15 DEF RunStop, Handling
<1>16. CASE RunRequestsDone
  BY <1>16 DEF RunRequestsDone
<1>17. CASE RunEnqueue
  BY <1>17 DEF RunEnqueue
<1>18. CASE RunUnlock
  BY <1>18 DEF RunUnlock
<1>19. CASE OnServerFailure
  BY <1>19 DEF OnServerFailure
<1>20. CASE InvalidateBegin
  BY <1>20 DEF InvalidateBegin
<1>21. CASE OnInvalidate
  BY <1>21 DEF OnInvalidate
<1>22. CASE OnInvalidateJoined
  BY <1>22 DEF OnInvalidateJoined
<1>23. CASE InvalidateEnd
  BY <1>23 DEF InvalidateEnd
<1>24. CASE Notify
  BY <1>24 DEF Notify
<1>25. CASE MainJoined
  BY <1>25 DEF MainJoined
<1>26. CASE MainReaped
  BY <1>26 DEF MainReaped
<1>27. CASE MainExit
  BY <1>27 DEF MainExit
<1>28. CASE LateCallback
  BY <1>28 DEF LateCallback
<1>29. ASSUME NEW i \in Instances, InvalidateNext(i) PROVE LockInv' /\ CreatingInv'
  BY <1>29 DEF InvalidateNext
<1>30. ASSUME NEW i \in Instances, ReaderReads(i) PROVE LockInv' /\ CreatingInv'
  BY <1>30 DEF ReaderReads
<1>31. ASSUME NEW i \in Instances, HandleResponse(i) PROVE LockInv' /\ CreatingInv'
  BY <1>31 DEF HandleResponse, PushResponse
<1>32. ASSUME NEW i \in Instances, ReaderInterrupted(i) PROVE LockInv' /\ CreatingInv'
  BY <1>32 DEF ReaderInterrupted
<1>33. ASSUME NEW i \in Instances, WriterSends(i) PROVE LockInv' /\ CreatingInv'
  BY <1>33 DEF WriterSends
<1>34. ASSUME NEW i \in Instances, WriterSent(i) PROVE LockInv' /\ CreatingInv'
  BY <1>34 DEF WriterSent
<1>35. ASSUME NEW i \in Instances, WriterStops(i) PROVE LockInv' /\ CreatingInv'
  BY <1>35 DEF WriterStops
<1>36. ASSUME NEW i \in Instances, WorkerFails(i) PROVE LockInv' /\ CreatingInv'
  BY <1>36 DEF WorkerFails
<1>37. ASSUME NEW i \in Instances, ReaderHandlesFailure(i) PROVE LockInv' /\ CreatingInv'
  BY <1>37 DEF ReaderHandlesFailure, PushResponse
<1>38. ASSUME NEW i \in Instances, WriterHandlesFailure(i) PROVE LockInv' /\ CreatingInv'
  BY <1>38 DEF WriterHandlesFailure, PushResponse
<1>39. ASSUME NEW i \in Instances, WriterJoinsItself(i) PROVE LockInv' /\ CreatingInv'
  BY <1>39 DEF WriterJoinsItself
<1>40. ASSUME NEW i \in Instances, MainDestroys(i) PROVE LockInv' /\ CreatingInv'
  BY <1>40 DEF MainDestroys
<1>41. ASSUME NEW i \in Instances, LateResponse(i) PROVE LockInv' /\ CreatingInv'
  BY <1>41 DEF LateResponse
<1>42. ASSUME NEW req \in Request, OnRequest(req) PROVE LockInv' /\ CreatingInv'
  BY <1>42 DEF OnRequest
<1>43. CASE UNCHANGED vars
  BY <1>43
<1>44. CASE RunUnmapSend
  BY <1>44 DEF RunUnmapSend
<1> QED
  BY <1>1, <1>2, <1>3, <1>4, <1>5, <1>6, <1>7, <1>8, <1>9, <1>10, <1>11, <1>12,
     <1>13, <1>14, <1>15, <1>16, <1>17, <1>18, <1>19, <1>20, <1>21, <1>22, <1>23,
     <1>24, <1>25, <1>26, <1>27, <1>28, <1>29, <1>30, <1>31, <1>32, <1>33, <1>34,
     <1>35, <1>36, <1>37, <1>38, <1>39, <1>40, <1>41, <1>42, <1>43, <1>44
     DEF Next, RunStep, ServerStep, InvalidateStep, WorkerStep, ReaderStep, WriterStep, MainStep

\* No reader thread is started.
ReadersKept == \A i \in Instances : reader'[i] # "none" => reader[i] # "none"

\* Every step does one of six things to the responses.
KeepStep == UNCHANGED responseVars /\ ReadersKept

PushStep ==
  /\ creating = {} /\ ReadersKept
  /\ \E r \in Response :
       Push(r) /\ (r.verb = "forward" => r.instance \in Instances /\ reader[r.instance] # "none")

PushDrawnStep == ReadersKept /\ \E r \in Response : PushDrawn(r)

HandOverStep == ReadersKept /\ HandOver

SkipStep == ReadersKept /\ Skip

DrawStep ==
  /\ creating = {}
  /\ \E r \in Response :
       /\ Draw(r) /\ r.verb = "create"
       /\ \A i \in Instances : reader'[i] # "none" =>
            reader[i] # "none" \/ (r.instance = i /\ r.status = "success")

ResponseStep ==
  KeepStep \/ PushStep \/ PushDrawnStep \/ HandOverStep \/ SkipStep \/ DrawStep

\* Every action, by what it does to the responses and the readers.
LEMMA StepKinds ==
  ASSUME TypeInv, LockInv, CreatingInv, [Next]_vars
  PROVE  ResponseStep
<1> USE DEF vars, responseVars, workerVars
<1>0. /\ QueueFree => creating = {}
      /\ runPc = "requests" => creating = {}
      /\ nextId \in Nat
      /\ creating \subseteq Response
      /\ \A i \in Instances : i \in Nat
  BY BoundsAssumption DEF LockInv, RunHolds, CreatingInv, QueueFree, TypeInv, TypeOK,
                          QueueTypeOK, Instances
<1>1. CASE RunCheck
  BY <1>1 DEF RunCheck, ResponseStep, KeepStep, ReadersKept
<1>2. CASE RunLock
  BY <1>2 DEF RunLock, ResponseStep, KeepStep, ReadersKept
<1>3. CASE RunTest
  BY <1>3 DEF RunTest, ResponseStep, KeepStep, ReadersKept
<1>4. CASE RunSleep
  BY <1>4 DEF RunSleep, ResponseStep, KeepStep, ReadersKept
<1>5. CASE RunTimeout
  BY <1>5 DEF RunTimeout, ResponseStep, KeepStep, ReadersKept
<1>6. CASE RunWoken
  BY <1>6 DEF RunWoken, ResponseStep, KeepStep, ReadersKept
<1>7. CASE RunAwake
  BY <1>7 DEF RunAwake, ResponseStep, KeepStep, ReadersKept
<1>8. CASE RunCreate
  <2>1. Subject \in Instances /\ Subject \in Nat
    BY <1>8, SubjectType DEF RunCreate, Handling, TypeInv, TypeOK, QueueTypeOK
  <2>2. PICK status \in Status :
          /\ creating' = {NewResponse(Subject, 1, status, "create")}
          /\ \/ reader' = [reader EXCEPT ![Subject] = "poll"] /\ status = "success"
             \/ UNCHANGED reader
    BY <1>8 DEF RunCreate
  <2> DEFINE r == NewResponse(Subject, 1, status, "create")
  <2>3. r \in Response
    BY <1>0, <2>1, NewResponseType DEF Verb
  <2>4. r.id = nextId /\ r.verb = "create" /\ r.instance = Subject /\ r.status = status
    BY DEF NewResponse
  <2> HIDE DEF r
  <2>5. Draw(r)
    BY <1>8, <2>2, <2>3, <2>4 DEF RunCreate, Draw, r
  <2>6. \A i \in Instances : reader'[i] # "none" =>
          reader[i] # "none" \/ (r.instance = i /\ r.status = "success")
    BY <2>1, <2>2, <2>4 DEF TypeInv, TypeOK, WorkerTypeOK
  <2>7. creating = {}
    BY <1>8, <1>0 DEF RunCreate, Handling
  <2> QED
    BY <2>3, <2>4, <2>5, <2>6, <2>7 DEF ResponseStep, DrawStep
<1>9. CASE RunCreated
  BY <1>9, <1>0 DEF RunCreated, ResponseStep, PushDrawnStep, PushDrawn, ReadersKept
<1>10. CASE RunCreateThrows
  BY <1>10 DEF RunCreateThrows, ResponseStep, KeepStep, ReadersKept
<1>11. CASE RunForward
  BY <1>11 DEF RunForward, ResponseStep, KeepStep, ReadersKept
<1>12. CASE RunDestroy
  BY <1>12 DEF RunDestroy, StopThreads, ResponseStep, KeepStep, ReadersKept
<1>13. CASE RunJoined
  BY <1>13 DEF RunJoined, ResponseStep, KeepStep, ReadersKept
<1>14. CASE RunUnmap
  BY <1>14 DEF RunUnmap, ResponseStep, SkipStep, Skip, ReadersKept
<1>15. CASE RunStop
  BY <1>15 DEF RunStop, ResponseStep, KeepStep, ReadersKept
<1>16. CASE RunRequestsDone
  BY <1>16 DEF RunRequestsDone, ResponseStep, KeepStep, ReadersKept
<1>17. CASE RunEnqueue
  BY <1>17 DEF RunEnqueue, ResponseStep, HandOverStep, HandOver, ReadersKept
<1>18. CASE RunUnlock
  BY <1>18 DEF RunUnlock, ResponseStep, KeepStep, ReadersKept
<1>19. CASE OnServerFailure
  BY <1>19 DEF OnServerFailure, ResponseStep, KeepStep, ReadersKept
<1>20. CASE InvalidateBegin
  BY <1>20 DEF InvalidateBegin, ResponseStep, KeepStep, ReadersKept
<1>21. CASE OnInvalidate
  BY <1>21 DEF OnInvalidate, StopThreads, ResponseStep, KeepStep, ReadersKept
<1>22. CASE OnInvalidateJoined
  BY <1>22 DEF OnInvalidateJoined, ResponseStep, KeepStep, ReadersKept
<1>23. CASE InvalidateEnd
  BY <1>23 DEF InvalidateEnd, ResponseStep, KeepStep, ReadersKept
<1>24. CASE Notify
  BY <1>24 DEF Notify, ResponseStep, KeepStep, ReadersKept
<1>25. CASE MainJoined
  BY <1>25 DEF MainJoined, ResponseStep, KeepStep, ReadersKept
<1>26. CASE MainReaped
  BY <1>26 DEF MainReaped, ResponseStep, KeepStep, ReadersKept
<1>27. CASE MainExit
  BY <1>27 DEF MainExit, ResponseStep, KeepStep, ReadersKept
<1>28. CASE LateCallback
  BY <1>28 DEF LateCallback, ResponseStep, KeepStep, ReadersKept
<1>29. ASSUME NEW i \in Instances, InvalidateNext(i) PROVE ResponseStep
  BY <1>29 DEF InvalidateNext, ResponseStep, KeepStep, ReadersKept
<1>30. ASSUME NEW i \in Instances, ReaderReads(i) PROVE ResponseStep
  BY <1>30 DEF ReaderReads, TypeInv, TypeOK, WorkerTypeOK, ResponseStep, KeepStep, ReadersKept
<1>31. ASSUME NEW i \in Instances, HandleResponse(i) PROVE ResponseStep
  <2> DEFINE r == NewResponse(i, 0, "success", "forward")
  <2>1. r \in Response
    BY <1>0, NewResponseType DEF Verb, Status
  <2>2. r.id = nextId /\ r.verb = "forward" /\ r.instance = i
    BY DEF NewResponse
  <2>3. ReadersKept
    BY <1>31 DEF HandleResponse, ReadersKept, TypeInv, TypeOK, WorkerTypeOK
  <2>4. creating = {}
    BY <1>31, <1>0 DEF HandleResponse
  <2> HIDE DEF r
  <2>5. Push(r)
    BY <1>31, <2>1, <2>2 DEF HandleResponse, PushResponse, Push, r
  <2>6. reader[i] # "none"
    BY <1>31 DEF HandleResponse
  <2> QED
    BY <2>1, <2>2, <2>3, <2>4, <2>5, <2>6 DEF ResponseStep, PushStep
<1>32. ASSUME NEW i \in Instances, ReaderInterrupted(i) PROVE ResponseStep
  BY <1>32 DEF ReaderInterrupted, TypeInv, TypeOK, WorkerTypeOK, ResponseStep, KeepStep, ReadersKept
<1>33. ASSUME NEW i \in Instances, WriterSends(i) PROVE ResponseStep
  BY <1>33 DEF WriterSends, TypeInv, TypeOK, WorkerTypeOK, ResponseStep, KeepStep, ReadersKept
<1>34. ASSUME NEW i \in Instances, WriterSent(i) PROVE ResponseStep
  BY <1>34 DEF WriterSent, TypeInv, TypeOK, WorkerTypeOK, ResponseStep, KeepStep, ReadersKept
<1>35. ASSUME NEW i \in Instances, WriterStops(i) PROVE ResponseStep
  BY <1>35 DEF WriterStops, TypeInv, TypeOK, WorkerTypeOK, ResponseStep, KeepStep, ReadersKept
<1>36. ASSUME NEW i \in Instances, WorkerFails(i) PROVE ResponseStep
  BY <1>36 DEF WorkerFails, TypeInv, TypeOK, WorkerTypeOK, ResponseStep, KeepStep, ReadersKept
<1>37. ASSUME NEW i \in Instances, ReaderHandlesFailure(i) PROVE ResponseStep
  <2> DEFINE r == NewResponse(i, 1, "failure", "destroy")
  <2>1. r \in Response
    BY <1>0, NewResponseType DEF Verb, Status
  <2>2. r.id = nextId /\ r.verb = "destroy" /\ r.instance = i
    BY DEF NewResponse
  <2>3. ReadersKept
    BY <1>37 DEF ReaderHandlesFailure, ReadersKept, TypeInv, TypeOK, WorkerTypeOK
  <2>4. creating = {}
    BY <1>37, <1>0 DEF ReaderHandlesFailure
  <2> HIDE DEF r
  <2>5. Push(r) \/ UNCHANGED responseVars
    BY <1>37, <2>1, <2>2 DEF ReaderHandlesFailure, PushResponse, Push, r
  <2> QED
    BY <2>1, <2>2, <2>3, <2>4, <2>5 DEF ResponseStep, PushStep, KeepStep
<1>38. ASSUME NEW i \in Instances, WriterHandlesFailure(i) PROVE ResponseStep
  <2> DEFINE r == NewResponse(i, 1, "failure", "destroy")
  <2>1. r \in Response
    BY <1>0, NewResponseType DEF Verb, Status
  <2>2. r.id = nextId /\ r.verb = "destroy" /\ r.instance = i
    BY DEF NewResponse
  <2>3. ReadersKept
    BY <1>38 DEF WriterHandlesFailure, ReadersKept, TypeInv, TypeOK, WorkerTypeOK
  <2>4. creating = {}
    BY <1>38, <1>0 DEF WriterHandlesFailure
  <2> HIDE DEF r
  <2>5. Push(r) \/ UNCHANGED responseVars
    BY <1>38, <2>1, <2>2 DEF WriterHandlesFailure, PushResponse, Push, r
  <2> QED
    BY <2>1, <2>2, <2>3, <2>4, <2>5 DEF ResponseStep, PushStep, KeepStep
<1>39. ASSUME NEW i \in Instances, WriterJoinsItself(i) PROVE ResponseStep
  BY <1>39 DEF WriterJoinsItself, TypeInv, TypeOK, WorkerTypeOK, ResponseStep, KeepStep, ReadersKept
<1>40. ASSUME NEW i \in Instances, MainDestroys(i) PROVE ResponseStep
  BY <1>40 DEF MainDestroys, StopThreads, TypeInv, TypeOK, WorkerTypeOK, ResponseStep, KeepStep,
               ReadersKept
<1>41. ASSUME NEW i \in Instances, LateResponse(i) PROVE ResponseStep
  BY <1>41 DEF LateResponse, TypeInv, TypeOK, WorkerTypeOK, ResponseStep, KeepStep, ReadersKept
<1>42. ASSUME NEW req \in Request, OnRequest(req) PROVE ResponseStep
  BY <1>42 DEF OnRequest, ResponseStep, KeepStep, ReadersKept
<1>43. CASE UNCHANGED vars
  BY <1>43 DEF ResponseStep, KeepStep, ReadersKept
<1>44. CASE RunUnmapSend
  BY <1>44 DEF RunUnmapSend, ResponseStep, KeepStep, ReadersKept
<1> QED
  BY <1>1, <1>2, <1>3, <1>4, <1>5, <1>6, <1>7, <1>8, <1>9, <1>10, <1>11, <1>12,
     <1>13, <1>14, <1>15, <1>16, <1>17, <1>18, <1>19, <1>20, <1>21, <1>22, <1>23,
     <1>24, <1>25, <1>26, <1>27, <1>28, <1>29, <1>30, <1>31, <1>32, <1>33, <1>34,
     <1>35, <1>36, <1>37, <1>38, <1>39, <1>40, <1>41, <1>42, <1>43, <1>44
     DEF Next, RunStep, ServerStep, InvalidateStep, WorkerStep, ReaderStep, WriterStep, MainStep

\* c tells the client of instance i that its worker exists.
Announces(c, i, below) ==
  c.instance = i /\ c.id < below /\ c.verb = "create" /\ c.status = "success"

\* A reader that runs has its create response among those that are pushed or
\* under construction, and stays so when none is lost.
LEMMA StartedKept ==
  ASSUME IInv, TypeInv', nextId' >= nextId,
         Pushed \union creating \subseteq Pushed' \union creating',
         \A i \in Instances : reader'[i] # "none" =>
           reader[i] # "none" \/ \E c \in creating' : Announces(c, i, nextId')
  PROVE  StartedInv'
<1> SUFFICES ASSUME NEW i \in Instances, reader'[i] # "none"
             PROVE  \E c \in Pushed' \union creating' : Announces(c, i, nextId')
  BY DEF StartedInv, Announces
<1>1. CASE reader[i] # "none"
  <2>1. PICK c \in Pushed \union creating : Announces(c, i, nextId)
    BY <1>1 DEF IInv, StartedInv, Announces
  <2>2. c \in Response
    BY DEF IInv, TypeInv, TypeOK, QueueTypeOK, Pushed, ToSet
  <2>3. Announces(c, i, nextId')
    BY <2>1, <2>2 DEF Announces, Response, IInv, TypeInv, TypeOK, QueueTypeOK
  <2> QED
    BY <2>1, <2>3
<1>2. CASE \E c \in creating' : Announces(c, i, nextId')
  BY <1>2
<1> QED
  BY <1>1, <1>2

\* A forward response that is pushed comes after the create response of its
\* instance.
LEMMA CreateBeforeOutputKept ==
  ASSUME CreateBeforeOutput, Pushed \subseteq Pushed',
         \A r \in Pushed' \ Pushed : r.verb = "forward" => Created(r.instance, r.id)
  PROVE  CreateBeforeOutput'
<1>1. \A r \in Pushed' : r.verb = "forward" => Created(r.instance, r.id)
  BY DEF CreateBeforeOutput
<1>2. \A r \in Pushed' : r.verb = "forward" =>
        \E c \in Pushed' : /\ c.instance = r.instance /\ c.id < r.id
                           /\ c.verb = "create" /\ c.status = "success"
  BY <1>1 DEF Created
<1> QED
  BY <1>2 DEF CreateBeforeOutput, Created

\* The inductive invariant holds initially.
LEMMA InitIInv ==
  ASSUME Init PROVE IInv
<1>1. TypeInv
  BY InitTypeInv
<1>2. LockInv /\ CreatingInv /\ OrderInv
  BY DEF Init, LockInv, RunHolds, CreatingInv, OrderInv, ResponseIdsOrdered, Increasing, DrawnInv
<1>3. StartedInv
  BY DEF Init, StartedInv
<1>4. CreateBeforeOutput
  BY DEF Init, CreateBeforeOutput, Pushed, ToSet
<1> QED
  BY <1>1, <1>2, <1>3, <1>4 DEF IInv

\* Every step preserves it, by the kind of the step.
LEMMA NextIInv ==
  ASSUME IInv, [Next]_vars PROVE IInv'
<1> USE DEF IInv
<1>1. TypeInv' /\ LockInv' /\ CreatingInv'
  BY NextTypeInv, NextLockInv
<1>2. ResponseTypeOK
  BY DEF ResponseTypeOK, TypeInv, TypeOK, QueueTypeOK
<1>3. ResponseStep
  BY StepKinds
<1>4. CASE KeepStep
  <2>1. OrderInv' /\ Pushed' = Pushed /\ nextId' = nextId /\ creating' = creating
    BY <1>2, <1>4, SameOrder DEF KeepStep, responseVars
  <2>2. StartedInv'
    BY <1>1, <1>4, <2>1, StartedKept
       DEF KeepStep, ReadersKept, ResponseTypeOK, TypeInv, TypeOK, QueueTypeOK
  <2>3. CreateBeforeOutput'
    BY <2>1, CreateBeforeOutputKept
  <2> QED
    BY <1>1, <2>1, <2>2, <2>3
<1>5. CASE PushStep
  <2>1. PICK r \in Response :
          Push(r) /\ (r.verb = "forward" => r.instance \in Instances /\ reader[r.instance] # "none")
    BY <1>5 DEF PushStep
  <2>2. creating = {} /\ creating' = {} /\ nextId' = nextId + 1 /\ r.id = nextId
    BY <1>5, <2>1 DEF PushStep, Push
  <2>3. OrderInv' /\ Pushed' = Pushed \union {r}
    BY <1>2, <2>1, <2>2, PushOrder
  <2>4. StartedInv'
    BY <1>1, <1>2, <1>5, <2>2, <2>3, StartedKept DEF PushStep, ReadersKept, ResponseTypeOK
  <2>5. r.verb = "forward" => Created(r.instance, r.id)
    BY <2>1, <2>2 DEF StartedInv, Created
  <2>6. CreateBeforeOutput'
    BY <2>3, <2>5, CreateBeforeOutputKept
  <2> QED
    BY <1>1, <2>3, <2>4, <2>6
<1>6. CASE PushDrawnStep
  <2>1. PICK r \in Response : PushDrawn(r)
    BY <1>6 DEF PushDrawnStep
  <2>2. creating = {r} /\ r.verb = "create" /\ creating' = {} /\ nextId' = nextId
    BY <2>1 DEF PushDrawn, OrderInv, DrawnInv
  <2>3. OrderInv' /\ Pushed' = Pushed \union {r}
    BY <1>2, <2>1, PushDrawnOrder
  <2>4. StartedInv'
    BY <1>1, <1>2, <1>6, <2>2, <2>3, StartedKept DEF PushDrawnStep, ReadersKept, ResponseTypeOK
  <2>5. CreateBeforeOutput'
    BY <2>2, <2>3, CreateBeforeOutputKept
  <2> QED
    BY <1>1, <2>3, <2>4, <2>5
<1>7. CASE HandOverStep
  <2>1. OrderInv' /\ Pushed' = Pushed /\ nextId' = nextId /\ creating' = creating
    BY <1>2, <1>7, HandOverOrder DEF HandOverStep, HandOver
  <2>2. StartedInv'
    BY <1>1, <1>2, <1>7, <2>1, StartedKept DEF HandOverStep, ReadersKept, ResponseTypeOK
  <2>3. CreateBeforeOutput'
    BY <2>1, CreateBeforeOutputKept
  <2> QED
    BY <1>1, <2>1, <2>2, <2>3
<1>8. CASE SkipStep
  <2>1. OrderInv' /\ Pushed' = Pushed /\ nextId' = nextId + 1 /\ creating' = creating
    BY <1>2, <1>8, SkipOrder DEF SkipStep, Skip
  <2>2. StartedInv'
    BY <1>1, <1>2, <1>8, <2>1, StartedKept DEF SkipStep, ReadersKept, ResponseTypeOK
  <2>3. CreateBeforeOutput'
    BY <2>1, CreateBeforeOutputKept
  <2> QED
    BY <1>1, <2>1, <2>2, <2>3
<1>9. CASE DrawStep
  <2>1. PICK r \in Response :
          /\ Draw(r) /\ r.verb = "create"
          /\ \A i \in Instances : reader'[i] # "none" =>
               reader[i] # "none" \/ (r.instance = i /\ r.status = "success")
    BY <1>9 DEF DrawStep
  <2>2. creating = {} /\ creating' = {r} /\ nextId' = nextId + 1 /\ r.id = nextId
    BY <1>9, <2>1 DEF DrawStep, Draw
  <2>3. OrderInv' /\ Pushed' = Pushed
    BY <1>2, <2>1, DrawOrder
  <2>4. \A i \in Instances : reader'[i] # "none" =>
          reader[i] # "none" \/ \E c \in creating' : Announces(c, i, nextId')
    BY <1>2, <2>1, <2>2 DEF Announces, ResponseTypeOK
  <2>5. StartedInv'
    BY <1>1, <1>2, <2>2, <2>3, <2>4, StartedKept DEF ResponseTypeOK
  <2>6. CreateBeforeOutput'
    BY <2>3, CreateBeforeOutputKept
  <2> QED
    BY <1>1, <2>3, <2>5, <2>6
<1> QED
  BY <1>3, <1>4, <1>5, <1>6, <1>7, <1>8, <1>9 DEF ResponseStep

\* The inductive invariant holds in every reachable state.
THEOREM Inductive == Spec => []IInv
<1>1. Init => IInv
  BY InitIInv
<1>2. IInv /\ [Next]_vars => IInv'
  BY NextIInv
<1> QED
  BY <1>1, <1>2, PTL DEF Spec

\* Responses reach the server in the order of their ids, whichever threads draw
\* them, because an id is drawn and pushed under one hold of queue_m_.
THEOREM IdsOrdered == Spec => []ResponseIdsOrdered
<1>1. IInv => ResponseIdsOrdered
  BY DEF IInv, OrderInv
<1> QED
  BY <1>1, Inductive, PTL

\* A client hears that its worker exists before it hears anything from it, because
\* the run thread holds queue_m_ from before the reader thread is started until
\* after the create response is pushed.
THEOREM CreatedFirst == Spec => []CreateBeforeOutput
<1>1. IInv => CreateBeforeOutput
  BY DEF IInv
<1> QED
  BY <1>1, Inductive, PTL
=============================================================================
