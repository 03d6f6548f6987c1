----------------------------- MODULE QuietProofs -----------------------------
(***************************************************************************)
(* Where a worker is when it is not in workers_, for every value of the    *)
(* bounds of module Conductor: after its destroy response an instance is   *)
(* silent (DestroyedIsQuiet), and a forward request finds its worker       *)
(* (ForwardFindsWorker, in the second part).                               *)
(*                                                                         *)
(* The argument follows a worker out of workers_.  Whoever removes it      *)
(* stays in ~worker until both threads are done (JoinedInv), and while     *)
(* the run thread holds queue_m_ nobody else can be there for the same     *)
(* map (LockInv, WriterInv, MainInv); so the instance is quiet when unmap  *)
(* is reached, and still when its send() returns (TargetInv).  It stays    *)
(* quiet until a create request for it is handled: clients may destroy an  *)
(* id that the server has not given out yet.                               *)
(***************************************************************************)
EXTENDS ConductorProofs

\* A failed writer that joins the reader of its worker owns queue_m_.
WriterInv == \A i \in Instances : writer[i] = "join" => queueOwner = "worker"

\* The members of the conductor are only destroyed after the run thread.
MainInv == mainPc \in {"teardown", "reap", "exit"} => runPc = "stopped"

\* The run thread, the server thread or main is inside ~worker of instance i.
RunJoins(i) == runPc = "join" /\ Subject = i
ServerJoins(i) == srvPc = "join" /\ srvTarget = i
MainJoins(i) == mainPc = "reap" /\ mainTarget = i

\* A worker that is not in workers_ was never there, is joined, or is being joined.
JoinedInv ==
  crashed = "no" =>
    \A i \in Instances \ workers :
      Quiet(i) \/ RunJoins(i) \/ ServerJoins(i) \/ MainJoins(i) \/ writer[i] = "join"

\* The instance of a destroy request that is being handled.
TargetInv ==
  /\ runPc \in {"join", "unmap", "sending"} => Subject \notin workers
  /\ runPc \in {"unmap", "sending"} => Quiet(Subject)

QuietInv ==
  TypeInv /\ LockInv /\ CreatingInv /\ WriterInv /\ MainInv /\ JoinedInv /\ TargetInv
  /\ DestroyedIsQuiet

\* A failed writer that joins owns queue_m_; the members die after the run thread.
LEMMA NextWriterInv ==
  ASSUME TypeInv, LockInv, WriterInv, MainInv, crashed = "no", Next
  PROVE  WriterInv' /\ MainInv'
<1> USE DEF WriterInv, MainInv, LockInv, RunHolds, QueueFree, Wake, vars, responseVars,
            workerVars, serverVars, historyVars, mainVars, flagVars, elsewhere,
            TypeInv, TypeOK, WorkerTypeOK
<1>1. CASE RunCheck
  BY <1>1 DEF RunCheck
<1>2. CASE RunLock
  BY <1>2 DEF RunLock
<1>3. CASE RunTest
  BY <1>3 DEF RunTest
<1>4. CASE RunSleep
  BY <1>4 DEF RunSleep
<1>5. CASE RunTimeout
  BY <1>5 DEF RunTimeout
<1>6. CASE RunWoken
  BY <1>6 DEF RunWoken
<1>7. CASE RunAwake
  BY <1>7 DEF RunAwake
<1>8. CASE RunCreate
  BY <1>8 DEF RunCreate, Handling
<1>9. CASE RunCreated
  BY <1>9 DEF RunCreated
<1>10. CASE RunCreateThrows
  BY <1>10 DEF RunCreateThrows, Handling
<1>11. CASE RunForward
  BY <1>11 DEF RunForward, Handling
<1>12. CASE RunDestroy
  BY <1>12 DEF RunDestroy, Handling, StopThreads
<1>13. CASE RunJoined
  BY <1>13 DEF RunJoined, ThreadsDone
<1>14. CASE RunUnmap
  BY <1>14 DEF RunUnmap
<1>15. CASE RunStop
  BY <1>15 DEF RunStop, Handling
<1>16. CASE RunRequestsDone
  BY <1>16 DEF RunRequestsDone
<1>17. CASE RunEnqueue
  BY <1>17 DEF RunEnqueue
<1>18. CASE RunUnlock
  BY <1>18 DEF RunUnlock
<1>19. CASE OnServerFailure
  BY <1>19 DEF OnServerFailure
<1>20. CASE InvalidateBegin
  BY <1>20 DEF InvalidateBegin
<1>21. CASE OnInvalidate
  BY <1>21 DEF OnInvalidate, StopThreads
<1>22. CASE OnInvalidateJoined
  BY <1>22 DEF OnInvalidateJoined, ThreadsDone
<1>23. CASE InvalidateEnd
  BY <1>23 DEF InvalidateEnd
<1>24. CASE Notify
  BY <1>24 DEF Notify
<1>25. CASE MainJoined
  BY <1>25 DEF MainJoined
<1>26. CASE MainReaped
  BY <1>26 DEF MainReaped, ThreadsDone
<1>27. CASE MainExit
  BY <1>27 DEF MainExit
<1>28. CASE LateCallback
  BY <1>28 DEF LateCallback
<1>29. ASSUME NEW i \in Instances, InvalidateNext(i) PROVE WriterInv' /\ MainInv'
  BY <1>29 DEF InvalidateNext
<1>30. ASSUME NEW i \in Instances, ReaderReads(i) PROVE WriterInv' /\ MainInv'
  BY <1>30 DEF ReaderReads
<1>31. ASSUME NEW i \in Instances, HandleResponse(i) PROVE WriterInv' /\ MainInv'
  BY <1>31 DEF HandleResponse, PushResponse
<1>32. ASSUME NEW i \in Instances, ReaderInterrupted(i) PROVE WriterInv' /\ MainInv'
  BY <1>32 DEF ReaderInterrupted
<1>33. ASSUME NEW i \in Instances, WriterSends(i) PROVE WriterInv' /\ MainInv'
  BY <1>33 DEF WriterSends
<1>34. ASSUME NEW i \in Instances, WriterSent(i) PROVE WriterInv' /\ MainInv'
  BY <1>34 DEF WriterSent
<1>35. ASSUME NEW i \in Instances, WriterStops(i) PROVE WriterInv' /\ MainInv'
  BY <1>35 DEF WriterStops
<1>36. ASSUME NEW i \in Instances, WorkerFails(i) PROVE WriterInv' /\ MainInv'
  BY <1>36 DEF WorkerFails
<1>37. ASSUME NEW i \in Instances, ReaderHandlesFailure(i) PROVE WriterInv' /\ MainInv'
  BY <1>37 DEF ReaderHandlesFailure, PushResponse
<1>38. ASSUME NEW i \in Instances, WriterHandlesFailure(i) PROVE WriterInv' /\ MainInv'
  BY <1>38 DEF WriterHandlesFailure, PushResponse
<1>39. ASSUME NEW i \in Instances, WriterJoinsItself(i) PROVE WriterInv' /\ MainInv'
  BY <1>39 DEF WriterJoinsItself
<1>40. ASSUME NEW i \in Instances, MainDestroys(i) PROVE WriterInv' /\ MainInv'
  BY <1>40 DEF MainDestroys, StopThreads
<1>41. ASSUME NEW i \in Instances, LateResponse(i) PROVE WriterInv' /\ MainInv'
  BY <1>41 DEF LateResponse
<1>42. ASSUME NEW req \in Request, OnRequest(req) PROVE WriterInv' /\ MainInv'
  BY <1>42 DEF OnRequest
<1>43. CASE RunUnmapSend
  BY <1>43 DEF RunUnmapSend
<1> QED
  BY <1>1, <1>2, <1>3, <1>4, <1>5, <1>6, <1>7, <1>8, <1>9, <1>10, <1>11, <1>12,
     <1>13, <1>14, <1>15, <1>16, <1>17, <1>18, <1>19, <1>20, <1>21, <1>22, <1>23,
     <1>24, <1>25, <1>26, <1>27, <1>28, <1>29, <1>30, <1>31, <1>32, <1>33, <1>34,
     <1>35, <1>36, <1>37, <1>38, <1>39, <1>40, <1>41, <1>42, <1>43
     DEF Next, RunStep, ServerStep, InvalidateStep, WorkerStep, ReaderStep, WriterStep, MainStep

\* Whoever takes a worker out of workers_ stays in ~worker until its threads are done.
LEMMA NextJoinedInv ==
  ASSUME QuietInv, crashed = "no", Next
  PROVE  JoinedInv'
<1> USE DEF WriterInv, MainInv, LockInv, RunHolds, QueueFree, Wake, vars, responseVars,
            workerVars, serverVars, historyVars, mainVars, flagVars, elsewhere,
            QuietInv, TypeInv, TypeOK, WorkerTypeOK, JoinedInv, RunJoins, ServerJoins,
            MainJoins, Quiet, Subject
<1>1. CASE RunCheck
  BY <1>1 DEF RunCheck
<1>2. CASE RunLock
  BY <1>2 DEF RunLock
<1>3. CASE RunTest
  BY <1>3 DEF RunTest
<1>4. CASE RunSleep
  BY <1>4 DEF RunSleep
<1>5. CASE RunTimeout
  BY <1>5 DEF RunTimeout
<1>6. CASE RunWoken
  BY <1>6 DEF RunWoken
<1>7. CASE RunAwake
  BY <1>7 DEF RunAwake
<1>8. CASE RunCreate
  BY <1>8 DEF RunCreate, Handling
<1>9. CASE RunCreated
  BY <1>9 DEF RunCreated
<1>10. CASE RunCreateThrows
  BY <1>10 DEF RunCreateThrows, Handling
<1>11. CASE RunForward
  BY <1>11 DEF RunForward, Handling
<1>12. CASE RunDestroy
  BY <1>12 DEF RunDestroy, Handling, StopThreads
<1>13. CASE RunJoined
  BY <1>13 DEF RunJoined, ThreadsDone
<1>14. CASE RunUnmap
  BY <1>14 DEF RunUnmap
<1>15. CASE RunStop
  BY <1>15 DEF RunStop, Handling
<1>16. CASE RunRequestsDone
  BY <1>16 DEF RunRequestsDone
<1>17. CASE RunEnqueue
  BY <1>17 DEF RunEnqueue
<1>18. CASE RunUnlock
  BY <1>18 DEF RunUnlock
<1>19. CASE OnServerFailure
  BY <1>19 DEF OnServerFailure
<1>20. CASE InvalidateBegin
  BY <1>20 DEF InvalidateBegin
<1>21. CASE OnInvalidate
  BY <1>21 DEF OnInvalidate, StopThreads
<1>22. CASE OnInvalidateJoined
  BY <1>22 DEF OnInvalidateJoined, ThreadsDone
<1>23. CASE InvalidateEnd
  BY <1>23 DEF InvalidateEnd
<1>24. CASE Notify
  BY <1>24 DEF Notify
<1>25. CASE MainJoined
  BY <1>25 DEF MainJoined
<1>26. CASE MainReaped
  BY <1>26 DEF MainReaped, ThreadsDone
<1>27. CASE MainExit
  BY <1>27 DEF MainExit
<1>28. CASE LateCallback
  BY <1>28 DEF LateCallback
<1>29. ASSUME NEW i \in Instances, InvalidateNext(i) PROVE JoinedInv'
  BY <1>29 DEF InvalidateNext
<1>30. ASSUME NEW i \in Instances, ReaderReads(i) PROVE JoinedInv'
  BY <1>30 DEF ReaderReads
<1>31. ASSUME NEW i \in Instances, HandleResponse(i) PROVE JoinedInv'
  BY <1>31 DEF HandleResponse, PushResponse
<1>32. ASSUME NEW i \in Instances, ReaderInterrupted(i) PROVE JoinedInv'
  BY <1>32 DEF ReaderInterrupted
<1>33. ASSUME NEW i \in Instances, WriterSends(i) PROVE JoinedInv'
  BY <1>33 DEF WriterSends
<1>34. ASSUME NEW i \in Instances, WriterSent(i) PROVE JoinedInv'
  BY <1>34 DEF WriterSent
<1>35. ASSUME NEW i \in Instances, WriterStops(i) PROVE JoinedInv'
  BY <1>35 DEF WriterStops
<1>36. ASSUME NEW i \in Instances, WorkerFails(i) PROVE JoinedInv'
  BY <1>36 DEF WorkerFails
<1>37. ASSUME NEW i \in Instances, ReaderHandlesFailure(i) PROVE JoinedInv'
  BY <1>37 DEF ReaderHandlesFailure, PushResponse
<1>38. ASSUME NEW i \in Instances, WriterHandlesFailure(i) PROVE JoinedInv'
  BY <1>38 DEF WriterHandlesFailure, PushResponse
<1>39. ASSUME NEW i \in Instances, WriterJoinsItself(i) PROVE JoinedInv'
  BY <1>39 DEF WriterJoinsItself
<1>40. ASSUME NEW i \in Instances, MainDestroys(i) PROVE JoinedInv'
  BY <1>40 DEF MainDestroys, StopThreads
<1>41. ASSUME NEW i \in Instances, LateResponse(i) PROVE JoinedInv'
  BY <1>41 DEF LateResponse
<1>42. ASSUME NEW req \in Request, OnRequest(req) PROVE JoinedInv'
  BY <1>42 DEF OnRequest
<1>43. CASE RunUnmapSend
  BY <1>43 DEF RunUnmapSend
<1> QED
  BY <1>1, <1>2, <1>3, <1>4, <1>5, <1>6, <1>7, <1>8, <1>9, <1>10, <1>11, <1>12,
     <1>13, <1>14, <1>15, <1>16, <1>17, <1>18, <1>19, <1>20, <1>21, <1>22, <1>23,
     <1>24, <1>25, <1>26, <1>27, <1>28, <1>29, <1>30, <1>31, <1>32, <1>33, <1>34,
     <1>35, <1>36, <1>37, <1>38, <1>39, <1>40, <1>41, <1>42, <1>43
     DEF Next, RunStep, ServerStep, InvalidateStep, WorkerStep, ReaderStep, WriterStep, MainStep

\* When unmap is reached, the threads of the instance have been joined: by the run
\* thread itself, or by another thread that has since given up queue_m_.
LEMMA NextTargetInv ==
  ASSUME QuietInv, crashed = "no", Next
  PROVE  TargetInv'
<1> USE DEF WriterInv, MainInv, LockInv, RunHolds, QueueFree, Wake, vars, responseVars,
            workerVars, serverVars, historyVars, mainVars, flagVars, elsewhere,
            QuietInv, TypeInv, TypeOK, WorkerTypeOK, JoinedInv, RunJoins, ServerJoins,
            MainJoins, Quiet, Subject, TargetInv
<1>1. CASE RunCheck
  BY <1>1 DEF RunCheck
<1>2. CASE RunLock
  BY <1>2 DEF RunLock
<1>3. CASE RunTest
  BY <1>3 DEF RunTest
<1>4. CASE RunSleep
  BY <1>4 DEF RunSleep
<1>5. CASE RunTimeout
  BY <1>5 DEF RunTimeout
<1>6. CASE RunWoken
  BY <1>6 DEF RunWoken
<1>7. CASE RunAwake
  BY <1>7 DEF RunAwake
<1>8. CASE RunCreate
  BY <1>8 DEF RunCreate, Handling
<1>9. CASE RunCreated
  BY <1>9 DEF RunCreated
<1>10. CASE RunCreateThrows
  BY <1>10 DEF RunCreateThrows, Handling
<1>11. CASE RunForward
  BY <1>11 DEF RunForward, Handling
<1>12. CASE RunDestroy
  <2>1. Subject \in Instances
    BY <1>12, SubjectType DEF RunDestroy, Handling, QueueTypeOK
  <2>2. Subject' = Subject /\ Subject \notin workers'
    BY <1>12 DEF RunDestroy
  <2>3. CASE Subject \in workers
    BY <1>12, <2>2, <2>3 DEF RunDestroy
  <2>4. CASE Subject \notin workers
    <3>1. Quiet(Subject)
      BY <1>12, <2>1, <2>4 DEF RunDestroy, Handling
    <3>2. UNCHANGED <<reader, writer>>
      BY <1>12, <2>4 DEF RunDestroy
    <3> QED
      BY <2>2, <3>1, <3>2
  <2> QED
    BY <2>3, <2>4
<1>13. CASE RunJoined
  BY <1>13 DEF RunJoined, ThreadsDone
<1>14. CASE RunUnmap
  BY <1>14 DEF RunUnmap
<1>15. CASE RunStop
  BY <1>15 DEF RunStop, Handling
<1>16. CASE RunRequestsDone
  BY <1>16 DEF RunRequestsDone
<1>17. CASE RunEnqueue
  BY <1>17 DEF RunEnqueue
<1>18. CASE RunUnlock
  BY <1>18 DEF RunUnlock
<1>19. CASE OnServerFailure
  BY <1>19 DEF OnServerFailure
<1>20. CASE InvalidateBegin
  BY <1>20 DEF InvalidateBegin
<1>21. CASE OnInvalidate
  BY <1>21 DEF OnInvalidate, StopThreads
<1>22. CASE OnInvalidateJoined
  BY <1>22 DEF OnInvalidateJoined, ThreadsDone
<1>23. CASE InvalidateEnd
  BY <1>23 DEF InvalidateEnd
<1>24. CASE Notify
  BY <1>24 DEF Notify
<1>25. CASE MainJoined
  BY <1>25 DEF MainJoined
<1>26. CASE MainReaped
  BY <1>26 DEF MainReaped, ThreadsDone
<1>27. CASE MainExit
  BY <1>27 DEF MainExit
<1>28. CASE LateCallback
  BY <1>28 DEF LateCallback
<1>29. ASSUME NEW i \in Instances, InvalidateNext(i) PROVE TargetInv'
  BY <1>29 DEF InvalidateNext
<1>30. ASSUME NEW i \in Instances, ReaderReads(i) PROVE TargetInv'
  BY <1>30 DEF ReaderReads
<1>31. ASSUME NEW i \in Instances, HandleResponse(i) PROVE TargetInv'
  BY <1>31 DEF HandleResponse, PushResponse
<1>32. ASSUME NEW i \in Instances, ReaderInterrupted(i) PROVE TargetInv'
  BY <1>32 DEF ReaderInterrupted
<1>33. ASSUME NEW i \in Instances, WriterSends(i) PROVE TargetInv'
  BY <1>33 DEF WriterSends
<1>34. ASSUME NEW i \in Instances, WriterSent(i) PROVE TargetInv'
  BY <1>34 DEF WriterSent
<1>35. ASSUME NEW i \in Instances, WriterStops(i) PROVE TargetInv'
  BY <1>35 DEF WriterStops
<1>36. ASSUME NEW i \in Instances, WorkerFails(i) PROVE TargetInv'
  <2>1. runPc \in {"join", "unmap", "sending"} => Subject \in Instances
    BY SubjectType DEF FrontInv, QueueTypeOK
  <2>2. Quiet(Subject) /\ Subject \in Instances => Quiet(Subject)'
    BY <1>36 DEF WorkerFails
  <2> QED
    BY <1>36, <2>1, <2>2 DEF WorkerFails
<1>37. ASSUME NEW i \in Instances, ReaderHandlesFailure(i) PROVE TargetInv'
  BY <1>37 DEF ReaderHandlesFailure, PushResponse
<1>38. ASSUME NEW i \in Instances, WriterHandlesFailure(i) PROVE TargetInv'
  BY <1>38 DEF WriterHandlesFailure, PushResponse
<1>39. ASSUME NEW i \in Instances, WriterJoinsItself(i) PROVE TargetInv'
  BY <1>39 DEF WriterJoinsItself
<1>40. ASSUME NEW i \in Instances, MainDestroys(i) PROVE TargetInv'
  BY <1>40 DEF MainDestroys, StopThreads
<1>41. ASSUME NEW i \in Instances, LateResponse(i) PROVE TargetInv'
  BY <1>41 DEF LateResponse
<1>42. ASSUME NEW req \in Request, OnRequest(req) PROVE TargetInv'
  BY <1>42 DEF OnRequest
<1>43. CASE RunUnmapSend
  BY <1>43 DEF RunUnmapSend
<1> QED
  BY <1>1, <1>2, <1>3, <1>4, <1>5, <1>6, <1>7, <1>8, <1>9, <1>10, <1>11, <1>12,
     <1>13, <1>14, <1>15, <1>16, <1>17, <1>18, <1>19, <1>20, <1>21, <1>22, <1>23,
     <1>24, <1>25, <1>26, <1>27, <1>28, <1>29, <1>30, <1>31, <1>32, <1>33, <1>34,
     <1>35, <1>36, <1>37, <1>38, <1>39, <1>40, <1>41, <1>42, <1>43
     DEF Next, RunStep, ServerStep, InvalidateStep, WorkerStep, ReaderStep, WriterStep, MainStep

\* No thread of a quiet instance starts to run.
QuietKept == \A i \in Instances : Quiet(i) => Quiet(i)'

\* Nothing happens to in_queue_, or the front is popped.
Popped == inQueue' = inQueue \/ (inQueue # <<>> /\ inQueue' = Tail(inQueue))

\* What every step does to destroyed instances, three actions excepted.
GoneStep ==
  /\ QuietKept /\ Popped /\ workers' \subseteq workers
  /\ UNCHANGED <<unmapped, guessed, nextInstance>>

SpecialStep == RunCreate \/ RunUnmapSend \/ \E req \in Request : OnRequest(req)

\* All actions but three leave destroyed instances as they are.
LEMMA GoneKinds ==
  ASSUME TypeInv, crashed = "no", Next
  PROVE  SpecialStep \/ GoneStep
<1> USE DEF GoneStep, QuietKept, Popped, Quiet, TypeInv, TypeOK, WorkerTypeOK, FrontInv,
            vars, responseVars, workerVars, serverVars, historyVars, mainVars, flagVars, elsewhere
<1>1. CASE RunCheck
  BY <1>1 DEF RunCheck
<1>2. CASE RunLock
  BY <1>2 DEF RunLock
<1>3. CASE RunTest
  BY <1>3 DEF RunTest
<1>4. CASE RunSleep
  BY <1>4 DEF RunSleep
<1>5. CASE RunTimeout
  BY <1>5 DEF RunTimeout
<1>6. CASE RunWoken
  BY <1>6 DEF RunWoken
<1>7. CASE RunAwake
  BY <1>7 DEF RunAwake
<1>8. CASE RunCreate
  BY <1>8 DEF SpecialStep
<1>9. CASE RunCreated
  BY <1>9 DEF RunCreated
<1>10. CASE RunCreateThrows
  BY <1>10 DEF RunCreateThrows, Handling
<1>11. CASE RunForward
  BY <1>11 DEF RunForward, Handling
<1>12. CASE RunDestroy
  BY <1>12 DEF RunDestroy, Handling, StopThreads
<1>13. CASE RunJoined
  BY <1>13 DEF RunJoined, ThreadsDone
<1>14. CASE RunUnmap
  BY <1>14 DEF RunUnmap
<1>15. CASE RunStop
  BY <1>15 DEF RunStop, Handling
<1>16. CASE RunRequestsDone
  BY <1>16 DEF RunRequestsDone
<1>17. CASE RunEnqueue
  BY <1>17 DEF RunEnqueue
<1>18. CASE RunUnlock
  BY <1>18 DEF RunUnlock
<1>19. CASE OnServerFailure
  BY <1>19 DEF OnServerFailure
<1>20. CASE InvalidateBegin
  BY <1>20 DEF InvalidateBegin
<1>21. CASE OnInvalidate
  BY <1>21 DEF OnInvalidate, StopThreads
<1>22. CASE OnInvalidateJoined
  BY <1>22 DEF OnInvalidateJoined, ThreadsDone
<1>23. CASE InvalidateEnd
  BY <1>23 DEF InvalidateEnd
<1>24. CASE Notify
  BY <1>24 DEF Notify
<1>25. CASE MainJoined
  BY <1>25 DEF MainJoined
<1>26. CASE MainReaped
  BY <1>26 DEF MainReaped, ThreadsDone
<1>27. CASE MainExit
  BY <1>27 DEF MainExit
<1>28. CASE LateCallback
  BY <1>28 DEF LateCallback
<1>29. ASSUME NEW i \in Instances, InvalidateNext(i) PROVE SpecialStep \/ GoneStep
  BY <1>29 DEF InvalidateNext
<1>30. ASSUME NEW i \in Instances, ReaderReads(i) PROVE SpecialStep \/ GoneStep
  BY <1>30 DEF ReaderReads
<1>31. ASSUME NEW i \in Instances, HandleResponse(i) PROVE SpecialStep \/ GoneStep
  BY <1>31 DEF HandleResponse, PushResponse
<1>32. ASSUME NEW i \in Instances, ReaderInterrupted(i) PROVE SpecialStep \/ GoneStep
  BY <1>32 DEF ReaderInterrupted
<1>33. ASSUME NEW i \in Instances, WriterSends(i) PROVE SpecialStep \/ GoneStep
  BY <1>33 DEF WriterSends
<1>34. ASSUME NEW i \in Instances, WriterSent(i) PROVE SpecialStep \/ GoneStep
  BY <1>34 DEF WriterSent
<1>35. ASSUME NEW i \in Instances, WriterStops(i) PROVE SpecialStep \/ GoneStep
  BY <1>35 DEF WriterStops
<1>36. ASSUME NEW i \in Instances, WorkerFails(i) PROVE SpecialStep \/ GoneStep
  BY <1>36 DEF WorkerFails
<1>37. ASSUME NEW i \in Instances, ReaderHandlesFailure(i) PROVE SpecialStep \/ GoneStep
  BY <1>37 DEF ReaderHandlesFailure, PushResponse
<1>38. ASSUME NEW i \in Instances, WriterHandlesFailure(i) PROVE SpecialStep \/ GoneStep
  BY <1>38 DEF WriterHandlesFailure, PushResponse
<1>39. ASSUME NEW i \in Instances, WriterJoinsItself(i) PROVE SpecialStep \/ GoneStep
  BY <1>39 DEF WriterJoinsItself
<1>40. ASSUME NEW i \in Instances, MainDestroys(i) PROVE SpecialStep \/ GoneStep
  BY <1>40 DEF MainDestroys, StopThreads
<1>41. ASSUME NEW i \in Instances, LateResponse(i) PROVE SpecialStep \/ GoneStep
  BY <1>41 DEF LateResponse
<1>42. ASSUME NEW req \in Request, OnRequest(req) PROVE SpecialStep \/ GoneStep
  BY <1>42 DEF SpecialStep
<1>43. CASE RunUnmapSend
  BY <1>43 DEF RunUnmapSend, SpecialStep
<1> QED
  BY <1>1, <1>2, <1>3, <1>4, <1>5, <1>6, <1>7, <1>8, <1>9, <1>10, <1>11, <1>12,
     <1>13, <1>14, <1>15, <1>16, <1>17, <1>18, <1>19, <1>20, <1>21, <1>22, <1>23,
     <1>24, <1>25, <1>26, <1>27, <1>28, <1>29, <1>30, <1>31, <1>32, <1>33, <1>34,
     <1>35, <1>36, <1>37, <1>38, <1>39, <1>40, <1>41, <1>42, <1>43
     DEF Next, RunStep, ServerStep, InvalidateStep, WorkerStep, ReaderStep, WriterStep, MainStep

\* Destroyed instances stay gone.
LEMMA NextGoneInv ==
  ASSUME QuietInv, crashed = "no", Next
  PROVE  DestroyedIsQuiet'
<1> USE DEF QuietInv, DestroyedIsQuiet
<1>1. unmapped \subseteq Instances
  BY DEF TypeInv, TypeOK, ControlTypeOK
<1>2. inQueue # <<>> => Subject \in Instances
  BY SubjectType DEF TypeInv, TypeOK, QueueTypeOK
<1>3. CASE GoneStep
  BY <1>1, <1>3 DEF GoneStep, QuietKept
<1>4. CASE RunCreate
  <2>1. Subject \in Instances
    BY <1>2, <1>4 DEF RunCreate, Handling
  <2>2. workers' \subseteq workers \union {Subject} /\ unmapped' = unmapped \ {Subject}
    BY <1>4 DEF RunCreate
  <2>3. \A i \in Instances : i # Subject => reader'[i] = reader[i] /\ writer'[i] = writer[i]
    BY <1>4, <2>1 DEF RunCreate, workerVars, TypeInv, TypeOK, WorkerTypeOK
  <2> QED
    BY <1>1, <2>2, <2>3 DEF Quiet
<1>5. CASE RunUnmapSend
  <2>1. UNCHANGED <<workers, reader, writer>> /\ unmapped' \subseteq unmapped \union {Subject}
    BY <1>5 DEF RunUnmapSend, workerVars
  <2>2. Subject \notin workers /\ Quiet(Subject)
    BY <1>5 DEF RunUnmapSend, TargetInv
  <2> QED
    BY <2>1, <2>2 DEF Quiet
<1>6. ASSUME NEW req \in Request, OnRequest(req) PROVE DestroyedIsQuiet'
  BY <1>6 DEF OnRequest, workerVars, Quiet
<1> QED
  BY <1>3, <1>4, <1>5, <1>6, GoneKinds DEF SpecialStep

\* The invariant holds initially.
LEMMA InitQuietInv ==
  ASSUME Init PROVE QuietInv
<1>1. TypeInv
  BY InitTypeInv
<1>2. LockInv /\ CreatingInv /\ WriterInv /\ MainInv /\ TargetInv
  BY DEF Init, LockInv, RunHolds, CreatingInv, WriterInv, MainInv, TargetInv
<1>3. JoinedInv
  BY DEF Init, JoinedInv, Quiet
<1>4. DestroyedIsQuiet
  BY DEF Init, DestroyedIsQuiet
<1> QED
  BY <1>1, <1>2, <1>3, <1>4 DEF QuietInv

\* Every step preserves it.
LEMMA NextQuietInv ==
  ASSUME QuietInv, [Next]_vars PROVE QuietInv'
<1>1. CASE Next
  <2>1. crashed = "no"
    BY <1>1 DEF Next
  <2>2. TypeInv' /\ LockInv' /\ CreatingInv'
    BY <1>1, NextTypeInv, NextLockInv DEF QuietInv
  <2>3. WriterInv' /\ MainInv'
    BY <1>1, <2>1, NextWriterInv DEF QuietInv
  <2> QED
    BY <1>1, <2>1, <2>2, <2>3, NextJoinedInv, NextTargetInv, NextGoneInv DEF QuietInv
<1>2. CASE UNCHANGED vars
  <2>1. TypeInv' /\ LockInv' /\ CreatingInv'
    BY <1>2, NextTypeInv, NextLockInv DEF QuietInv
  <2> USE DEF vars, workerVars, serverVars, historyVars, mainVars, elsewhere
  <2>2. WriterInv' /\ MainInv'
    BY <1>2 DEF QuietInv, WriterInv, MainInv
  <2>3. JoinedInv'
    BY <1>2 DEF QuietInv, JoinedInv, Quiet, RunJoins, ServerJoins, MainJoins, Subject
  <2>4. TargetInv' /\ DestroyedIsQuiet'
    BY <1>2 DEF QuietInv, TargetInv, DestroyedIsQuiet, Quiet, Subject
  <2> QED
    BY <2>1, <2>2, <2>3, <2>4 DEF QuietInv
<1> QED
  BY <1>1, <1>2

\* A client that has been sent the destroy response of an instance is sent nothing
\* for it afterwards: no worker and no running thread of the instance is left.
THEOREM DestroyedQuiet == Spec => []DestroyedIsQuiet
<1>1. Init => QuietInv
  BY InitQuietInv
<1>2. QuietInv /\ [Next]_vars => QuietInv'
  BY NextQuietInv
<1>3. QuietInv => DestroyedIsQuiet
  BY DEF QuietInv
<1> QED
  BY <1>1, <1>2, <1>3, PTL DEF Spec

(***************************************************************************)
(* A forward request finds its worker: the invariant ForwardFindsWorker of *)
(* module Conductor.  Every instance that was given out is accounted for   *)
(* (AccountedInv).  The run thread only meets the null pointer with        *)
(* queue_m_ held, and then every account but the excuses of the property   *)
(* is excluded: a create request that is still behind the forward request  *)
(* means that the id was named before it was given out (NamedInv).         *)
(***************************************************************************)

\* A request names an id that was given out, or guesses one; a request before the
\* create request for the same id was a guess.
NamedInv ==
  /\ \A k \in DOMAIN inQueue :
       inQueue[k].instance < nextInstance \/ inQueue[k].instance \in guessed
  /\ \A j, k \in DOMAIN inQueue :
       j < k /\ inQueue[k].verb = "create" /\ inQueue[j].instance = inQueue[k].instance =>
         inQueue[k].instance \in guessed

\* A client is in server::invalidate.
InvalidationInv == srvPc \in {"callback", "join"} => invalidations > 0

\* The create response that is about to be pushed says whether there is a worker.
MakingInv ==
  runPc = "created" =>
    \A r \in creating :
      /\ r.instance = Subject /\ r.verb = "create"
      /\ r.status = "failure" \/ Subject \in workers

\* The client has been told that the worker could not be created.
Refused(i) == \E r \in Pushed : r.instance = i /\ r.verb = "create" /\ r.status = "failure"

Excused(i) == Refused(i) \/ i \in unmapped \/ i \in guessed \/ invalidations > 0

\* The create request is still in in_queue_.
Requested(i) == \E k \in DOMAIN inQueue : inQueue[k].verb = "create" /\ inQueue[k].instance = i

\* A thread is taking the worker out of workers_, or has done so for good.
Removed(i) ==
  \/ runPc \in {"join", "unmap", "sending"} /\ Subject = i
  \/ writer[i] = "join"
  \/ mainPc \in {"teardown", "reap", "exit"}

\* An instance that was given out waits for its worker, has it, has lost it to a
\* thread that is at work, or its client knows.
AccountedInv ==
  crashed = "no" =>
    \A i \in Instances : i < nextInstance =>
      i \in workers \/ Requested(i) \/ Removed(i) \/ Excused(i)

AccountInv ==
  QuietInv /\ OrderInv /\ InvalidationInv /\ MakingInv /\ NamedInv /\ AccountedInv
  /\ ForwardFindsWorker

\* The requests behind the front keep what is said about them.
LEMMA NamedTail ==
  ASSUME TypeInv, NamedInv, inQueue # <<>>, inQueue' = Tail(inQueue),
         UNCHANGED <<nextInstance, guessed>>
  PROVE  NamedInv'
<1>1. \A k \in DOMAIN inQueue' :
        k \in Nat /\ k + 1 \in DOMAIN inQueue /\ inQueue'[k] = inQueue[k + 1]
  BY HeadTailProperties, LenProperties DEF TypeInv, TypeOK, QueueTypeOK
<1> QED
  BY <1>1 DEF NamedInv

\* A create request carries an id that only a guess can have named.
LEMMA NamedAppend ==
  ASSUME TypeInv, NamedInv, NEW req \in Request, OnRequest(req)
  PROVE  NamedInv'
<1>1. \A k \in DOMAIN inQueue' :
        \/ k \in DOMAIN inQueue /\ k \in Nat /\ k <= Len(inQueue) /\ inQueue'[k] = inQueue[k]
        \/ k = Len(inQueue) + 1 /\ inQueue'[k] = req
  BY AppendProperties, LenProperties DEF OnRequest, TypeInv, TypeOK, QueueTypeOK
<1>2. \A k \in DOMAIN inQueue : inQueue[k].instance \in Nat
  <2>1. \A k \in DOMAIN inQueue : inQueue[k] \in Request
    BY ElementOfSeq, LenProperties DEF TypeInv, TypeOK, QueueTypeOK
  <2> QED
    BY <2>1, BoundsAssumption DEF Request, Instances
<1>3. Len(inQueue) \in Nat /\ nextInstance \in Nat
  BY LenProperties DEF TypeInv, TypeOK, QueueTypeOK, ControlTypeOK
<1>4. /\ req.verb = "create" => req.instance = nextInstance /\ nextInstance' = nextInstance + 1
      /\ req.verb # "create" => nextInstance' = nextInstance
  BY DEF OnRequest
<1>5. req.instance \in Nat
  BY BoundsAssumption DEF Request, Instances
<1>6. guessed \subseteq guessed' /\ (req.instance < nextInstance' \/ req.instance \in guessed')
  BY <1>3, <1>4, <1>5 DEF OnRequest
<1>7. \A k \in DOMAIN inQueue' :
        inQueue'[k].instance < nextInstance' \/ inQueue'[k].instance \in guessed'
  BY <1>1, <1>2, <1>3, <1>4, <1>6 DEF NamedInv
<1>8. ASSUME NEW j \in DOMAIN inQueue', NEW k \in DOMAIN inQueue',
             j < k, inQueue'[k].verb = "create", inQueue'[j].instance = inQueue'[k].instance
      PROVE  inQueue'[k].instance \in guessed'
  <2>1. j \in DOMAIN inQueue /\ inQueue'[j] = inQueue[j]
    BY <1>1, <1>3, <1>8
  <2>2. CASE k \in DOMAIN inQueue /\ inQueue'[k] = inQueue[k]
    BY <1>6, <1>8, <2>1, <2>2 DEF NamedInv
  <2>3. CASE inQueue'[k] = req
    <3>1. ~(inQueue[j].instance < nextInstance)
      BY <1>3, <1>4, <1>8, <2>1, <2>3
    <3> QED
      BY <1>6, <1>8, <2>1, <3>1 DEF NamedInv
  <2> QED
    BY <1>1, <2>2, <2>3
<1> QED
  BY <1>7, <1>8 DEF NamedInv

\* Every step keeps what is said about the requests.
LEMMA NextNamedInv ==
  ASSUME TypeInv, NamedInv, crashed = "no", Next
  PROVE  NamedInv'
<1> USE DEF elsewhere, serverVars
<1>1. CASE GoneStep
  BY <1>1, NamedTail DEF GoneStep, Popped, NamedInv
<1>2. CASE RunCreate
  BY <1>2 DEF RunCreate, NamedInv
<1>3. CASE RunUnmapSend
  <2>1. inQueue # <<>>
    BY <1>3 DEF RunUnmapSend, TypeInv, FrontInv
  <2>2. inQueue' \in {inQueue, Tail(inQueue)} /\ UNCHANGED <<nextInstance, guessed>>
    BY <1>3 DEF RunUnmapSend
  <2> QED
    BY <2>1, <2>2, NamedTail DEF NamedInv
<1>4. ASSUME NEW req \in Request, OnRequest(req) PROVE NamedInv'
  BY <1>4, NamedAppend
<1> QED
  BY <1>1, <1>2, <1>3, <1>4, GoneKinds DEF SpecialStep

\* A response stays among those that were pushed.
LEMMA PushedKept ==
  ASSUME TypeInv, LockInv, CreatingInv, OrderInv, [Next]_vars
  PROVE  OrderInv' /\ Pushed \subseteq Pushed'
<1>1. ResponseTypeOK
  BY DEF ResponseTypeOK, TypeInv, TypeOK, QueueTypeOK
<1>2. CASE KeepStep
  BY <1>1, <1>2, SameOrder DEF KeepStep
<1>3. CASE PushStep
  BY <1>1, <1>3, PushOrder DEF PushStep
<1>4. CASE PushDrawnStep
  BY <1>1, <1>4, PushDrawnOrder DEF PushDrawnStep
<1>5. CASE HandOverStep
  BY <1>1, <1>5, HandOverOrder DEF HandOverStep
<1>6. CASE SkipStep
  BY <1>1, <1>6, SkipOrder DEF SkipStep
<1>7. CASE DrawStep
  BY <1>1, <1>7, DrawOrder DEF DrawStep
<1> QED
  BY <1>2, <1>3, <1>4, <1>5, <1>6, <1>7, StepKinds DEF ResponseStep

\* The worker of a create response that is under construction stays in workers_: the
\* run thread holds queue_m_.
LEMMA NextMakingInv ==
  ASSUME QuietInv, InvalidationInv, MakingInv, crashed = "no", Next
  PROVE  InvalidationInv' /\ MakingInv'
<1> USE DEF InvalidationInv, MakingInv, MainInv, LockInv, RunHolds, CreatingInv, QueueFree, Wake,
            vars, responseVars, workerVars, serverVars, historyVars, mainVars, flagVars, elsewhere,
            QuietInv, TypeInv, TypeOK, ControlTypeOK, Subject
<1>1. CASE RunCheck
  BY <1>1 DEF RunCheck
<1>2. CASE RunLock
  BY <1>2 DEF RunLock
<1>3. CASE RunTest
  BY <1>3 DEF RunTest
<1>4. CASE RunSleep
  BY <1>4 DEF RunSleep
<1>5. CASE RunTimeout
  BY <1>5 DEF RunTimeout
<1>6. CASE RunWoken
  BY <1>6 DEF RunWoken
<1>7. CASE RunAwake
  BY <1>7 DEF RunAwake
<1>8. CASE RunCreate
  BY <1>8 DEF RunCreate, Handling, NewResponse, Status
<1>9. CASE RunCreated
  BY <1>9 DEF RunCreated
<1>10. CASE RunCreateThrows
  BY <1>10 DEF RunCreateThrows, Handling
<1>11. CASE RunForward
  BY <1>11 DEF RunForward, Handling
<1>12. CASE RunDestroy
  BY <1>12 DEF RunDestroy, Handling, StopThreads
<1>13. CASE RunJoined
  BY <1>13 DEF RunJoined
<1>14. CASE RunUnmap
  BY <1>14 DEF RunUnmap
<1>15. CASE RunStop
  BY <1>15 DEF RunStop, Handling
<1>16. CASE RunRequestsDone
  BY <1>16 DEF RunRequestsDone
<1>17. CASE RunEnqueue
  BY <1>17 DEF RunEnqueue
<1>18. CASE RunUnlock
  BY <1>18 DEF RunUnlock
<1>19. CASE OnServerFailure
  BY <1>19 DEF OnServerFailure
<1>20. CASE InvalidateBegin
  BY <1>20 DEF InvalidateBegin
<1>21. CASE OnInvalidate
  BY <1>21 DEF OnInvalidate, StopThreads
<1>22. CASE OnInvalidateJoined
  BY <1>22 DEF OnInvalidateJoined
<1>23. CASE InvalidateEnd
  BY <1>23 DEF InvalidateEnd
<1>24. CASE Notify
  BY <1>24 DEF Notify
<1>25. CASE MainJoined
  BY <1>25 DEF MainJoined
<1>26. CASE MainReaped
  BY <1>26 DEF MainReaped
<1>27. CASE MainExit
  BY <1>27 DEF MainExit
<1>28. CASE LateCallback
  BY <1>28 DEF LateCallback
<1>29. ASSUME NEW i \in Instances, InvalidateNext(i) PROVE InvalidationInv' /\ MakingInv'
  BY <1>29 DEF InvalidateNext
<1>30. ASSUME NEW i \in Instances, ReaderReads(i) PROVE InvalidationInv' /\ MakingInv'
  BY <1>30 DEF ReaderReads
<1>31. ASSUME NEW i \in Instances, HandleResponse(i) PROVE InvalidationInv' /\ MakingInv'
  BY <1>31 DEF HandleResponse, PushResponse
<1>32. ASSUME NEW i \in Instances, ReaderInterrupted(i) PROVE InvalidationInv' /\ MakingInv'
  BY <1>32 DEF ReaderInterrupted
<1>33. ASSUME NEW i \in Instances, WriterSends(i) PROVE InvalidationInv' /\ MakingInv'
  BY <1>33 DEF WriterSends
<1>34. ASSUME NEW i \in Instances, WriterSent(i) PROVE InvalidationInv' /\ MakingInv'
  BY <1>34 DEF WriterSent
<1>35. ASSUME NEW i \in Instances, WriterStops(i) PROVE InvalidationInv' /\ MakingInv'
  BY <1>35 DEF WriterStops
<1>36. ASSUME NEW i \in Instances, WorkerFails(i) PROVE InvalidationInv' /\ MakingInv'
  BY <1>36 DEF WorkerFails
<1>37. ASSUME NEW i \in Instances, ReaderHandlesFailure(i) PROVE InvalidationInv' /\ MakingInv'
  BY <1>37 DEF ReaderHandlesFailure, PushResponse
<1>38. ASSUME NEW i \in Instances, WriterHandlesFailure(i) PROVE InvalidationInv' /\ MakingInv'
  BY <1>38 DEF WriterHandlesFailure, PushResponse
<1>39. ASSUME NEW i \in Instances, WriterJoinsItself(i) PROVE InvalidationInv' /\ MakingInv'
  BY <1>39 DEF WriterJoinsItself
<1>40. ASSUME NEW i \in Instances, MainDestroys(i) PROVE InvalidationInv' /\ MakingInv'
  BY <1>40 DEF MainDestroys, StopThreads
<1>41. ASSUME NEW i \in Instances, LateResponse(i) PROVE InvalidationInv' /\ MakingInv'
  BY <1>41 DEF LateResponse
<1>42. ASSUME NEW req \in Request, OnRequest(req) PROVE InvalidationInv' /\ MakingInv'
  BY <1>42 DEF OnRequest
<1>43. CASE RunUnmapSend
  BY <1>43 DEF RunUnmapSend
<1> QED
  BY <1>1, <1>2, <1>3, <1>4, <1>5, <1>6, <1>7, <1>8, <1>9, <1>10, <1>11, <1>12,
     <1>13, <1>14, <1>15, <1>16, <1>17, <1>18, <1>19, <1>20, <1>21, <1>22, <1>23,
     <1>24, <1>25, <1>26, <1>27, <1>28, <1>29, <1>30, <1>31, <1>32, <1>33, <1>34,
     <1>35, <1>36, <1>37, <1>38, <1>39, <1>40, <1>41, <1>42, <1>43
     DEF Next, RunStep, ServerStep, InvalidateStep, WorkerStep, ReaderStep, WriterStep, MainStep

\* A worker that leaves workers_ is accounted for by what the step leaves behind.
RemovalsKept ==
  crashed' = "no" =>
    \A i \in Instances :
      i \in workers \/ Removed(i) =>
        i \in workers' \/ Removed(i)' \/ i \in unmapped' \/ invalidations' > 0

\* The front of in_queue_ may only be popped once it is answered.
RequestsKept ==
  \/ inQueue' = inQueue
  \/ /\ inQueue # <<>> /\ inQueue' = Tail(inQueue)
     /\ Head(inQueue).verb = "create" => Subject \in unmapped' \/ Subject \in workers \/ RunCreated

\* What every step does to the accounts.
AccountStep ==
  /\ RemovalsKept /\ guessed \subseteq guessed'
  /\ unmapped \subseteq unmapped' \/ RunCreate
  /\ invalidations > 0 => invalidations' > 0
  /\ crashed' = "null_worker" => RunForward
  /\ \/ RequestsKept /\ nextInstance' = nextInstance
     \/ \E req \in Request : OnRequest(req)

\* Every action does this.
LEMMA AccountKinds ==
  ASSUME QuietInv, InvalidationInv, crashed = "no", Next
  PROVE  AccountStep
<1> USE DEF AccountStep, RemovalsKept, RequestsKept, Removed, InvalidationInv, WriterInv, MainInv,
            LockInv, RunHolds, QueueFree, Wake, vars, responseVars, workerVars,
            serverVars, historyVars, mainVars, flagVars, elsewhere,
            QuietInv, TypeInv, TypeOK, WorkerTypeOK,
            ControlTypeOK, FrontInv, Subject
<1>1. CASE RunCheck
  BY <1>1 DEF RunCheck
<1>2. CASE RunLock
  BY <1>2 DEF RunLock
<1>3. CASE RunTest
  BY <1>3 DEF RunTest
<1>4. CASE RunSleep
  BY <1>4 DEF RunSleep
<1>5. CASE RunTimeout
  BY <1>5 DEF RunTimeout
<1>6. CASE RunWoken
  BY <1>6 DEF RunWoken
<1>7. CASE RunAwake
  BY <1>7 DEF RunAwake
<1>8. CASE RunCreate
  BY <1>8 DEF RunCreate, Handling
<1>9. CASE RunCreated
  BY <1>9 DEF RunCreated
<1>10. CASE RunCreateThrows
  BY <1>10 DEF RunCreateThrows, Handling
<1>11. CASE RunForward
  BY <1>11 DEF RunForward, Handling
<1>12. CASE RunDestroy
  BY <1>12 DEF RunDestroy, Handling, StopThreads
<1>13. CASE RunJoined
  BY <1>13 DEF RunJoined
<1>14. CASE RunUnmap
  BY <1>14 DEF RunUnmap
<1>15. CASE RunStop
  BY <1>15 DEF RunStop, Handling
<1>16. CASE RunRequestsDone
  BY <1>16 DEF RunRequestsDone
<1>17. CASE RunEnqueue
  BY <1>17 DEF RunEnqueue
<1>18. CASE RunUnlock
  BY <1>18 DEF RunUnlock
<1>19. CASE OnServerFailure
  BY <1>19 DEF OnServerFailure
<1>20. CASE InvalidateBegin
  BY <1>20 DEF InvalidateBegin
<1>21. CASE OnInvalidate
  BY <1>21 DEF OnInvalidate, StopThreads
<1>22. CASE OnInvalidateJoined
  BY <1>22 DEF OnInvalidateJoined
<1>23. CASE InvalidateEnd
  BY <1>23 DEF InvalidateEnd
<1>24. CASE Notify
  BY <1>24 DEF Notify
<1>25. CASE MainJoined
  BY <1>25 DEF MainJoined
<1>26. CASE MainReaped
  BY <1>26 DEF MainReaped
<1>27. CASE MainExit
  BY <1>27 DEF MainExit
<1>28. CASE LateCallback
  BY <1>28 DEF LateCallback
<1>29. ASSUME NEW i \in Instances, InvalidateNext(i) PROVE AccountStep
  BY <1>29 DEF InvalidateNext
<1>30. ASSUME NEW i \in Instances, ReaderReads(i) PROVE AccountStep
  BY <1>30 DEF ReaderReads
<1>31. ASSUME NEW i \in Instances, HandleResponse(i) PROVE AccountStep
  BY <1>31 DEF HandleResponse, PushResponse
<1>32. ASSUME NEW i \in Instances, ReaderInterrupted(i) PROVE AccountStep
  BY <1>32 DEF ReaderInterrupted
<1>33. ASSUME NEW i \in Instances, WriterSends(i) PROVE AccountStep
  BY <1>33 DEF WriterSends
<1>34. ASSUME NEW i \in Instances, WriterSent(i) PROVE AccountStep
  BY <1>34 DEF WriterSent
<1>35. ASSUME NEW i \in Instances, WriterStops(i) PROVE AccountStep
  BY <1>35 DEF WriterStops
<1>36. ASSUME NEW i \in Instances, WorkerFails(i) PROVE AccountStep
  BY <1>36 DEF WorkerFails
<1>37. ASSUME NEW i \in Instances, ReaderHandlesFailure(i) PROVE AccountStep
  BY <1>37 DEF ReaderHandlesFailure, PushResponse
<1>38. ASSUME NEW i \in Instances, WriterHandlesFailure(i) PROVE AccountStep
  BY <1>38 DEF WriterHandlesFailure, PushResponse
<1>39. ASSUME NEW i \in Instances, WriterJoinsItself(i) PROVE AccountStep
  BY <1>39 DEF WriterJoinsItself
<1>40. ASSUME NEW i \in Instances, MainDestroys(i) PROVE AccountStep
  BY <1>40 DEF MainDestroys, StopThreads
<1>41. ASSUME NEW i \in Instances, LateResponse(i) PROVE AccountStep
  BY <1>41 DEF LateResponse
<1>42. ASSUME NEW req \in Request, OnRequest(req) PROVE AccountStep
  BY <1>42 DEF OnRequest
<1>43. CASE RunUnmapSend
  BY <1>43 DEF RunUnmapSend
<1> QED
  BY <1>1, <1>2, <1>3, <1>4, <1>5, <1>6, <1>7, <1>8, <1>9, <1>10, <1>11, <1>12,
     <1>13, <1>14, <1>15, <1>16, <1>17, <1>18, <1>19, <1>20, <1>21, <1>22, <1>23,
     <1>24, <1>25, <1>26, <1>27, <1>28, <1>29, <1>30, <1>31, <1>32, <1>33, <1>34,
     <1>35, <1>36, <1>37, <1>38, <1>39, <1>40, <1>41, <1>42, <1>43
     DEF Next, RunStep, ServerStep, InvalidateStep, WorkerStep, ReaderStep, WriterStep, MainStep
\* A request that is not at the front stays when the front is popped.
LEMMA RequestedTail ==
  ASSUME inQueue \in Seq(Request), inQueue # <<>>, inQueue' = Tail(inQueue),
         NEW i, Requested(i)
  PROVE  Requested(i)' \/ (Head(inQueue).verb = "create" /\ Subject = i)
<1>1. PICK k \in DOMAIN inQueue : inQueue[k].verb = "create" /\ inQueue[k].instance = i
  BY DEF Requested
<1>2. k = 1 \/ (k - 1 \in DOMAIN inQueue' /\ inQueue'[k - 1] = inQueue[k])
  BY HeadTailProperties, LenProperties
<1> QED
  BY <1>1, <1>2 DEF Requested, Subject

\* It stays when another is pushed, and the pushed one is there.
LEMMA RequestedAppend ==
  ASSUME inQueue \in Seq(Request), NEW req \in Request, inQueue' = Append(inQueue, req)
  PROVE  /\ \A i : Requested(i) => Requested(i)'
         /\ req.verb = "create" => Requested(req.instance)'
<1>1. /\ \A k \in DOMAIN inQueue : k \in DOMAIN inQueue' /\ inQueue'[k] = inQueue[k]
      /\ \E k \in DOMAIN inQueue' : inQueue'[k] = req
  BY AppendProperties, LenProperties
<1> QED
  BY <1>1 DEF Requested

\* The accounts still balance after every step.
LEMMA NextAccountedInv ==
  ASSUME AccountInv, crashed = "no", Next
  PROVE  AccountedInv'
<1> USE DEF AccountInv
<1>1. SUFFICES ASSUME crashed' = "no", NEW i \in Instances, i < nextInstance'
               PROVE  i \in workers' \/ Requested(i)' \/ Removed(i)' \/ Excused(i)'
  BY DEF AccountedInv
<1>2. AccountStep
  BY AccountKinds
<1>3. Pushed \subseteq Pushed'
  BY PushedKept DEF QuietInv
<1>4. Refused(i) => Refused(i)'
  BY <1>3 DEF Refused
<1>5. Excused(i) => Excused(i)' \/ Requested(i)'
  <2>1. CASE unmapped \subseteq unmapped'
    BY <1>2, <1>4, <2>1 DEF Excused, AccountStep
  <2>2. CASE RunCreate
    <3>1. /\ inQueue # <<>> /\ Head(inQueue).verb = "create"
          /\ inQueue' = inQueue /\ unmapped' = unmapped \ {Subject}
      BY <2>2 DEF RunCreate, Handling
    <3>2. 1 \in DOMAIN inQueue /\ Head(inQueue) = inQueue[1]
      BY <3>1, EmptySeq, LenProperties DEF QuietInv, TypeInv, TypeOK, QueueTypeOK
    <3>3. i = Subject => Requested(i)'
      BY <3>1, <3>2 DEF Requested, Subject
    <3>4. i # Subject /\ i \in unmapped => i \in unmapped'
      BY <3>1
    <3> QED
      BY <1>2, <1>4, <3>3, <3>4 DEF Excused, AccountStep
  <2> QED
    BY <1>2, <2>1, <2>2 DEF AccountStep
<1>6. i \in workers \/ Removed(i) => i \in workers' \/ Removed(i)' \/ Excused(i)'
  BY <1>1, <1>2 DEF AccountStep, RemovalsKept, Excused
<1>7. inQueue \in Seq(Request)
  BY DEF QuietInv, TypeInv, TypeOK, QueueTypeOK
<1>8. CASE i < nextInstance
  <2>1. i \in workers \/ Requested(i) \/ Removed(i) \/ Excused(i)
    BY <1>8 DEF AccountedInv
  <2>2. Requested(i) => Requested(i)' \/ i \in workers \/ Excused(i)'
    <3>1. CASE inQueue' = inQueue
      BY <3>1 DEF Requested
    <3>2. CASE /\ inQueue # <<>> /\ inQueue' = Tail(inQueue)
               /\ Head(inQueue).verb = "create" =>
                    Subject \in unmapped' \/ Subject \in workers \/ RunCreated
      <4>1. SUFFICES ASSUME Requested(i), ~Requested(i)', i \notin workers, i \notin unmapped'
                     PROVE  Refused(i)'
        BY DEF Excused
      <4>2. Head(inQueue).verb = "create" /\ Subject = i
        BY <1>7, <3>2, <4>1, RequestedTail
      <4>3. RunCreated
        BY <3>2, <4>1, <4>2
      <4>4. PICK r \in creating : outQueue' = Append(outQueue, r) /\ runPc = "created"
        BY <4>3 DEF RunCreated
      <4>5. r.instance = i /\ r.verb = "create" /\ r.status = "failure"
        BY <4>1, <4>2, <4>4 DEF MakingInv
      <4>6. r \in Response /\ outQueue \in Seq(Response)
        BY <4>4 DEF QuietInv, TypeInv, TypeOK, QueueTypeOK
      <4>7. r \in ToSet(outQueue')
        BY <4>4, <4>6, AppendSet
      <4> QED
        BY <4>5, <4>7 DEF Refused, Pushed
    <3>3. ASSUME NEW req \in Request, OnRequest(req)
          PROVE  Requested(i) => Requested(i)'
      BY <1>7, <3>3, RequestedAppend DEF OnRequest
    <3> QED
      BY <1>2, <3>1, <3>2, <3>3 DEF AccountStep, RequestsKept
  <2> QED
    BY <1>5, <1>6, <2>1, <2>2
<1>9. CASE ~(i < nextInstance)
  <2>1. PICK req \in Request : OnRequest(req)
    BY <1>1, <1>2, <1>9 DEF AccountStep
  <2>2. nextInstance \in Nat /\ i \in Nat
    BY BoundsAssumption DEF QuietInv, TypeInv, TypeOK, ControlTypeOK, Instances
  <2>3. req.verb = "create" /\ req.instance = i
    BY <1>1, <1>9, <2>1, <2>2 DEF OnRequest
  <2>4. Requested(i)'
    BY <1>7, <2>1, <2>3, RequestedAppend DEF OnRequest
  <2> QED
    BY <2>4
<1> QED
  BY <1>8, <1>9

\* At a forward request everything but the excuses is excluded.
LEMMA NextForward ==
  ASSUME AccountInv, crashed = "no", Next
  PROVE  ForwardFindsWorker'
<1> USE DEF AccountInv
<1>1. SUFFICES ASSUME crashed' = "null_worker"
               PROVE  Excused(Subject)'
  BY DEF ForwardFindsWorker, Excused, Refused
<1>2. RunForward /\ crashed' # crashed
  BY <1>1, AccountKinds DEF AccountStep
<1>3. /\ runPc = "requests" /\ inQueue # <<>> /\ Head(inQueue).verb = "forward"
      /\ Subject \notin workers /\ inQueue' = inQueue
      /\ UNCHANGED <<unmapped, guessed, invalidations, responseVars>>
  BY <1>2 DEF RunForward, Handling, serverVars, historyVars
<1>4. /\ Subject \in Instances /\ Head(inQueue) = inQueue[1] /\ 1 \in DOMAIN inQueue
      /\ \A k \in DOMAIN inQueue : k \in Nat /\ k >= 1
  BY <1>3, SubjectType, EmptySeq, LenProperties DEF QuietInv, TypeInv, TypeOK, QueueTypeOK
<1>5. Subject < nextInstance \/ Subject \in guessed
  BY <1>4 DEF NamedInv, Subject
<1>6. Requested(Subject) => Subject \in guessed
  <2>1. SUFFICES ASSUME NEW k \in DOMAIN inQueue, inQueue[k].verb = "create",
                        inQueue[k].instance = Subject
                 PROVE  Subject \in guessed
    BY DEF Requested
  <2>2. k # 1
    BY <1>3, <1>4, <2>1
  <2> QED
    BY <1>4, <2>1, <2>2 DEF NamedInv, Subject
<1>7. ~Removed(Subject)
  BY <1>3, <1>4 DEF Removed, QuietInv, LockInv, RunHolds, WriterInv, MainInv
<1>8. Excused(Subject)
  BY <1>3, <1>4, <1>5, <1>6, <1>7 DEF AccountedInv, Excused
<1> QED
  BY <1>3, <1>8 DEF Excused, Refused, Pushed, Subject, responseVars

\* The invariant holds initially.
LEMMA InitAccountInv ==
  ASSUME Init PROVE AccountInv
<1>1. QuietInv /\ OrderInv
  BY InitQuietInv, InitIInv DEF IInv
<1>2. InvalidationInv /\ MakingInv /\ ForwardFindsWorker
  BY DEF Init, InvalidationInv, MakingInv, ForwardFindsWorker
<1>3. NamedInv /\ AccountedInv
  BY DEF Init, NamedInv, AccountedInv, Instances
<1> QED
  BY <1>1, <1>2, <1>3 DEF AccountInv

\* Every step preserves it.
LEMMA NextAccountInv ==
  ASSUME AccountInv, [Next]_vars PROVE AccountInv'
<1>1. QuietInv' /\ OrderInv'
  BY NextQuietInv, PushedKept DEF AccountInv, QuietInv
<1>2. CASE Next
  <2>1. crashed = "no"
    BY <1>2 DEF Next
  <2>2. InvalidationInv' /\ MakingInv' /\ NamedInv'
    BY <1>2, <2>1, NextMakingInv, NextNamedInv DEF AccountInv, QuietInv
  <2> QED
    BY <1>1, <1>2, <2>1, <2>2, NextAccountedInv, NextForward DEF AccountInv
<1>3. CASE UNCHANGED vars
  <2> USE DEF vars, workerVars, serverVars, historyVars, mainVars, responseVars, elsewhere
  <2>1. InvalidationInv' /\ MakingInv' /\ NamedInv'
    BY <1>3 DEF AccountInv, InvalidationInv, MakingInv, NamedInv, Subject
  <2>2. AccountedInv'
    BY <1>3 DEF AccountInv, AccountedInv, Requested, Removed, Excused, Refused, Pushed, Subject
  <2>3. ForwardFindsWorker'
    BY <1>3 DEF AccountInv, ForwardFindsWorker, Pushed, Subject
  <2> QED
    BY <1>1, <2>1, <2>2, <2>3 DEF AccountInv
<1> QED
  BY <1>2, <1>3

\* The run thread inserts a null pointer with workers_[id] only for an instance whose
\* client was told that it is not there (by a failed create response or a destroy
\* response), that a client named before the server gave it out, or after a client was
\* invalidated: no other order of requests, failures and joins takes a worker away
\* under a forward request.
THEOREM ForwardsFindWorkers == Spec => []ForwardFindsWorker
<1>1. Init => AccountInv
  BY InitAccountInv
<1>2. AccountInv /\ [Next]_vars => AccountInv'
  BY NextAccountInv
<1>3. AccountInv => ForwardFindsWorker
  BY DEF AccountInv
<1> QED
  BY <1>1, <1>2, <1>3, PTL DEF Spec
=============================================================================
