------------------------------ MODULE WorkerWin ------------------------------
(***************************************************************************)
(* A worker on Windows (sertop/worker_win.cpp): one named pipe with        *)
(* overlapped reads and writes, events instead of an interrupt pipe, and a *)
(* process handle.  The pipe has no buffer: a write stays pending until    *)
(* sertop has read it.                                                     *)
(***************************************************************************)
EXTENDS Worker

\* The handles in the order in which the constructor opens them, and what it does:
\* CreateNamedPipe, CreateFile, CreateProcess, three times CreateEvent.
Opened ==
  << {"workerEnd"}, {"sertopEnd"}, {"process", "thread"},
     {"interruptEvent"}, {"readEvent"}, {"writeEvent"} >>

OpenedBy(calls) == UNION {Opened[k] : k \in 1 .. calls}

(***************************************************************************)
(* The constructor.                                                        *)
(***************************************************************************)

\* What close_all is given on an error path: all that was opened, including the
\* thread handle, which is closed already.
ClosedByError(calls) == OpenedBy(calls)

\* What CreateProcess lets a child inherit: the sertop end of every worker.
Inheritable == {h \in open : h[2] = "sertopEnd"}

\* A call fails after this many have succeeded.  A sertop that was started is left
\* to the end of its input.
ConstructFailsWin(i) ==
  /\ platform = "win" /\ OwnerIdle /\ owner.lock = "free" /\ IsNext(i)
  /\ Spend("failures")
  /\ \E calls \in 0 .. 5 :
       LET started == calls >= 3
           opened == Of(i, OpenedBy(calls)) \ Of(i, {"thread"})
           closed == Of(i, ClosedByError(calls))
       IN  /\ open' = (open \union opened) \ closed
           /\ misused' = misused \union (closed \ (open \union opened))
           /\ worker' = [worker EXCEPT ![i].life = "failed",
                           ![i].sertop = IF started THEN "running" ELSE @,
                           ![i].holds = IF started THEN Inheritable \union Of(i, {"sertopEnd"})
                                        ELSE @]
  /\ UNCHANGED <<platform, owner, crashed>>
\* All calls succeed; the handle of the thread is closed at once.
ConstructWin(i) ==
  /\ platform = "win" /\ OwnerIdle /\ owner.lock = "free" /\ IsNext(i)
  /\ open' = open \union Of(i, OpenedBy(6) \ {"thread"})
  /\ worker' = [worker EXCEPT ![i].life = "alive", ![i].running = TRUE,
                  ![i].reader = "start", ![i].writer = "wait", ![i].sertop = "running",
                  ![i].holds = Inheritable \union Of(i, {"sertopEnd"})]
  /\ UNCHANGED <<platform, misused, owner, budget, crashed>>

(***************************************************************************)
(* SetEvent and CancelIoEx, which end waits in both threads.               *)
(***************************************************************************)

\* CancelIoEx on a worker w: the operations that are pending end with an error.
Cancelled(w) ==
  [w EXCEPT !.read = IF @ = "pending" THEN "aborted" ELSE @,
            !.writer = IF @ = "blocked" /\ w.pipe # <<>> THEN "aborted" ELSE @,
            !.pipe = <<>>]

\* fail(), up to the callbacks.
Failing(w) == [Cancelled(w) EXCEPT !.running = FALSE, !.signalled = TRUE, !.fails = @ + 1]

DestroySignals(i) ==
  /\ At("interrupt", i) /\ platform = "win"
  /\ worker' = [worker EXCEPT ![i].signalled = TRUE]
  /\ owner' = [owner EXCEPT !.pc = "cancel"]
  /\ UNCHANGED <<platform, handleVars, budget, crashed>>

DestroyCancels(i) ==
  /\ At("cancel", i)
  /\ worker' = [worker EXCEPT ![i] = Cancelled(@)]
  /\ owner' = [owner EXCEPT !.pc = "joinReader"]
  /\ UNCHANGED <<platform, handleVars, budget, crashed>>

(***************************************************************************)
(* read_loop.                                                              *)
(***************************************************************************)

\* ReadFile takes what sertop is printing, or is left pending.
ReaderStarts(i) ==
  /\ worker[i].reader = "start"
  /\ worker' = [worker EXCEPT ![i].reader = "wait",
                  ![i].read = IF worker[i].unread > 0 THEN "done" ELSE "pending",
                  ![i].unread = IF @ > 0 THEN @ - 1 ELSE @]
  /\ UNCHANGED <<platform, handleVars, owner, budget, crashed>>

\* WaitForMultipleObjects looks at the interrupt event first.
ReaderSignalled(i) ==
  /\ worker[i].reader = "wait" /\ worker[i].signalled
  /\ worker' = [worker EXCEPT ![i].reader = "done"]
  /\ UNCHANGED <<platform, handleVars, owner, budget, crashed>>

ReaderFinishes(i) ==
  /\ worker[i].reader = "wait" /\ ~worker[i].signalled /\ worker[i].read = "done"
  /\ worker' = [worker EXCEPT ![i].reader = "respond", ![i].read = "none"]
  /\ UNCHANGED <<platform, handleVars, owner, budget, crashed>>

\* ReadFile fails, after which there is no break, or one of the calls that follow.
ReaderFailsWin(i) ==
  /\ worker[i].reader \in {"start", "wait"}
  /\ Spend("failures")
  /\ worker' = [worker EXCEPT ![i] =
       [Failing(@) EXCEPT !.reader = IF worker[i].reader = "start" THEN "failstart" ELSE "fail"]]
  /\ UNCHANGED <<platform, handleVars, owner, crashed>>

(***************************************************************************)
(* write.                                                                  *)
(***************************************************************************)

WriterStarts(i) ==
  /\ platform = "win" /\ worker[i].writer = "write"
  /\ worker' = [worker EXCEPT ![i].writer = "blocked", ![i].rest = <<>>,
                              ![i].pipe = worker[i].rest]
  /\ UNCHANGED <<platform, handleVars, owner, budget, crashed>>

\* GetOverlappedResult returns when sertop has read it all.
WriterFinishes(i) ==
  /\ worker[i].writer = "blocked" /\ worker[i].pipe = <<>>
  /\ worker' = [worker EXCEPT ![i].writer = WriteAgain(i)]
  /\ UNCHANGED <<platform, handleVars, owner, budget, crashed>>

\* The operation was cancelled, by the destructor as well as by fail() of the reader.
WriterAborted(i) ==
  /\ worker[i].writer = "aborted"
  /\ worker' = [worker EXCEPT ![i] = [Failing(@) EXCEPT !.writer = "fail"]]
  /\ UNCHANGED <<platform, handleVars, owner, budget, crashed>>

WriterFailsWin(i) ==
  /\ platform = "win" /\ worker[i].writer \in {"write", "blocked"}
  /\ Spend("failures")
  /\ worker' = [worker EXCEPT ![i] = [Failing(@) EXCEPT !.writer = "fail"]]
  /\ UNCHANGED <<platform, handleVars, owner, crashed>>

(***************************************************************************)
(* The rest of ~worker.                                                    *)
(***************************************************************************)

\* Both threads are joined.  Closing the pipe ends what is still pending on it.
JoinWriterWin(i) ==
  /\ At("joinWriter", i) /\ platform = "win" /\ worker[i].writer = "done"
  /\ CloseAll(Of(i, {"sertopEnd", "workerEnd"}))
  /\ worker' = [worker EXCEPT ![i] = Cancelled(@)]
  /\ owner' = [owner EXCEPT !.pc = "wait"]
  /\ UNCHANGED <<platform, budget, crashed>>

WaitExited(i) ==
  /\ At("wait", i) /\ platform = "win" /\ worker[i].sertop = "exited"
  /\ owner' = [owner EXCEPT !.pc = "cleanup"]
  /\ UNCHANGED <<platform, worker, handleVars, budget, crashed>>

\* Mutant of WaitTimeoutWin: should_terminate is not set.
TimeoutIgnored(i) ==
  /\ At("wait", i) /\ platform = "win"
  /\ worker[i].sertop = "running" /\ UNCHANGED budget
  /\ owner' = [owner EXCEPT !.pc = "cleanup"]
  /\ UNCHANGED <<platform, worker, handleVars, crashed>>

\* WAIT_TIMEOUT, or WAIT_FAILED.
WaitTimeoutWin(i) ==
  /\ At("wait", i) /\ platform = "win"
  /\ \/ worker[i].sertop = "running" /\ UNCHANGED budget
     \/ Spend("failures")
  /\ owner' = [owner EXCEPT !.pc = "terminate"]
  /\ UNCHANGED <<platform, worker, handleVars, crashed>>

\* TerminateProcess, which may fail.
Terminate(i) ==
  /\ At("terminate", i)
  /\ \/ /\ worker' = [worker EXCEPT ![i].sertop = "exited", ![i].holds = {}]
        /\ UNCHANGED budget
     \/ worker' = [worker EXCEPT ![i].lost = @ \union {"process"}] /\ Spend("failures")
  /\ owner' = [owner EXCEPT !.pc = "cleanup"]
  /\ UNCHANGED <<platform, handleVars, crashed>>

\* The three events stay open.
CleanupWin(i) ==
  /\ At("cleanup", i) /\ platform = "win"
  /\ CloseAll(Of(i, {"process"}))
  /\ worker' = [worker EXCEPT ![i] = Gone(@)]
  /\ owner' = Return
  /\ UNCHANGED <<platform, budget, crashed>>

(***************************************************************************)
(* sertop.                                                                 *)
(***************************************************************************)

SertopReadsWin(i) ==
  /\ platform = "win" /\ worker[i].sertop = "running" /\ worker[i].pipe # <<>>
  /\ worker' = [worker EXCEPT ![i].pipe = Tail(@),
                              ![i].received = Append(@, Head(worker[i].pipe))]
  /\ UNCHANGED <<platform, handleVars, owner, budget, crashed>>

\* What sertop prints goes into the buffer of the pending read.  If the read thread
\* has left its loop the buffer is freed memory, and anything may happen.
SertopPrintsWin(i) ==
  /\ platform = "win" /\ worker[i].sertop = "running" /\ Spend("prints")
  /\ worker' = [worker EXCEPT ![i].read = IF @ = "pending" THEN "done" ELSE @,
                  ![i].unread = IF worker[i].read = "pending" THEN @ ELSE @ + 1]
  /\ \/ UNCHANGED crashed
     \/ worker[i].reader = "done" /\ worker[i].read = "pending" /\ crashed' = "freed_buffer"
  /\ UNCHANGED <<platform, handleVars, owner>>

\* The pipe is broken once the worker's end is closed.
SertopExitsWin(i) ==
  /\ platform = "win" /\ worker[i].sertop = "running"
  /\ \/ <<i, "workerEnd">> \notin open /\ UNCHANGED budget
     \/ Spend("failures")
  /\ worker' = [worker EXCEPT ![i].sertop = "exited", ![i].holds = {}]
  /\ UNCHANGED <<platform, handleVars, owner, crashed>>
=============================================================================
