------------------------------- MODULE Workers -------------------------------
(***************************************************************************)
(* The workers of either build: the steps of Worker with those of          *)
(* WorkerPosix or WorkerWin, and what is claimed of both.                  *)
(***************************************************************************)
EXTENDS WorkerPosix, WorkerWin

ReaderStep(i) ==
  \/ ReaderInterrupted(i) \/ ReaderReads(i) \/ ReaderSpins(i)
  \/ ReaderStarts(i) \/ ReaderSignalled(i) \/ ReaderFinishes(i)

WriterStep(i) ==
  \/ WriterPops(i) \/ WriterStops(i) \/ WriterWrites(i) \/ WriterKilled(i)
  \/ WriterStarts(i) \/ WriterFinishes(i) \/ WriterAborted(i)

DestroyStep(i) ==
  \/ DestroyInterrupt(i) \/ DestroySignals(i) \/ DestroyCancels(i)
  \/ JoinReader(i) \/ JoinWriter(i) \/ JoinWriterWin(i)
  \/ WaitReady(i) \/ WaitTimeout(i) \/ Kill(i) \/ Cleanup(i) \/ FutureDone(i)
  \/ WaitExited(i) \/ WaitTimeoutWin(i) \/ Terminate(i) \/ CleanupWin(i)

\* A system call fails, or sertop does something.
Event(i) ==
  \/ ConstructFails(i) \/ ConstructFailsWin(i) \/ ExecFails(i) \/ ReapFails(i)
  \/ ReaderFails(i) \/ ReaderFailsWin(i) \/ WriterFails(i) \/ WriterFailsWin(i)
  \/ SertopReads(i) \/ SertopPrints(i) \/ SertopExits(i)
  \/ SertopReadsWin(i) \/ SertopPrintsWin(i) \/ SertopExitsWin(i)
  \/ LateCallback(i)

\* Nothing happens in a terminated process.
Next ==
  /\ crashed = "no"
  /\ \/ Teardown
     \/ \E i \in Ids :
          \/ Fork(i) \/ Start(i) \/ Exec(i) \/ ConstructWin(i)
          \/ Enqueue(i) \/ Destroy(i)
          \/ ReaderStep(i) \/ WriterStep(i) \/ CallbackStep(i)
          \/ DestroyStep(i) \/ Reap(i) \/ Event(i)

Spec == Init /\ [][Next]_vars

Alive(A) == crashed = "no" /\ A

\* The thread inside the constructor or destructor of a worker.
OwnerStep == \E i \in Ids : Start(i) \/ DestroyStep(i)

\* The threads of the wrapper run, a child that was forked calls execv(), and SIGTERM
\* ends a sertop.  Nothing else is expected of sertop, in particular not that it
\* reads its input or ends with it.
Fairness ==
  /\ WF_vars(Alive(OwnerStep)) /\ WF_vars(Alive(\E i \in Ids : Reap(i)))
  /\ \A i \in Ids :
       /\ WF_vars(Alive(ReaderStep(i))) /\ WF_vars(Alive(WriterStep(i)))
       /\ WF_vars(Alive(CallbackStep(i))) /\ WF_vars(Alive(Exec(i)))
       /\ WF_vars(Alive(worker[i].sigterm /\ SertopExits(i)))

FairSpec == Spec /\ Fairness

(***************************************************************************)
(* Safety.                                                                 *)
(***************************************************************************)

Messages == UNION {1 .. b.messages : b \in Budgets}

Piece == Messages \X (1 .. MessageLength)

WorkerRecord ==
  [life : {"none", "constructing", "alive", "destroying", "destroyed", "failed"},
   running : BOOLEAN,
   reader : {"none", "poll", "start", "wait", "respond", "fail", "failstart", "done"},
   writer : {"none", "wait", "write", "blocked", "aborted", "fail", "join", "done"},
   accepted : Seq(Messages), queue : Seq(Messages), rest : Seq(Piece), pipe : Seq(Piece),
   received : Seq(Piece), unread : Nat, signalled : BOOLEAN, fails : Nat,
   read : {"none", "pending", "done", "aborted"},
   sertop : {"none", "forked", "running", "exited", "reaped"},
   holds : SUBSET Handle, sigterm : BOOLEAN,
   lost : SUBSET {"interrupt", "kill", "process"}]

OwnerRecord ==
  [pc : {"idle", "forked", "interrupt", "cancel", "joinReader", "joinWriter", "wait", "kill",
         "terminate", "cleanup", "future"},
   id : Ids \union {0}, lock : {"free", "owner", "writer", "dead"},
   waiter : {"none", "waiting", "ready", "failed"}]

TypeOK ==
  /\ platform \in {"posix", "win"}
  /\ worker \in [Ids -> WorkerRecord]
  /\ open \subseteq Handle /\ misused \subseteq Handle
  /\ owner \in OwnerRecord
  /\ budget \in [messages : Nat, prints : Nat, failures : Nat]
  /\ crashed \in {"no", "self_join", "sigpipe", "late_callback", "freed_buffer"}

\* Everything a thread of worker i passes to a system call.
UsedBy(i) ==
  Of(i, CASE platform = "posix" ->
                (IF worker[i].reader = "poll" THEN {"interrupt0", "stdout0"} ELSE {})
                \union (IF worker[i].writer = "write" THEN {"stdin1"} ELSE {})
          [] platform = "win" ->
                (IF worker[i].reader \in {"start", "wait"}
                   THEN {"workerEnd", "readEvent", "interruptEvent"} ELSE {})
                \union (IF worker[i].writer \in {"write", "blocked", "aborted"}
                          THEN {"workerEnd", "writeEvent"} ELSE {}))

\* No thread of a worker is left with a handle that the destructor, or fail() on the
\* other thread, has closed under it: the number may be another worker's by then.
ThreadsUseOpenHandles == \A i \in Ids : UsedBy(i) \subseteq open

\* A handle is closed twice, or written to when it is closed, only in two places: the
\* write end of the interrupt pipe of a worker that failed (worker_posix.cpp:231, 137
\* and 217), and the thread handle of a constructor that failed (worker_win.cpp:97).
MisusedOnlyAfterFailure ==
  \A h \in misused :
    \/ h[2] = "interrupt1" /\ worker[h[1]].fails > 0
    \/ h[2] = "thread" /\ worker[h[1]].life = "failed"

\* A worker that is gone, or never came to be, leaves no handle open but the interrupt
\* pipe of a constructor that failed on POSIX, and the three events on Windows.
KnownLeaks ==
  \A i \in Ids :
    LET left == {h[2] : h \in {g \in open : g[1] = i}}
    IN  CASE worker[i].life = "none" -> left = {}
          [] worker[i].life = "failed" -> left \subseteq Ends("interrupt")
          [] worker[i].life = "destroyed" -> left \subseteq OpenedBy(6) \ OpenedBy(3)
          [] OTHER -> TRUE

\* When the destructor has returned, sertop has ended and, on POSIX, was waited for,
\* unless waitpid() or TerminateProcess() itself has failed for it.
NoProcessLeft ==
  \A i \in Ids :
    worker[i].life = "destroyed" /\ "process" \notin worker[i].lost =>
      worker[i].sertop = IF platform = "posix" THEN "reaped" ELSE "exited"

\* The end of input that is to shut sertop down does reach it, unless a sertop forked
\* later holds a copy of the pipe (or its own child has not come to execv() yet).
ClosingEndsInput ==
  \A i \in Ids :
    At("wait", i) =>
      \/ platform = "win" /\ <<i, "workerEnd">> \notin open
      \/ ~HeldSomewhere(<<i, "stdin1">>) \/ worker[i].sertop = "forked"
      \/ \E j \in Ids : j > i /\ <<i, "stdin1">> \in worker[j].holds

Input ==
  INSTANCE SertopInput WITH Sertop <- Ids, Message <- Messages, Length <- MessageLength,
    accepted <- [i \in Ids |-> worker[i].accepted],
    received <- [i \in Ids |-> worker[i].received]

\* The workers implement SertopInput: every sertop reads what was enqueued to its own
\* worker, whole and in order, however the writes are cut and wherever a failure or the
\* destructor ends them.
SertopGetsMessages == Input!Spec

(***************************************************************************)
(* Liveness.                                                               *)
(***************************************************************************)

\* The destructor's caller holds queue_m_, and a thread it joins is in a callback.
JoinCycle(i) ==
  owner.lock \in {"owner", "writer"} /\
  (worker[i].reader \in {"respond", "fail", "failstart"} \/ worker[i].writer = "fail")

\* sertop does not read, and the writer is in a write that only sertop can end.
BlockedWrite(i) ==
  \/ worker[i].writer = "write" /\ Len(worker[i].pipe) = PipeCapacity
  \/ worker[i].writer = "blocked" /\ worker[i].pipe # <<>>

\* The read thread stays in poll(): the destructor could not write to the interrupt pipe,
\* or fail() has closed it, but a sertop forked later holds a copy of its write end.
LostHangup(i) ==
  /\ worker[i].reader = "poll" /\ ~worker[i].signalled
  /\ \/ "interrupt" \in worker[i].lost
     \/ /\ worker[i].fails > 0
        /\ \E j \in Ids : j >= i /\ <<i, "interrupt1">> \in worker[j].holds

\* The destructor of the future waits for a sertop that kill() has not reached.
LostKill(i) == owner.waiter = "waiting" /\ owner.id = i /\ "kill" \in worker[i].lost

\* The destructor returns, however sertop behaves, unless the process was terminated or
\* it waits in one of these four ways.
DestructorReturns ==
  \A i \in Ids :
    (worker[i].life = "destroying") ~>
      \/ worker[i].life = "destroyed" \/ crashed # "no"
      \/ [](JoinCycle(i) \/ BlockedWrite(i) \/ LostHangup(i) \/ LostKill(i))

\* A message that was enqueued is written, unless the worker stops, the process was
\* terminated, or sertop does not read.
QueueIsWritten ==
  \A i \in Ids :
    (worker[i].queue # <<>>) ~>
      \/ worker[i].queue = <<>> \/ ~worker[i].running \/ crashed # "no"
      \/ []BlockedWrite(i)
=============================================================================
