----------------------------- MODULE WorkerPosix -----------------------------
(***************************************************************************)
(* A worker on POSIX (sertop/worker_posix.cpp): pipes, fork and exec, the  *)
(* two loops on the pipes, and the end of the process.  No pipe is marked  *)
(* close-on-exec, so every sertop holds the ends that the wrapper had open *)
(* when it was forked, less the ones it closes itself.                     *)
(***************************************************************************)
EXTENDS Worker

Pipes == <<"interrupt", "stdin", "stdout">>

Ends(pipe) ==
  CASE pipe = "interrupt" -> {"interrupt0", "interrupt1"}
    [] pipe = "stdin"     -> {"stdin0", "stdin1"}
    [] pipe = "stdout"    -> {"stdout0", "stdout1"}

EndsOf(pipes) == UNION {Ends(pipes[k]) : k \in DOMAIN pipes}

(***************************************************************************)
(* The constructor.                                                        *)
(***************************************************************************)

\* Mutant of ClosedOnError: a failing fork() leaves the pipe from sertop open.
ClosedOnFork(made) == IF made \in {2, 3} THEN Ends("stdin") ELSE {}

\* What an error path closes once this many pipes were made: never the interrupt pipe.
ClosedOnError(made) ==
  (IF made >= 2 THEN Ends("stdin") ELSE {}) \union (IF made = 3 THEN Ends("stdout") ELSE {})

\* pipe() or, with all three made, fork() fails.
ConstructFails(i) ==
  /\ platform = "posix" /\ OwnerIdle /\ owner.lock = "free" /\ IsNext(i)
  /\ Spend("failures")
  /\ \E made \in 0 .. 3 :
       open' = open \union Of(i, EndsOf(SubSeq(Pipes, 1, made)) \ ClosedOnError(made))
  /\ worker' = [worker EXCEPT ![i].life = "failed"]
  /\ UNCHANGED <<platform, misused, owner, crashed>>

\* fork(): the child holds everything that the wrapper has open.
Fork(i) ==
  /\ platform = "posix" /\ OwnerIdle /\ owner.lock = "free" /\ IsNext(i)
  /\ open' = open \union Of(i, EndsOf(Pipes))
  /\ worker' = [worker EXCEPT ![i].life = "constructing", ![i].sertop = "forked",
                              ![i].holds = open']
  /\ owner' = [owner EXCEPT !.pc = "forked", !.id = i, !.lock = "owner"]
  /\ UNCHANGED <<platform, misused, budget, crashed>>

\* The parent closes the two ends of the child, and starts the threads.
Start(i) ==
  /\ At("forked", i)
  /\ CloseAll(Of(i, {"stdin0", "stdout1"}))
  /\ worker' = [worker EXCEPT ![i].life = "alive", ![i].running = TRUE,
                              ![i].reader = "poll", ![i].writer = "wait"]
  /\ owner' = Return
  /\ UNCHANGED <<platform, budget, crashed>>

\* Mutant of Exec: the write end of the child's own standard input stays open.
ExecKeepsStdin(i) ==
  /\ worker[i].sertop = "forked"
  /\ worker' = [worker EXCEPT ![i].sertop = "running",
                  ![i].holds = @ \ Of(i, {"interrupt0", "interrupt1", "stdout0"})]
  /\ UNCHANGED <<platform, handleVars, owner, budget, crashed>>

\* The child closes its copies of the parent's ends; its own two stay open as its
\* standard input and output.
Exec(i) ==
  /\ worker[i].sertop = "forked"
  /\ worker' = [worker EXCEPT ![i].sertop = "running",
                  ![i].holds = @ \ Of(i, {"interrupt0", "interrupt1", "stdin1", "stdout0"})]
  /\ UNCHANGED <<platform, handleVars, owner, budget, crashed>>

\* execv() fails: the child exits with 1, and the worker is none the wiser.
ExecFails(i) ==
  /\ worker[i].sertop = "forked"
  /\ Spend("failures")
  /\ worker' = [worker EXCEPT ![i].sertop = "exited", ![i].holds = {}]
  /\ UNCHANGED <<platform, handleVars, owner, crashed>>

(***************************************************************************)
(* read_loop.                                                              *)
(***************************************************************************)

\* A byte to read on the interrupt pipe, or no write end of it left anywhere.
Interrupted(i) == worker[i].signalled \/ ~HeldSomewhere(<<i, "interrupt1">>)

Polls(i) == platform = "posix" /\ worker[i].reader = "poll"

ReaderInterrupted(i) ==
  /\ Polls(i) /\ Interrupted(i)
  /\ worker' = [worker EXCEPT ![i].reader = "done"]
  /\ UNCHANGED <<platform, handleVars, owner, budget, crashed>>

\* Mutant of ReaderReads: revents of the stdout pipe are not tested.
ReaderReadsBlindly(i) ==
  /\ Polls(i) /\ ~Interrupted(i)
  /\ worker' = [worker EXCEPT ![i].reader = "respond", ![i].unread = @ - 1]
  /\ UNCHANGED <<platform, handleVars, owner, budget, crashed>>

ReaderReads(i) ==
  /\ Polls(i) /\ ~Interrupted(i) /\ worker[i].unread > 0
  /\ worker' = [worker EXCEPT ![i].reader = "respond", ![i].unread = @ - 1]
  /\ UNCHANGED <<platform, handleVars, owner, budget, crashed>>

\* No write end of the stdout pipe is left.
HungUp(i) == worker[i].unread = 0 /\ ~HeldSomewhere(<<i, "stdout1">>)

\* poll() reports POLLHUP on the stdout pipe, which the loop does not look at: it
\* spins until running_ is cleared.
ReaderSpins(i) ==
  /\ Polls(i) /\ ~Interrupted(i) /\ HungUp(i) /\ ~worker[i].running
  /\ worker' = [worker EXCEPT ![i].reader = "done"]
  /\ UNCHANGED <<platform, handleVars, owner, budget, crashed>>

\* fail(): running_ is cleared and the write end of the interrupt pipe closed.
ReaderFails(i) ==
  /\ Polls(i)
  /\ Spend("failures")
  /\ CloseAll(Of(i, {"interrupt1"}))
  /\ worker' = [worker EXCEPT ![i].reader = "fail", ![i].running = FALSE, ![i].fails = @ + 1]
  /\ UNCHANGED <<platform, owner, crashed>>

(***************************************************************************)
(* write.                                                                  *)
(***************************************************************************)

Writes(i) == platform = "posix" /\ worker[i].writer = "write"

Room(i) == PipeCapacity - Len(worker[i].pipe)

\* Mutant of WriterWrites: the pointer is not moved.
WriterRepeats(i) ==
  /\ Writes(i) /\ HeldSomewhere(<<i, "stdin0">>)
  /\ \E n \in 1 .. Min({Room(i), Len(worker[i].rest)}) :
       worker' = [worker EXCEPT ![i].pipe = @ \o SubSeq(worker[i].rest, 1, n),
                    ![i].rest = SubSeq(@, 1, Len(@) - n),
                    ![i].writer = IF n = Len(worker[i].rest) THEN WriteAgain(i) ELSE @]
  /\ UNCHANGED <<platform, handleVars, owner, budget, crashed>>

\* write() takes what fits, and blocks while the pipe is full.
WriterWrites(i) ==
  /\ Writes(i) /\ HeldSomewhere(<<i, "stdin0">>)
  /\ \E n \in 1 .. Min({Room(i), Len(worker[i].rest)}) :
       worker' = [worker EXCEPT ![i].pipe = @ \o SubSeq(worker[i].rest, 1, n),
                    ![i].rest = SubSeq(@, n + 1, Len(@)),
                    ![i].writer = IF n = Len(worker[i].rest) THEN WriteAgain(i) ELSE @]
  /\ UNCHANGED <<platform, handleVars, owner, budget, crashed>>

\* sertop is gone: SIGPIPE, which has its default action, ends the wrapper.
WriterKilled(i) ==
  /\ Writes(i) /\ ~HeldSomewhere(<<i, "stdin0">>)
  /\ crashed' = "sigpipe"
  /\ UNCHANGED <<platform, worker, handleVars, owner, budget>>

WriterFails(i) ==
  /\ Writes(i)
  /\ Spend("failures")
  /\ CloseAll(Of(i, {"interrupt1"}))
  /\ worker' = [worker EXCEPT ![i].writer = "fail", ![i].running = FALSE, ![i].fails = @ + 1]
  /\ UNCHANGED <<platform, owner, crashed>>

(***************************************************************************)
(* The rest of ~worker.                                                    *)
(***************************************************************************)

\* A byte is written to the interrupt pipe, unless fail() has closed it meanwhile, or
\* write() fails, which is only logged.
DestroyInterrupt(i) ==
  /\ At("interrupt", i) /\ platform = "posix"
  /\ \/ worker' = [worker EXCEPT ![i].signalled = <<i, "interrupt1">> \in open]
        /\ UNCHANGED budget
     \/ worker' = [worker EXCEPT ![i].lost = @ \union {"interrupt"}]
        /\ Spend("failures")
  /\ misused' = misused \union (Of(i, {"interrupt1"}) \ open)
  /\ owner' = [owner EXCEPT !.pc = "joinReader"]
  /\ UNCHANGED <<platform, open, crashed>>

\* Mutant of JoinWriter: the write thread is not joined.
JoinsReaderOnly(i) ==
  /\ At("joinWriter", i) /\ platform = "posix"
  /\ CloseAll(Of(i, {"stdin1", "stdout0"}))
  /\ owner' = [owner EXCEPT !.pc = "wait", !.waiter = "waiting"]
  /\ UNCHANGED <<platform, worker, budget, crashed>>

\* Both threads are joined: the pipes are closed and waitpid() starts.
JoinWriter(i) ==
  /\ At("joinWriter", i) /\ platform = "posix" /\ worker[i].writer = "done"
  /\ CloseAll(Of(i, {"stdin1", "stdout0"}))
  /\ owner' = [owner EXCEPT !.pc = "wait", !.waiter = "waiting"]
  /\ UNCHANGED <<platform, worker, budget, crashed>>

\* The thread of the future: waitpid() returns the exit status, or an error.
Reap(i) ==
  /\ owner.waiter = "waiting" /\ owner.id = i /\ worker[i].sertop = "exited"
  /\ worker' = [worker EXCEPT ![i].sertop = "reaped"]
  /\ owner' = [owner EXCEPT !.waiter = "ready"]
  /\ UNCHANGED <<platform, handleVars, budget, crashed>>

ReapFails(i) ==
  /\ owner.waiter = "waiting" /\ owner.id = i
  /\ Spend("failures")
  /\ worker' = [worker EXCEPT ![i].lost = @ \union {"process"}]
  /\ owner' = [owner EXCEPT !.waiter = "failed"]
  /\ UNCHANGED <<platform, handleVars, crashed>>

\* Whatever the result of the future is, sertop is taken to have shut down.
WaitReady(i) ==
  /\ At("wait", i) /\ platform = "posix" /\ owner.waiter # "waiting"
  /\ owner' = [owner EXCEPT !.pc = "cleanup"]
  /\ UNCHANGED <<platform, worker, handleVars, budget, crashed>>

\* Mutant of WaitTimeout: the timeout is taken for a graceful shutdown.
WaitGivesUp(i) ==
  /\ At("wait", i) /\ platform = "posix" /\ owner.waiter = "waiting"
  /\ owner' = [owner EXCEPT !.pc = "cleanup"]
  /\ UNCHANGED <<platform, worker, handleVars, budget, crashed>>

\* 500 ms have passed, which is enough for the child to call execv().
WaitTimeout(i) ==
  /\ At("wait", i) /\ platform = "posix" /\ owner.waiter = "waiting"
  /\ worker[i].sertop # "forked"
  /\ owner' = [owner EXCEPT !.pc = "kill"]
  /\ UNCHANGED <<platform, worker, handleVars, budget, crashed>>

\* SIGTERM; a process that was reaped meanwhile is no longer there.  An error of kill()
\* is only logged.
Kill(i) ==
  /\ At("kill", i)
  /\ \/ worker' = [worker EXCEPT ![i].sigterm = TRUE] /\ UNCHANGED budget
     \/ worker' = [worker EXCEPT ![i].lost = @ \union {"kill"}] /\ Spend("failures")
  /\ owner' = [owner EXCEPT !.pc = "cleanup"]
  /\ UNCHANGED <<platform, handleVars, crashed>>

\* Mutant of Cleanup: the pipes to sertop are closed a second time.
CleanupAll(i) ==
  /\ At("cleanup", i) /\ platform = "posix"
  /\ CloseAll(Of(i, {"interrupt0", "interrupt1", "stdin1", "stdout0"}))
  /\ owner' = [owner EXCEPT !.pc = "future"]
  /\ UNCHANGED <<platform, worker, budget, crashed>>

Cleanup(i) ==
  /\ At("cleanup", i) /\ platform = "posix"
  /\ CloseAll(Of(i, {"interrupt0", "interrupt1"}))
  /\ owner' = [owner EXCEPT !.pc = "future"]
  /\ UNCHANGED <<platform, worker, budget, crashed>>

\* The destructor of the future waits for its thread.
FutureDone(i) ==
  /\ At("future", i) /\ owner.waiter # "waiting"
  /\ worker' = [worker EXCEPT ![i] = Gone(@)]
  /\ owner' = Return
  /\ UNCHANGED <<platform, handleVars, budget, crashed>>

(***************************************************************************)
(* sertop, which no one may count on: it reads, prints and exits.          *)
(***************************************************************************)

\* No write end of its standard input is left, and nothing to read.
EndOfInput(i) == worker[i].pipe = <<>> /\ ~HeldSomewhere(<<i, "stdin1">>)

SertopReads(i) ==
  /\ platform = "posix" /\ worker[i].sertop = "running" /\ worker[i].pipe # <<>>
  /\ worker' = [worker EXCEPT ![i].pipe = Tail(@),
                              ![i].received = Append(@, Head(worker[i].pipe))]
  /\ UNCHANGED <<platform, handleVars, owner, budget, crashed>>

SertopPrints(i) ==
  /\ platform = "posix" /\ worker[i].sertop = "running" /\ Spend("prints")
  /\ worker' = [worker EXCEPT ![i].unread = @ + 1]
  /\ UNCHANGED <<platform, handleVars, owner, crashed>>

\* At SIGTERM, at the end of its input, or because it dies.
SertopExits(i) ==
  /\ platform = "posix" /\ worker[i].sertop = "running"
  /\ \/ (worker[i].sigterm \/ EndOfInput(i)) /\ UNCHANGED budget
     \/ Spend("failures")
  /\ worker' = [worker EXCEPT ![i].sertop = "exited", ![i].holds = {}]
  /\ UNCHANGED <<platform, handleVars, owner, crashed>>
=============================================================================
