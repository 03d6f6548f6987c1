------------------------------- MODULE Worker -------------------------------
(***************************************************************************)
(* A worker (sertop/worker.h, worker.cpp): what is the same on POSIX and   *)
(* Windows.  WorkerPosix and WorkerWin add the constructor, the system     *)
(* calls and the destructor of each build; Workers composes them.          *)
(*                                                                         *)
(* There are several workers, because their processes inherit each other's *)
(* pipes.  They have one owner, the thread of the conductor that is inside *)
(* a constructor or destructor.  It holds queue_m_, which the callbacks of *)
(* a worker take, except in ~conductor, where queue_m_ is already dead.    *)
(* A handle (file descriptor or HANDLE) is a worker and the member that    *)
(* holds it.                                                               *)
(***************************************************************************)
EXTENDS Naturals, SequencesExt, FiniteSetsExt

CONSTANTS
  MaxWorkers,       \* bound on workers ever constructed
  MessageLength,    \* pieces in which a message can be written and read
  PipeCapacity,     \* pieces that fit into the pipe to sertop (POSIX)
  Budgets           \* bounds, of which a behaviour has one, on the messages enqueued,
                    \* the messages sertops print, and what fails: calls and sertops

ASSUME WorkerAssumption ==
  /\ MaxWorkers \in Nat /\ {MessageLength, PipeCapacity} \subseteq Nat \ {0}
  /\ Budgets \subseteq [messages : Nat, prints : Nat, failures : Nat]

VARIABLES
  platform,     \* WPWRAPPER_POSIX or WPWRAPPER_WIN
  worker,       \* the members of each worker, its threads and its sertop
  open,         \* handles that the wrapper process has open
  misused,      \* history: handles that were used when they were not open
  owner,        \* the thread inside a constructor or destructor
  budget,       \* what is left of the behaviour's budget
  crashed       \* how the process was terminated, if it was

vars == <<platform, worker, open, misused, owner, budget, crashed>>
handleVars == <<open, misused>>

Ids == 0 .. MaxWorkers - 1

Handle == Ids \X {"interrupt0", "interrupt1", "stdin0", "stdin1", "stdout0", "stdout1",
                  "workerEnd", "sertopEnd", "thread", "process",
                  "interruptEvent", "readEvent", "writeEvent"}

Of(i, names) == {i} \X names

\* The threads have not been started, the process has not been created.
Unborn ==
  [life |-> "none", running |-> FALSE, reader |-> "none", writer |-> "none",
   accepted |-> <<>>, queue |-> <<>>, rest |-> <<>>, pipe |-> <<>>, received |-> <<>>,
   unread |-> 0, signalled |-> FALSE, fails |-> 0, read |-> "none",
   sertop |-> "none", holds |-> {}, sigterm |-> FALSE, lost |-> {}]

Init ==
  /\ platform \in {"posix", "win"}
  /\ worker = [i \in Ids |-> Unborn]
  /\ open = {} /\ misused = {}
  /\ owner = [pc |-> "idle", id |-> 0, lock |-> "free", waiter |-> "none"]
  /\ budget \in Budgets
  /\ crashed = "no"

(***************************************************************************)
(* Helpers.                                                                *)
(***************************************************************************)

\* close() or CloseHandle() of each handle in S.
CloseAll(S) ==
  /\ open' = open \ S
  /\ misused' = misused \union (S \ open)

\* Some process, the wrapper or a sertop, has the handle open.
HeldSomewhere(h) == h \in open \/ \E j \in Ids : h \in worker[j].holds

Spend(what) == budget[what] > 0 /\ budget' = [budget EXCEPT ![what] = @ - 1]

\* Workers are constructed in the order of their ids.
IsNext(i) == i = Cardinality({j \in Ids : worker[j].life # "none"})

OwnerIdle == owner.pc = "idle" /\ owner.lock # "writer"

\* The first step of a loop, after its test of running_.
ReadAgain(i) ==
  IF ~worker[i].running THEN "done" ELSE IF platform = "posix" THEN "poll" ELSE "start"

\* Mutant of WriteAgain: the loop is left after the first message.
WritesOnce(i) == "done"

WriteAgain(i) == IF worker[i].running THEN "wait" ELSE "done"

(***************************************************************************)
(* enqueue and write_loop, up to write().                                  *)
(***************************************************************************)

\* A message is named by the budget that is left when it is made.
Enqueue(i) ==
  /\ OwnerIdle /\ owner.lock = "free" /\ worker[i].life = "alive"
  /\ Spend("messages")
  /\ worker' = [worker EXCEPT ![i].queue = Append(@, budget.messages),
                              ![i].accepted = Append(@, budget.messages)]
  /\ UNCHANGED <<platform, handleVars, owner, crashed>>

Pieces(m) == [k \in 1 .. MessageLength |-> <<m, k>>]

WriterPops(i) ==
  /\ worker[i].writer = "wait" /\ worker[i].running /\ worker[i].queue # <<>>
  /\ worker' = [worker EXCEPT ![i].rest = Pieces(Head(worker[i].queue)),
                              ![i].queue = Tail(@), ![i].writer = "write"]
  /\ UNCHANGED <<platform, handleVars, owner, budget, crashed>>

WriterStops(i) ==
  /\ worker[i].writer = "wait" /\ ~worker[i].running
  /\ worker' = [worker EXCEPT ![i].writer = "done"]
  /\ UNCHANGED <<platform, handleVars, owner, budget, crashed>>
(***************************************************************************)
(* The callbacks, as far as they wait and whom they destroy.               *)
(***************************************************************************)

\* queue_m_ is free, or destroyed, in which case locking it may also do nothing.
LockTaken == owner.lock \in {"free", "dead"}

\* on_response; then parse has another message of the same read, or the loop tests
\* running_ again.
ReaderResponds(i) ==
  /\ worker[i].reader = "respond" /\ LockTaken
  /\ \/ Spend("prints") /\ UNCHANGED worker
     \/ worker' = [worker EXCEPT ![i].reader = ReadAgain(i)] /\ UNCHANGED budget
  /\ UNCHANGED <<platform, handleVars, owner, crashed>>

\* on_failure on the read thread: the conductor erases the worker that calls it, and
\* the thread is joined by itself.
ReaderErasesItself(i) ==
  /\ worker[i].reader \in {"fail", "failstart"} /\ owner.lock = "free"
  /\ worker[i].life = "alive"
  /\ crashed' = "self_join"
  /\ UNCHANGED <<platform, worker, handleVars, owner, budget>>

\* on_failure on the write thread: the read thread is joined first.
WriterErasesItself(i) ==
  /\ worker[i].writer = "fail" /\ owner.lock = "free" /\ worker[i].life = "alive"
  /\ worker' = [worker EXCEPT ![i].writer = "join", ![i].life = "destroying"]
  /\ owner' = [owner EXCEPT !.lock = "writer"]
  /\ UNCHANGED <<platform, handleVars, budget, crashed>>

WriterJoinsItself(i) ==
  /\ worker[i].writer = "join" /\ worker[i].reader = "done"
  /\ crashed' = "self_join"
  /\ UNCHANGED <<platform, worker, handleVars, owner, budget>>

\* on_failure returns, in ~conductor.  On Windows the loop has no break where
\* ReadFile fails, and goes on to the wait.
FailureReturns(i) ==
  /\ owner.lock = "dead"
  /\ \/ /\ worker[i].reader \in {"fail", "failstart"}
        /\ worker' = [worker EXCEPT ![i].reader = IF @ = "fail" THEN "done" ELSE "wait"]
     \/ /\ worker[i].writer = "fail"
        /\ worker' = [worker EXCEPT ![i].writer = "done"]
  /\ UNCHANGED <<platform, handleVars, owner, budget, crashed>>

\* The other outcome of a callback on a conductor whose members are destroyed.
LateCallback(i) ==
  /\ owner.lock = "dead"
  /\ worker[i].reader \in {"respond", "fail", "failstart"} \/ worker[i].writer = "fail"
  /\ crashed' = "late_callback"
  /\ UNCHANGED <<platform, worker, handleVars, owner, budget>>

CallbackStep(i) ==
  \/ ReaderResponds(i) \/ ReaderErasesItself(i) \/ WriterErasesItself(i)
  \/ WriterJoinsItself(i) \/ FailureReturns(i)

(***************************************************************************)
(* The owner: the conductor, and the first half of ~worker.                *)
(***************************************************************************)

\* ~conductor: from here on queue_m_ is dead, and workers are only destroyed.
Teardown ==
  /\ OwnerIdle /\ owner.lock = "free"
  /\ owner' = [owner EXCEPT !.lock = "dead"]
  /\ UNCHANGED <<platform, worker, handleVars, budget, crashed>>

\* ~worker clears running_, unless fail() has.  handle_request and on_invalidate
\* hold queue_m_ over all of it.
Destroy(i) ==
  /\ OwnerIdle /\ worker[i].life = "alive"
  /\ worker' = [worker EXCEPT ![i].life = "destroying", ![i].running = FALSE]
  /\ owner' = [owner EXCEPT !.id = i,
                 !.lock = IF @ = "free" THEN "owner" ELSE @,
                 !.pc = IF worker[i].running THEN "interrupt" ELSE "joinReader"]
  /\ UNCHANGED <<platform, handleVars, budget, crashed>>

At(pc, i) == owner.pc = pc /\ owner.id = i

JoinReader(i) ==
  /\ At("joinReader", i) /\ worker[i].reader = "done"
  /\ owner' = [owner EXCEPT !.pc = "joinWriter"]
  /\ UNCHANGED <<platform, worker, handleVars, budget, crashed>>

\* The members of a worker are gone, and so is what was on its pipes.
Gone(w) ==
  [w EXCEPT !.life = "destroyed", !.queue = <<>>, !.rest = <<>>, !.pipe = <<>>, !.unread = 0,
            !.signalled = FALSE, !.read = "none"]

\* The destructor returns.
Return == [pc |-> "idle", id |-> 0, lock |-> IF owner.lock = "owner" THEN "free" ELSE owner.lock,
           waiter |-> "none"]
=============================================================================
