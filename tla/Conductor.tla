------------------------------ MODULE Conductor ------------------------------
(***************************************************************************)
(* The conductor (conductor.h, conductor.cpp) with the threads that enter  *)
(* it: its own run thread, the server threads that call on_request,        *)
(* on_failure and on_invalidate, the reader and writer thread of every     *)
(* worker, and the main thread that stops and destroys it.                 *)
(*                                                                         *)
(* One step is what a thread does between two points at which another      *)
(* thread can interfere: taking or releasing queue_m_ or clients_mutex_, a *)
(* blocking join, a wait on the condition variable, an access to an atomic *)
(* flag outside the mutex.                                                 *)
(***************************************************************************)
EXTENDS Message, SequencesExt

CONSTANTS
  MaxInstances,      \* bound on create requests, hence on instance ids
  MaxRequests,       \* bound on requests the server delivers
  MaxOutputs,        \* bound on messages all sertop instances print
  MaxInvalidations   \* bound on on_invalidate callbacks

ASSUME BoundsAssumption ==
  /\ MaxInstances \in Nat
  /\ MaxRequests \in Nat
  /\ MaxOutputs \in Nat
  /\ MaxInvalidations \in Nat

VARIABLES
  inQueue, outQueue,   \* in_queue_, out_queue_
  enqueued,            \* history: responses handed to server::enqueue
  nextId,              \* next_id_
  creating,            \* the create response under construction, if any
  workers,             \* keys of workers_
  signalReceived, serverFailed,
  queueOwner,          \* who holds queue_m_
  runPc,               \* the run thread
  running,             \* worker::running_, per instance
  interrupted,         \* the worker's interrupt pipe is readable or hung up
  reader, writer,      \* worker::read_thread_ and worker::write_thread_
  pending,             \* length of worker::message_queue_
  outputs,             \* messages printed by sertop so far (bounded)
  srvPc, srvTarget,    \* the server thread inside server::invalidate, if any
  nextInstance,        \* server::next_id_
  requests, invalidations,  \* requests and invalidations so far (bounded)
  unmapped,            \* history: instances destroyed since they were created
  guessed,             \* history: instances named by a request before they were given out
  mainPc, mainTarget,  \* the main thread, and the worker it is destroying
  crashed              \* how the process was terminated, if it was

responseVars == <<outQueue, enqueued, nextId, creating>>
flagVars     == <<signalReceived, serverFailed>>
workerVars   == <<running, interrupted, reader, writer, pending>>
serverVars   == <<srvPc, srvTarget, nextInstance, requests, invalidations>>
historyVars  == <<unmapped, guessed>>
mainVars     == <<mainPc, mainTarget>>
elsewhere    == <<outputs, serverVars, historyVars, mainVars, crashed>>
vars == <<inQueue, responseVars, workers, flagVars, queueOwner, runPc, workerVars,
          elsewhere>>

Instances == 0 .. MaxInstances - 1

\* Whether the content of a create request is a configuration that
\* config::config parses ("good") or one it throws a json exception on ("bad").
Config == {"good", "bad"}

Request == [verb : Verb, instance : Instances, config : Config]

Crash ==
  {"no", "self_join", "null_worker", "uncaught_exception", "sigpipe", "late_callback"}

Init ==
  /\ inQueue = <<>> /\ outQueue = <<>> /\ enqueued = <<>>
  /\ nextId = 0 /\ creating = {}
  /\ workers = {}
  /\ signalReceived = FALSE /\ serverFailed = FALSE
  /\ queueOwner = "none"
  /\ runPc = "check"
  /\ running = [i \in Instances |-> FALSE]
  /\ interrupted = [i \in Instances |-> FALSE]
  /\ reader = [i \in Instances |-> "none"]
  /\ writer = [i \in Instances |-> "none"]
  /\ pending = [i \in Instances |-> 0]
  /\ outputs = 0
  /\ srvPc = "idle" /\ srvTarget = 0
  /\ nextInstance = 0 /\ requests = 0 /\ invalidations = 0
  /\ unmapped = {} /\ guessed = {}
  /\ mainPc = "loop" /\ mainTarget = 0
  /\ crashed = "no"

(***************************************************************************)
(* Helpers.                                                                *)
(***************************************************************************)

\* The queue mutex and the condition variable are destroyed before workers_ and
\* server_ are: conductor.h declares them after both.
QueueAlive == mainPc \in {"loop", "join"}

QueueFree == queueOwner = "none" /\ QueueAlive

HasFailed == serverFailed \/ signalReceived

\* The predicate of queue_cv_.wait_for.
Ready == inQueue # <<>> \/ outQueue # <<>> \/ HasFailed

\* queue_cv_.notify_one or notify_all: only the run thread ever waits.
Wake == runPc' = IF runPc = "blocked" THEN "woken" ELSE runPc

\* create_empty_response, completed with the verb.
NewResponse(instance, priority, status, verb) ==
  [id |-> nextId, priority |-> priority, status |-> status, verb |-> verb,
   instance |-> instance]

\* create_empty_response and the push of its result on out_queue_.
PushResponse(instance, priority, status, verb) ==
  /\ outQueue' = Append(outQueue, NewResponse(instance, priority, status, verb))
  /\ nextId' = nextId + 1
  /\ UNCHANGED <<enqueued, creating>>

\* The first part of ~worker: running_ is cleared and, if it was set, a byte is
\* written to the interrupt pipe; an error of write() is logged and ignored.
StopThreads(i) ==
  /\ running' = [running EXCEPT ![i] = FALSE]
  /\ \E written \in BOOLEAN :
       interrupted' = [interrupted EXCEPT ![i] = @ \/ (running[i] /\ written)]
  /\ UNCHANGED <<reader, writer, pending>>

\* Mutant of ThreadsDone: the write thread is not joined.
ReaderDone(i) == reader[i] = "done"

\* Both joins of ~worker have returned.
ThreadsDone(i) == reader[i] = "done" /\ writer[i] = "done"

(***************************************************************************)
(* conductor::run.                                                         *)
(***************************************************************************)

\* while (!signal_received_ && !server_failed_)
RunCheck ==
  /\ runPc = "check"
  /\ runPc' = IF HasFailed THEN "stopped" ELSE "lock"
  /\ UNCHANGED <<inQueue, responseVars, workers, flagVars, queueOwner, workerVars,
                 elsewhere>>

RunLock ==
  /\ runPc = "lock" /\ QueueFree
  /\ queueOwner' = "run"
  /\ runPc' = "test"
  /\ UNCHANGED <<inQueue, responseVars, workers, flagVars, workerVars, elsewhere>>

\* wait_for evaluates the predicate; notify() can still set signal_received_
\* before the thread blocks, because it does not take queue_m_.
RunTest ==
  /\ runPc = "test"
  /\ runPc' = IF Ready THEN "awake" ELSE "sleep"
  /\ UNCHANGED <<inQueue, responseVars, workers, flagVars, queueOwner, workerVars,
                 elsewhere>>

RunSleep ==
  /\ runPc = "sleep"
  /\ runPc' = "blocked"
  /\ queueOwner' = "none"
  /\ UNCHANGED <<inQueue, responseVars, workers, flagVars, workerVars, elsewhere>>

\* Mutant of RunTimeout: wait instead of wait_for.
NoTimeout == FALSE

\* The 500 ms of wait_for have passed: it returns with the mutex held, whatever
\* the predicate says.
RunTimeout ==
  /\ runPc = "blocked" /\ QueueFree
  /\ runPc' = "awake"
  /\ queueOwner' = "run"
  /\ UNCHANGED <<inQueue, responseVars, workers, flagVars, workerVars, elsewhere>>

\* A notification arrived: the predicate is evaluated again under the mutex.
RunWoken ==
  /\ runPc = "woken" /\ QueueFree
  /\ runPc' = "test"
  /\ queueOwner' = "run"
  /\ UNCHANGED <<inQueue, responseVars, workers, flagVars, workerVars, elsewhere>>

RunAwake ==
  /\ runPc = "awake"
  /\ IF HasFailed
       THEN runPc' = "stopped" /\ queueOwner' = "none"
       ELSE runPc' = "requests" /\ UNCHANGED queueOwner
  /\ UNCHANGED <<inQueue, responseVars, workers, flagVars, workerVars, elsewhere>>

\* The run thread is at handle_request(in_queue_.front()) with this verb.
Handling(verb) ==
  /\ runPc = "requests"
  /\ inQueue # <<>>
  /\ Head(inQueue).verb = verb

Subject == Head(inQueue).instance

\* Mutant of RunCreate: the mutex is released while the worker is constructed.
RunCreateUnlocked ==
  /\ Handling("create") /\ Head(inQueue).config = "good"
  /\ creating' = {NewResponse(Subject, 1, "success", "create")}
  /\ nextId' = nextId + 1
  /\ workers' = workers \union {Subject}
  /\ running' = [running EXCEPT ![Subject] = TRUE]
  /\ reader' = [reader EXCEPT ![Subject] = "poll"]
  /\ writer' = [writer EXCEPT ![Subject] = "wait"]
  /\ runPc' = "created" /\ queueOwner' = "none"
  /\ unmapped' = unmapped \ {Subject}
  /\ UNCHANGED <<inQueue, outQueue, enqueued, flagVars, interrupted, pending, outputs,
                 serverVars, guessed, mainVars, crashed>>

\* The id of the response is drawn first.  Then the constructor of the worker
\* starts both its threads, or throws api_error.
RunCreate ==
  /\ Handling("create")
  /\ Head(inQueue).config = "good"
  /\ \E status \in Status :
       /\ creating' = {NewResponse(Subject, 1, status, "create")}
       /\ IF status = "success"
            THEN /\ workers' = workers \union {Subject}
                 /\ running' = [running EXCEPT ![Subject] = TRUE]
                 /\ reader' = [reader EXCEPT ![Subject] = "poll"]
                 /\ writer' = [writer EXCEPT ![Subject] = "wait"]
                 /\ UNCHANGED <<interrupted, pending>>
            ELSE UNCHANGED <<workers, workerVars>>
  /\ nextId' = nextId + 1
  /\ unmapped' = unmapped \ {Subject}
  /\ runPc' = "created"
  /\ UNCHANGED <<inQueue, outQueue, enqueued, flagVars, queueOwner, outputs, serverVars,
                 guessed, mainVars, crashed>>

\* The threads of the new worker may run before its create response is pushed.
RunCreated ==
  /\ runPc = "created"
  /\ \E response \in creating : outQueue' = Append(outQueue, response)
  /\ creating' = {}
  /\ inQueue' = Tail(inQueue)
  /\ runPc' = "requests"
  /\ UNCHANGED <<enqueued, nextId, workers, flagVars, queueOwner, workerVars, elsewhere>>

\* config::config throws a json exception; only api_error is caught, so it
\* leaves the thread function and std::terminate is called.
RunCreateThrows ==
  /\ Handling("create")
  /\ Head(inQueue).config = "bad"
  /\ crashed' = "uncaught_exception"
  /\ UNCHANGED <<inQueue, responseVars, workers, flagVars, queueOwner, runPc, workerVars,
                 outputs, serverVars, historyVars, mainVars>>

\* workers_[id]->enqueue(content).  operator[] default-inserts a null pointer
\* for an instance that is not there.
RunForward ==
  /\ Handling("forward")
  /\ IF Subject \in workers
       THEN /\ pending' = [pending EXCEPT ![Subject] = @ + 1]
            /\ inQueue' = Tail(inQueue)
            /\ UNCHANGED crashed
       ELSE /\ crashed' = "null_worker"
            /\ UNCHANGED <<inQueue, pending>>
  /\ UNCHANGED <<responseVars, workers, flagVars, queueOwner, runPc, running, interrupted,
                 reader, writer, outputs, serverVars, historyVars, mainVars>>

\* workers_.erase(id): runs ~worker, with queue_m_ held, if there is a worker.
RunDestroy ==
  /\ Handling("destroy")
  /\ IF Subject \in workers
       THEN StopThreads(Subject) /\ runPc' = "join"
       ELSE UNCHANGED workerVars /\ runPc' = "unmap"
  /\ workers' = workers \ {Subject}
  /\ UNCHANGED <<inQueue, responseVars, flagVars, queueOwner, elsewhere>>

RunJoined ==
  /\ runPc = "join" /\ ThreadsDone(Subject)
  /\ runPc' = "unmap"
  /\ UNCHANGED <<inQueue, responseVars, workers, flagVars, queueOwner, workerVars,
                 elsewhere>>

\* The id of the destroy response is drawn, and server_->unmap takes clients_mutex_.
RunUnmap ==
  /\ runPc = "unmap" /\ srvPc = "idle"
  /\ nextId' = nextId + 1
  /\ runPc' = "sending"
  /\ UNCHANGED <<inQueue, outQueue, enqueued, creating, workers, flagVars, queueOwner,
                 workerVars, elsewhere>>

\* unmap writes the destroy response itself, holding both mutexes.  send() blocks until
\* the client reads, returns with an error, which is ignored, or raises SIGPIPE.
RunUnmapSend ==
  /\ runPc = "sending"
  /\ \/ /\ unmapped' = unmapped \union {Subject}
        /\ inQueue' = Tail(inQueue)
        /\ runPc' = "requests"
        /\ UNCHANGED crashed
     \/ /\ crashed' = "sigpipe"
        /\ UNCHANGED <<unmapped, inQueue, runPc>>
  /\ UNCHANGED <<responseVars, workers, flagVars, queueOwner, workerVars, outputs,
                 serverVars, guessed, mainVars>>

RunStop ==
  /\ Handling("stop")
  /\ signalReceived' = TRUE
  /\ inQueue' = Tail(inQueue)
  /\ UNCHANGED <<responseVars, workers, serverFailed, queueOwner, runPc, workerVars,
                 elsewhere>>

\* Mutant of RunRequestsDone: a continue skips the responses.
RunSkipsResponses ==
  /\ runPc = "requests" /\ inQueue = <<>>
  /\ runPc' = IF signalReceived THEN "stopped" ELSE "check"
  /\ queueOwner' = "none"
  /\ UNCHANGED <<inQueue, responseVars, workers, flagVars, workerVars, elsewhere>>

\* in_queue_ is empty; a stop is only looked at here, after the last request.
RunRequestsDone ==
  /\ runPc = "requests" /\ inQueue = <<>>
  /\ IF signalReceived
       THEN runPc' = "stopped" /\ queueOwner' = "none"
       ELSE runPc' = "responses" /\ UNCHANGED queueOwner
  /\ UNCHANGED <<inQueue, responseVars, workers, flagVars, workerVars, elsewhere>>

RunEnqueue ==
  /\ runPc = "responses" /\ outQueue # <<>>
  /\ enqueued' = Append(enqueued, Head(outQueue))
  /\ outQueue' = Tail(outQueue)
  /\ UNCHANGED <<inQueue, nextId, creating, workers, flagVars, queueOwner, runPc,
                 workerVars, elsewhere>>

RunUnlock ==
  /\ runPc = "responses" /\ outQueue = <<>>
  /\ runPc' = "check"
  /\ queueOwner' = "none"
  /\ UNCHANGED <<inQueue, responseVars, workers, flagVars, workerVars, elsewhere>>

\* The steps at which the run thread is granted a mutex.
RunLocks == RunLock \/ RunTimeout \/ RunWoken \/ RunUnmap

RunStep ==
  \/ RunCheck \/ RunLock \/ RunTest \/ RunSleep \/ RunTimeout \/ RunWoken \/ RunAwake
  \/ RunCreate \/ RunCreated \/ RunCreateThrows \/ RunForward \/ RunDestroy \/ RunJoined
  \/ RunUnmap \/ RunStop \/ RunRequestsDone \/ RunEnqueue \/ RunUnlock

(***************************************************************************)
(* Callbacks made by the server threads.                                   *)
(***************************************************************************)

\* Mutant of OnRequest: the newest request is handled first.
OnRequestInFront(req) ==
  /\ QueueFree
  /\ requests < MaxRequests
  /\ IF req.verb = "create"
       THEN req.instance = nextInstance /\ nextInstance' = nextInstance + 1
       ELSE req.config = "good" /\ UNCHANGED nextInstance
  /\ guessed' = guessed \union ({req.instance} \ (0 .. nextInstance' - 1))
  /\ requests' = requests + 1
  /\ inQueue' = <<req>> \o inQueue
  /\ Wake
  /\ UNCHANGED <<responseVars, workers, flagVars, queueOwner, workerVars, outputs, srvPc,
                 srvTarget, invalidations, unmapped, mainVars, crashed>>

\* on_request, called by the server's read thread.  A create request carries
\* the fresh instance id the server has just assigned; the others name any
\* instance, whether it has been assigned or not: nothing checks it.
OnRequest(req) ==
  /\ QueueFree
  /\ requests < MaxRequests
  /\ IF req.verb = "create"
       THEN req.instance = nextInstance /\ nextInstance' = nextInstance + 1
       ELSE req.config = "good" /\ UNCHANGED nextInstance
  /\ guessed' = guessed \union ({req.instance} \ (0 .. nextInstance' - 1))
  /\ requests' = requests + 1
  /\ inQueue' = Append(inQueue, req)
  /\ Wake
  /\ UNCHANGED <<responseVars, workers, flagVars, queueOwner, workerVars, outputs, srvPc,
                 srvTarget, invalidations, unmapped, mainVars, crashed>>

\* on_failure, called by server::fail.
OnServerFailure ==
  /\ QueueFree
  /\ ~serverFailed
  /\ serverFailed' = TRUE
  /\ Wake
  /\ UNCHANGED <<inQueue, responseVars, workers, signalReceived, queueOwner, workerVars,
                 elsewhere>>

\* server::invalidate takes clients_mutex_ and keeps it over all its callbacks.
InvalidateBegin ==
  /\ srvPc = "idle" /\ runPc # "sending"
  /\ invalidations < MaxInvalidations
  /\ srvPc' = "invalidate"
  /\ UNCHANGED <<inQueue, responseVars, workers, flagVars, queueOwner, runPc, workerVars,
                 outputs, srvTarget, nextInstance, requests, invalidations, historyVars,
                 mainVars, crashed>>

\* An instance is mapped to the client, and on_invalidate(i) is about to be called.  The
\* id is read through an iterator that has already moved past the erased mapping, so
\* any id may be passed.
InvalidateNext(i) ==
  /\ srvPc = "invalidate" /\ nextInstance > 0
  /\ invalidations < MaxInvalidations
  /\ invalidations' = invalidations + 1
  /\ srvPc' = "callback"
  /\ srvTarget' = i
  /\ UNCHANGED <<inQueue, responseVars, workers, flagVars, queueOwner, runPc, workerVars,
                 outputs, nextInstance, requests, historyVars, mainVars, crashed>>

\* on_invalidate: queue_m_ is taken and the worker, if any, destroyed under it.
OnInvalidate ==
  /\ srvPc = "callback" /\ QueueFree
  /\ IF srvTarget \in workers
       THEN /\ StopThreads(srvTarget)
            /\ srvPc' = "join"
            /\ queueOwner' = "srv"
            /\ UNCHANGED runPc
       ELSE /\ srvPc' = "invalidate"
            /\ Wake
            /\ UNCHANGED <<queueOwner, workerVars>>
  /\ workers' = workers \ {srvTarget}
  /\ UNCHANGED <<inQueue, responseVars, flagVars, outputs, srvTarget, nextInstance,
                 requests, invalidations, historyVars, mainVars, crashed>>

OnInvalidateJoined ==
  /\ srvPc = "join" /\ ThreadsDone(srvTarget)
  /\ srvPc' = "invalidate"
  /\ queueOwner' = "none"
  /\ Wake
  /\ UNCHANGED <<inQueue, responseVars, workers, flagVars, workerVars, outputs, srvTarget,
                 nextInstance, requests, invalidations, historyVars, mainVars, crashed>>

InvalidateEnd ==
  /\ srvPc = "invalidate"
  /\ srvPc' = "idle"
  /\ UNCHANGED <<inQueue, responseVars, workers, flagVars, queueOwner, runPc, workerVars,
                 outputs, srvTarget, nextInstance, requests, invalidations, historyVars,
                 mainVars, crashed>>

InvalidateStep == OnInvalidate \/ OnInvalidateJoined \/ InvalidateEnd

(***************************************************************************)
(* The two threads of worker i, as far as the conductor can see them.      *)
(***************************************************************************)

\* poll reports data and no interrupt; parse is about to call handle_response.
ReaderReads(i) ==
  /\ reader[i] = "poll" /\ ~interrupted[i]
  /\ outputs < MaxOutputs
  /\ outputs' = outputs + 1
  /\ reader' = [reader EXCEPT ![i] = "respond"]
  /\ UNCHANGED <<inQueue, responseVars, workers, flagVars, queueOwner, runPc, running,
                 interrupted, writer, pending, serverVars, historyVars, mainVars, crashed>>

\* Mutant of HandleResponse: queue_m_ is not taken.
HandleResponseUnlocked(i) ==
  /\ reader[i] = "respond"
  /\ PushResponse(i, 0, "success", "forward")
  /\ Wake
  /\ reader' = [reader EXCEPT ![i] = IF running[i] THEN "poll" ELSE "done"]
  /\ UNCHANGED <<inQueue, workers, flagVars, queueOwner, running, interrupted, writer,
                 pending, elsewhere>>

\* handle_response.  Afterwards parse may have another message of the same read,
\* or the loop tests running_ again.
HandleResponse(i) ==
  /\ reader[i] = "respond" /\ QueueFree
  /\ PushResponse(i, 0, "success", "forward")
  /\ Wake
  /\ \/ /\ outputs < MaxOutputs
        /\ outputs' = outputs + 1
        /\ UNCHANGED reader
     \/ /\ reader' = [reader EXCEPT ![i] = IF running[i] THEN "poll" ELSE "done"]
        /\ UNCHANGED outputs
  /\ UNCHANGED <<inQueue, workers, flagVars, queueOwner, running, interrupted, writer,
                 pending, serverVars, historyVars, mainVars, crashed>>

ReaderInterrupted(i) ==
  /\ reader[i] = "poll" /\ interrupted[i]
  /\ reader' = [reader EXCEPT ![i] = "done"]
  /\ UNCHANGED <<inQueue, responseVars, workers, flagVars, queueOwner, runPc, running,
                 interrupted, writer, pending, elsewhere>>

\* Mutant of WriterSends: wait without a predicate, so that it may wake up spuriously.
WriterWaitsOnce(i) ==
  /\ writer[i] = "wait" /\ running[i]
  /\ pending' = [pending EXCEPT ![i] = @ - 1]
  /\ writer' = [writer EXCEPT ![i] = "writing"]
  /\ UNCHANGED <<inQueue, responseVars, workers, flagVars, queueOwner, runPc, running,
                 interrupted, reader, elsewhere>>

\* worker::write_loop takes the oldest message.
WriterSends(i) ==
  /\ writer[i] = "wait" /\ running[i] /\ pending[i] > 0
  /\ pending' = [pending EXCEPT ![i] = @ - 1]
  /\ writer' = [writer EXCEPT ![i] = "writing"]
  /\ UNCHANGED <<inQueue, responseVars, workers, flagVars, queueOwner, runPc, running,
                 interrupted, reader, elsewhere>>

\* write() blocks for as long as sertop does not read.
WriterSent(i) ==
  /\ writer[i] = "writing"
  /\ writer' = [writer EXCEPT ![i] = IF running[i] THEN "wait" ELSE "done"]
  /\ UNCHANGED <<inQueue, responseVars, workers, flagVars, queueOwner, runPc, running,
                 interrupted, reader, pending, elsewhere>>

WriterStops(i) ==
  /\ writer[i] = "wait" /\ ~running[i]
  /\ writer' = [writer EXCEPT ![i] = "done"]
  /\ UNCHANGED <<inQueue, responseVars, workers, flagVars, queueOwner, runPc, running,
                 interrupted, reader, pending, elsewhere>>

\* A system call of either thread fails and worker::fail runs up to its
\* callback.  It closes the write end of the interrupt pipe; the reader notices
\* that only if no sertop process forked later holds a copy of it.
WorkerFails(i) ==
  /\ \/ reader[i] = "poll"
        /\ reader' = [reader EXCEPT ![i] = "fail"] /\ UNCHANGED writer
     \/ writer[i] = "writing"
        /\ writer' = [writer EXCEPT ![i] = "fail"] /\ UNCHANGED reader
  /\ running' = [running EXCEPT ![i] = FALSE]
  /\ \E hangup \in BOOLEAN : interrupted' = [interrupted EXCEPT ![i] = @ \/ hangup]
  /\ UNCHANGED <<inQueue, responseVars, workers, flagVars, queueOwner, runPc, pending,
                 elsewhere>>

\* handle_worker_failure on the reader thread: erase runs ~worker, whose first
\* join is of the calling thread.  join throws system_error inside a noexcept
\* destructor, so std::terminate is called.
ReaderHandlesFailure(i) ==
  /\ reader[i] = "fail" /\ QueueFree
  /\ IF i \in workers
       THEN crashed' = "self_join" /\ UNCHANGED <<responseVars, reader>>
       ELSE PushResponse(i, 1, "failure", "destroy")
            /\ reader' = [reader EXCEPT ![i] = "done"] /\ UNCHANGED crashed
  /\ workers' = workers \ {i}
  /\ UNCHANGED <<inQueue, flagVars, queueOwner, runPc, running, interrupted, writer,
                 pending, outputs, serverVars, historyVars, mainVars>>

\* handle_worker_failure on the writer thread: ~worker joins the reader first,
\* with queue_m_ held.
WriterHandlesFailure(i) ==
  /\ writer[i] = "fail" /\ QueueFree
  /\ IF i \in workers
       THEN queueOwner' = "worker" /\ writer' = [writer EXCEPT ![i] = "join"]
            /\ UNCHANGED responseVars
       ELSE PushResponse(i, 1, "failure", "destroy")
            /\ writer' = [writer EXCEPT ![i] = "done"] /\ UNCHANGED queueOwner
  /\ workers' = workers \ {i}
  /\ UNCHANGED <<inQueue, flagVars, runPc, running, interrupted, reader, pending,
                 elsewhere>>

\* The reader is joined; the next join is of the calling thread.
WriterJoinsItself(i) ==
  /\ writer[i] = "join" /\ reader[i] = "done"
  /\ crashed' = "self_join"
  /\ UNCHANGED <<inQueue, responseVars, workers, flagVars, queueOwner, runPc, workerVars,
                 outputs, serverVars, historyVars, mainVars>>

ReaderStep(i) ==
  ReaderInterrupted(i) \/ HandleResponse(i) \/ ReaderHandlesFailure(i)

WriterStep(i) ==
  WriterSends(i) \/ WriterStops(i) \/ WriterHandlesFailure(i) \/ WriterJoinsItself(i)

(***************************************************************************)
(* The main thread: notify() and ~conductor.                               *)
(***************************************************************************)

\* main leaves its loop on a signal, at any time, or when has_failed() holds,
\* and calls notify(), which takes no mutex.
Notify ==
  /\ mainPc = "loop"
  /\ signalReceived' = TRUE
  /\ Wake
  /\ mainPc' = "join"
  /\ UNCHANGED <<inQueue, responseVars, workers, serverFailed, queueOwner, workerVars,
                 outputs, serverVars, historyVars, mainTarget, crashed>>

\* run_thread_ is joined, and the members declared after workers_ are destroyed.
MainJoined ==
  /\ mainPc = "join" /\ runPc = "stopped"
  /\ mainPc' = "teardown"
  /\ UNCHANGED <<inQueue, responseVars, workers, flagVars, queueOwner, runPc, workerVars,
                 outputs, serverVars, historyVars, mainTarget, crashed>>

\* The destructor of workers_ runs ~worker on every element, without queue_m_.
MainDestroys(i) ==
  /\ mainPc = "teardown" /\ i \in workers
  /\ StopThreads(i)
  /\ workers' = workers \ {i}
  /\ mainTarget' = i
  /\ mainPc' = "reap"
  /\ UNCHANGED <<inQueue, responseVars, flagVars, queueOwner, runPc, outputs, serverVars,
                 historyVars, crashed>>

MainReaped ==
  /\ mainPc = "reap" /\ ThreadsDone(mainTarget)
  /\ mainPc' = "teardown"
  /\ UNCHANGED <<inQueue, responseVars, workers, flagVars, queueOwner, runPc, workerVars,
                 outputs, serverVars, historyVars, mainTarget, crashed>>

MainExit ==
  /\ mainPc = "teardown" /\ workers = {}
  /\ mainPc' = "exit"
  /\ UNCHANGED <<inQueue, responseVars, workers, flagVars, queueOwner, runPc, workerVars,
                 outputs, serverVars, historyVars, mainTarget, crashed>>

\* A callback locks queue_m_, or pushes on a queue, after the conductor's members
\* are destroyed.
LateCallback ==
  /\ mainPc \in {"teardown", "reap"}
  /\ \/ \E i \in Instances : reader[i] \in {"respond", "fail"} \/ writer[i] = "fail"
     \/ srvPc \in {"callback", "join"}
     \/ requests < MaxRequests \/ ~serverFailed
  /\ crashed' = "late_callback"
  /\ UNCHANGED <<inQueue, responseVars, workers, flagVars, queueOwner, runPc, workerVars,
                 outputs, serverVars, historyVars, mainVars>>

\* The other outcome of the same access: the dead mutex is taken and the dead
\* queue swallows the response.
LateResponse(i) ==
  /\ mainPc \in {"teardown", "reap"}
  /\ reader[i] = "respond"
  /\ reader' = [reader EXCEPT ![i] = IF running[i] THEN "poll" ELSE "done"]
  /\ UNCHANGED <<inQueue, responseVars, workers, flagVars, queueOwner, runPc, running,
                 interrupted, writer, pending, elsewhere>>

MainStep == MainJoined \/ (\E i \in Instances : MainDestroys(i)) \/ MainReaped \/ MainExit

(***************************************************************************)
(* The specification.                                                      *)
(***************************************************************************)

WorkerStep(i) ==
  ReaderReads(i) \/ ReaderStep(i) \/ WriterStep(i) \/ WriterSent(i) \/ WorkerFails(i)

ServerStep ==
  \/ \E req \in Request : OnRequest(req)
  \/ OnServerFailure
  \/ InvalidateBegin
  \/ \E i \in Instances : InvalidateNext(i)
  \/ InvalidateStep

\* Nothing happens in a terminated process.
Next ==
  /\ crashed = "no"
  /\ \/ RunStep \/ RunUnmapSend
     \/ ServerStep
     \/ \E i \in Instances : WorkerStep(i)
     \/ Notify \/ MainStep \/ LateCallback
     \/ \E i \in Instances : LateResponse(i)

Alive(A) == crashed = "no" /\ A

\* Every thread that can run does, and is granted a mutex if it keeps asking for it.  The
\* latter is an assumption: the run thread gives up queue_m_ for up to 500 ms in every
\* iteration, but std::mutex promises nothing.
\* Clients, signals, sertop and failures are not fair, and neither is a write() to
\* sertop (WriterSent) or a send() to a client (RunUnmapSend), which may block.
Fairness ==
  /\ WF_vars(Alive(RunStep))
  /\ SF_vars(Alive(RunLocks))
  /\ SF_vars(Alive(InvalidateStep))
  /\ \A i \in Instances :
       /\ SF_vars(Alive(ReaderStep(i)))
       /\ SF_vars(Alive(WriterStep(i)))
  /\ WF_vars(Alive(HasFailed /\ Notify))
  /\ WF_vars(Alive(MainStep))

Spec == Init /\ [][Next]_vars

FairSpec == Spec /\ Fairness

(***************************************************************************)
(* Safety.                                                                 *)
(***************************************************************************)

QueueTypeOK ==
  /\ inQueue \in Seq(Request)
  /\ outQueue \in Seq(Response) /\ enqueued \in Seq(Response)
  /\ nextId \in Nat /\ creating \subseteq Response

WorkerTypeOK ==
  /\ workers \subseteq Instances
  /\ running \in [Instances -> BOOLEAN] /\ interrupted \in [Instances -> BOOLEAN]
  /\ reader \in [Instances -> {"none", "poll", "respond", "fail", "done"}]
  /\ writer \in [Instances -> {"none", "wait", "writing", "fail", "join", "done"}]
  /\ pending \in [Instances -> Nat]

ControlTypeOK ==
  /\ signalReceived \in BOOLEAN /\ serverFailed \in BOOLEAN
  /\ queueOwner \in {"none", "run", "srv", "worker"}
  /\ runPc \in {"check", "lock", "test", "sleep", "blocked", "woken", "awake", "requests",
                "created", "join", "unmap", "sending", "responses", "stopped"}
  /\ outputs \in 0 .. MaxOutputs
  /\ srvPc \in {"idle", "invalidate", "callback", "join"}
  /\ srvTarget \in Nat /\ mainTarget \in Nat
  /\ nextInstance \in 0 .. MaxInstances
  /\ requests \in 0 .. MaxRequests /\ invalidations \in 0 .. MaxInvalidations
  /\ unmapped \subseteq Instances /\ guessed \subseteq Instances
  /\ mainPc \in {"loop", "join", "teardown", "reap", "exit"}
  /\ crashed \in Crash

TypeOK == QueueTypeOK /\ WorkerTypeOK /\ ControlTypeOK

Increasing(s) == \A j, k \in DOMAIN s : j < k => s[j].id < s[k].id

\* Responses reach server::enqueue in the order of their ids, and no id is given
\* out twice, although the ids are drawn by the run thread and by the threads of
\* all workers: drawing an id and pushing the response are under one queue_m_.
\* The server's priority queue relies on it ("responses get ids in the order in
\* which they arrive", message.cpp:32).
ResponseIdsOrdered ==
  /\ Increasing(enqueued) /\ Increasing(outQueue)
  /\ \A j \in DOMAIN enqueued, k \in DOMAIN outQueue : enqueued[j].id < outQueue[k].id
  /\ \A j \in DOMAIN enqueued : enqueued[j].id < nextId
  /\ \A k \in DOMAIN outQueue : outQueue[k].id < nextId

Pushed == ToSet(outQueue) \union ToSet(enqueued)

Created(i, below) ==
  \E c \in Pushed : /\ c.instance = i /\ c.id < below
                    /\ c.verb = "create" /\ c.status = "success"

\* A client is told that its worker exists before it is sent anything that worker
\* printed, although the reader thread runs from inside the worker's constructor,
\* before the create response is pushed.
CreateBeforeOutput == \A r \in Pushed : r.verb = "forward" => Created(r.instance, r.id)

Quiet(i) == reader[i] \in {"none", "done"} /\ writer[i] \in {"none", "done"}

\* Once a client has been sent the destroy response of an instance, no thread of
\* that instance is left that could push another response for it.
DestroyedIsQuiet == \A i \in unmapped : i \notin workers /\ Quiet(i)

\* The null pointer that operator[] inserts is only met when the client has been told
\* that the instance is not there, has named an instance before the server gave it out,
\* which nothing checks, or when a client was invalidated.
ForwardFindsWorker ==
  crashed = "null_worker" =>
    \/ \E r \in Pushed : r.instance = Subject /\ r.verb = "create" /\ r.status = "failure"
    \/ Subject \in unmapped
    \/ Subject \in guessed
    \/ invalidations > 0

(***************************************************************************)
(* Liveness.  Stuck names every way in which the run thread, or a thread   *)
(* that holds queue_m_, can wait for good: three circular waits, and the   *)
(* two calls that block until somebody outside reads.                      *)
(***************************************************************************)

\* The workers that a thread is joining with queue_m_ held.
Joined ==
  {i \in Instances :
     \/ runPc = "join" /\ i = Subject
     \/ srvPc = "join" /\ i = srvTarget
     \/ writer[i] = "join"}

\* A thread that is joined waits for queue_m_.
JoinCycle == \E i \in Joined : reader[i] \in {"respond", "fail"} \/ writer[i] = "fail"

\* A reader that is joined was never told to stop.
LostHangup == \E i \in Joined : reader[i] = "poll" /\ ~interrupted[i]

\* run holds queue_m_ and wants clients_mutex_; invalidate the other way round.
LockCycle == runPc = "unmap" /\ srvPc = "callback"

\* A writer that is joined is inside write(), and sertop does not read.
BlockedWrite == \E i \in Joined : writer[i] = "writing"

\* run is inside send(), and the client does not read.
BlockedSend == runPc = "sending"

Stuck == JoinCycle \/ LostHangup \/ LockCycle \/ BlockedWrite \/ BlockedSend

\* After a signal or a stop request the run thread ends, unless the process was
\* terminated or a thread waits for good in one of the five ways: in particular a
\* notify() that falls between the test of the predicate and the wait is not lost.
StopsUnlessStuck ==
  HasFailed ~> (runPc = "stopped" \/ crashed # "no" \/ []Stuck)

\* Every response in out_queue_ is handed to the server, unless the conductor is
\* stopping, the process was terminated, or a thread waits for good.
DeliversUnlessStuck ==
  (outQueue # <<>>) ~> (outQueue = <<>> \/ HasFailed \/ crashed # "no" \/ []Stuck)

(***************************************************************************)
(* What the documentation says and the code does not do.                   *)
(***************************************************************************)

\* conductor.cpp:225, "Fatal error occurred, delete worker and inform Waterproof":
\* a worker that fails leads to a failure response for its instance.
WorkerFailureReported ==
  \A i \in Instances :
    (reader[i] = "fail" \/ writer[i] = "fail") ~>
      \/ HasFailed
      \/ \E r \in Pushed : r.instance = i /\ r.verb = "destroy" /\ r.status = "failure"

\* server.h:98, "Unmaps a single worker from its socket": unmap returns.
UnmapReturns == (runPc = "unmap") ~> (runPc # "unmap" \/ crashed # "no")
=============================================================================
