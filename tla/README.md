# A verification development for wpwrapper

wpwrapper (`src/`) sits between Waterproof, an editor, and sertop, a process that
talks to the Coq proof assistant. Waterproof connects over TCP and asks for sertop
instances to be created, written to and destroyed; the wrapper forks them, forwards
text both ways, and cleans up. The program is small and its difficulty is all in the
threads: a wrapper with *n* instances runs 5 + 2*n* of them.

The directory holds TLA+ modules of the program's parts, configurations with which TLC
checks them on small instances, and proofs, checked by TLAPS, for every value of the
constants. `PROJECT.json` lists the parts, the runs, the lines of source that every
definition models, the hazards and the findings.

## 1. Inventory

Paths are relative to `src/src`.

| Component | Source | State | Operations |
|---|---|---|---|
| Conductor | `conductor.{h,cpp}` | `in_queue_`, `out_queue_`, `workers_`, `next_id_`, `server_failed_`, `signal_received_`, `queue_m_`, `queue_cv_` | `run`, `handle_request`, `handle_response`, `handle_worker_failure`, the callbacks `on_request`, `on_failure`, `on_invalidate`, `notify`, `has_failed`, `~conductor` |
| Server | `waterproof/server.{h,cpp}`, `server_posix.cpp`, `server_win.cpp` | `running_`, `response_queue_`, `client_map_`, `clients_`, `new_clients_`, `next_id_`, `interrupt_`, the sockets | `accept_loop`, `read_loop`, `write_loop`, `read`, `write`, `enqueue`, `unmap`, `invalidate`, `fail`, `~server` |
| Worker | `sertop/worker.{h,cpp}`, `worker_posix.cpp`, `worker_win.cpp` | `running_`, `message_queue_`, the pipes, the process | constructor (pipe, fork, exec), `enqueue`, `read_loop`, `parse`, `write_loop`, `write`, `fail`, `~worker` |
| Messages | `waterproof/message.{h,cpp}` | none | `operator<`, `operator>`, JSON conversions |
| Buffers | `utils/buffers.{h,cpp}` | none | `read_uint32`, `write_uint32`, `clear` |
| Config | `utils/config.{h,cpp}` | none | constructor: parses the content of a create request |
| Main | `main.cpp` | `keep_running` | `signal_handler`, `main` |
| API wrappers | `posix/`, `win/` | none | one method per system call |
| Exceptions | `utils/exceptions.{h,cpp}` | none | `api_error` |

`src/` at this commit holds no tests.

### How the parts interact

- The server's *read* thread calls `on_request`, and `on_invalidate` from
  `invalidate`; its *write* thread calls `invalidate` too when a write fails; any of
  its threads calls `on_failure` from `fail`. All three callbacks take `queue_m_`.
- The conductor's *run* thread holds `queue_m_` while it handles requests. It starts
  workers, passes text to them (`worker::enqueue`), destroys them (`~worker` joins both
  threads of the worker), and calls `server::unmap` (takes `clients_mutex_`, writes to
  the socket, which blocks while the client does not read) and `server::enqueue` (takes
  `response_queue_mutex_`).
- A worker's *read* thread calls `handle_response`; either of its threads calls
  `handle_worker_failure`. Both take `queue_m_`.
- *main* polls `has_failed()`, calls `notify()` and destroys the conductor, whose members
  die in the reverse of their order of declaration: condition variable, `queue_m_`, the
  queues, `workers_`, `server_`.

### What is hard

- two mutexes taken in both orders (`queue_m_` and `clients_mutex_`), and joins made with
  `queue_m_` held of threads that take `queue_m_`;
- callbacks that run on a thread of the object they destroy, or after the object they use
  is destroyed;
- file descriptors as names: closed by one thread, used by another, and given to the next
  client at once;
- a condition variable notified without its mutex, a thread woken by a datagram;
- streams cut anywhere, in both directions;
- calls that block until somebody outside goes on: `send()` and `recv()` for a client, `write()` for
  sertop, some of them made with a mutex held;
- errors at every system call, with a clean-up whose steps other threads rely on.

### What makes each component correct

- *Conductor*: ids and queue order agree; creation is announced before output, and nothing
  comes after the announcement of destruction; a stop is obeyed; responses are passed on.
- *Server*: a client is handed from the accept to the read thread exactly once, polled in
  one slot, mapped to its own instances only, and closed when it leaves; responses leave
  in order and reach the client that asked.
- *Worker*: every terminated message, whole, once, in order, both ways; no handle is used after
  it is closed, closed twice or left open; the destructor returns and leaves no process.
- *Main*: a signal ends the process, and what the server's constructor opened is closed again
  wherever it fails.
- *Framing and buffers*: the text received is the text sent.

## 2. Modules

| Module | Models | State and actions |
|---|---|---|
| `Message` | `request`, `response`, the ordering, what `top()` may return | operators only |
| `Conductor` | conductor, the conductor's view of server and workers, shutdown | variables are the members; `Run*` is `run` and `handle_request`, `OnRequest`, `OnServerFailure`, `OnInvalidate*`, `Invalidate*` the server threads, `Reader*` and `Writer*` the worker threads, `Notify` and `Main*` the main thread |
| `Server`, `MCServer` | the three loops, `unmap`, `enqueue`, `invalidate`, `fail`, `~server` | variables are the members and the locals of the loops; `Accept*`, `Read*`, `Write*`, `Unmap*`, `Destroy*`; `Invalidate*(t)` runs on thread `t` |
| `SertopStream` | abstract: what the read side of a worker promises (`worker.h:103-110`) | `sent`, `delivered` |
| `Parser` | `worker::parse` and the data path of `read_loop` | implements `SertopStream` |
| `Buffers` | big-endian lengths, conversion to `int` | operators only |
| `Framing`, `MCFraming` | `server::read` on a stream that Waterproof writes | the two loops, one `recv()` per step |
| `SertopInput` | abstract: what the write side of a worker promises (`worker.h:85-87`, `117-120`) | `accepted`, `received` |
| `Worker` | what a worker does on both platforms: `enqueue`, `write_loop` up to `write`, the callbacks, the start of `~worker` | `worker[i]` holds the members, threads and sertop of worker *i*; `open` the handles of the wrapper; `owner` the thread inside a constructor or destructor |
| `WorkerPosix` | `worker_posix.cpp`: pipes, fork, exec, both loops, `fail`, `~worker` | `Fork`, `Start`, `Exec`, `Reader*`, `Writer*`, then `DestroyInterrupt` to `FutureDone` |
| `WorkerWin` | `worker_win.cpp`: named pipe, events, overlapped reads and writes | `ConstructWin`, `Reader*`, `Writer*`, `DestroySignals` to `CleanupWin` |
| `Workers`, `MCWorkers` | the two builds composed (the variable `platform` chooses one); implements `SertopInput` | |
| `Startup` | `main`, the signal handlers, the constructor and destructor of the server on both platforms | `PosixCalls` and `WinCalls` are tables, one row per system call: what it opens, what its error path closes, what is freed after it |
| `ConductorProofs`, `QuietProofs`, `ServerProofs`, `RoutingProofs`, `StartupProofs`, `WorkersProofs`, `FramingProofs`, `ParserProofs` | theorems about the module named, about `Conductor` (`QuietProofs`), `Server` (`RoutingProofs`), `Message` (in `ServerProofs`) and `Buffers` (in `FramingProofs`) | |

One step of `Conductor` or `Server` is what a thread does between two points where
another can interfere: taking or releasing a mutex, a blocking join or wait, an access to an
atomic outside the mutex, a system call on a shared descriptor. What a thread does inside a
critical section is split only where other threads can see it or block it (the run thread
keeps `queue_m_` from `RunLock` to `RunUnlock`, and its wait for a join or for
`clients_mutex_` is a state of its own). Two consequences that matter:

- `RunCreate` and `RunCreated` are two steps, because the new threads run in between;
- `RunTest` and `RunSleep` are two steps, because `notify()` takes no mutex.

Undefined or terminating behaviour is explicit. `crashed` in `Conductor` says how the process
ended: `self_join` (a worker thread destroys its own worker), `null_worker` (forward to
a worker that is not there), `uncaught_exception` (a malformed create request), `sigpipe` (`unmap`
writes to a connection that is gone), `late_callback` (a callback after the members it uses are gone; the other outcome, in which
the access is harmless, is `LateResponse`). `killed` in `Server` is SIGPIPE, or a JSON exception that
leaves a noexcept thread: `ReadThrows` (a request that is JSON but lacks a member) and
`WriteThrows` (text of sertop that is not UTF-8). In `Workers` it is `self_join`, `sigpipe`,
`late_callback` or, on Windows, `freed_buffer` (sertop prints into the buffer of a read that was
left pending); in `Startup` a signal before the handler is there, a logger that could not be
made, an error of `getaddrinfo` that is not noticed, or the closed console. Nothing happens
afterwards, so every property is claimed up to that point only. The id that `invalidate` passes is read through an iterator past the erased element: the next key, or any instance
at the end.

A file descriptor in `Server` is a number; `fdOwner` says what it stands for. `accept()`
returns the lowest closed one, so a number is reused at once. 0 is standard input, which
is what `client_map_[i]` yields for an unknown instance. `poll()` returns at once on a descriptor
that is closed before the call (`PollsClosed`); one that another thread closes while the call blocks is
not noticed, as on Linux (`readPc = "blocked"`).

### Abstractions

- The content of messages, formatting and logging are left out. A response keeps id,
  priority, status, verb and instance.
- `Conductor` sees the server as callbacks: at most one thread is inside `invalidate` (it
  holds `clients_mutex_`), and since the id it passes may be any, `InvalidateNext` takes any.
  `OnRequest` gives a create request the next id, as `read_loop` does. Any other request may name any
  id, since nothing checks it; `guessed` remembers the ones that were named before they were given out.
- `unmap` is two steps of `Conductor`: it waits for `clients_mutex_` (`RunUnmap`), then it sends
  (`RunUnmapSend`), which blocks for as long as the client does not read. What the `send()` does to the
  client's stream, its parts and its errors, is in `Server`.
- `Server` does not know what a callback waits for: it is inside `on_invalidate` (`notifying`) or
  `on_request` (`readPc = "request"`), returns or does not, and nothing is fair about it. The waits
  themselves are in `Conductor`.
- A `send()` takes some of what is left of the length or of the text, so that each is one or more steps;
  how many bytes is left out. To a client that is there it may block (`Stalls`); on a connection that is
  gone it succeeds, fails or raises SIGPIPE.
- In `Server` a forward response is enqueued only for instances that were created, and a create response
  first, once per instance, as `Conductor!ResponseIdsOrdered` and `Conductor!CreateBeforeOutput`
  establish; `UnmapBegin` takes any instance, any number of times. While the write thread is in `lookup` it
  holds `response_queue_mutex_`, so `Enqueue` waits.
- The interrupt sockets are kept apart from client descriptors: `fail()` closing
  `interrupt_[0]` twice, when the number may be a client's, has no effect in the model.
- A request is read in one step of `Server` (`ReadOther`, `ReadCreate`, `ReadThrows`), which may never be
  taken while the client is there; the stream itself is `Framing`.
- Config parsing is a Boolean of a create request: whether it throws.
- `Conductor` sees a worker as its two threads: a `write()` to sertop may block for good (`WriterSent` is
  not fair), the byte that is to stop the read thread may not be written (`StopThreads`), and the end of `~worker` (`worker_posix.cpp:160-218`) takes no time. What those lines do, and
  when sertop reads, is the subject of `Workers`, which in turn sees the conductor as one owner that
  holds `queue_m_` while it is inside a constructor or destructor.
- In `Workers` a message is a sequence of `MessageLength` pieces, the units in which `write()` may cut it; a
  handle is the worker and the member that holds it, so that a number that is reused is
  not modelled: using a handle that is not open (`misused`) already counts. Output of sertop is
  counted; its content is `Parser`. A process holds a set of pipe ends, and an end of file or a
  hang-up is there when no process holds the other end.
- `Startup` leaves out what the server threads do; that they may not end at all is finding 5.

## 3. Runs

| Run | Bounds | States | Shows |
|---|---|---|---|
| `Conductor` | 1 instance, 3 requests, 1 output, 1 invalidation, with fairness | 0.36 million | `TypeOK`, `ResponseIdsOrdered`, `CreateBeforeOutput`, `DestroyedIsQuiet`, `ForwardFindsWorker`, `StopsUnlessStuck`, `DeliversUnlessStuck` |
| `Server_safety` | 2 clients, descriptors 0-2, 1 instance, 3 responses, symmetry | 2.6 million | `TypeOK`, `AckedClientQueued`, `MappedToCreator`, `PolledOnce`, `SentInOrder` |
| `Server_liveness` | 2 clients, descriptors 0-1, 1 instance, 1 response, with fairness | 55 thousand | `AcceptedIsPolled`, `GoneIsClosed`, `WriterReturns` |
| `Parser` | 2 characters and NUL, streams of 6, buffer of 3 | 7 thousand | `TypeOK`, `RemainderIsTail`, `DeliversMessages`, `EventuallyAllDelivered` |
| `Framing` | bytes of 1 bit, 4 texts of up to 7 bytes, 3 requests, buffer of 4 | 8 thousand | `TypeOK`, `ReceivesRequests`, `EventuallyReceived` |
| `Workers` | both builds, 2 workers, messages of 2 pieces, pipe of 1, budgets below, with fairness | 0.25 million | `TypeOK`, `ThreadsUseOpenHandles`, `MisusedOnlyAfterFailure`, `KnownLeaks`, `NoProcessLeft`, `ClosingEndsInput`, `SertopGetsMessages`, `DestructorReturns`, `QueueIsWritten` |
| `Startup` | both platforms, 2 signals, 2 failures of the server, with fairness | 612 | `NothingLeftOpen`, `OnlyFailureClosesTwice`, `ThreadsHaveSockets`, `StopIsObeyed` |
| `Conductor_failure` | 1 instance | | violates `WorkerFailureReported` |
| `Conductor_unmap` | 1 instance | | violates `UnmapReturns` |
| `Server_invalidate` | 1 client, 2 instances | | violates `InvalidatesUnmapped` |
| `Server_routing` | 2 clients, 1 instance | | violates `RoutedToCreator` |
| `Server_destroy` | 1 client | | violates `DestroyFinishes` |

Deadlock is not checked where the system stops: after `exit` or a crash, when all
requests and clients are used up, and in the waits named below.

### Why the bounds are enough

- *Conductor*. Three requests with one output and one invalidation are the shortest run in which a
  creation, a response and a destruction of an instance overlap, and each of the five waits needs
  one instance. What several instances share is the queue, the ids and `workers_`: all four
  invariants about them are proved for all bounds.
- *Server*. In `Server_safety` two clients can be connected at once, so that the hand-over between the
  threads can meet two of them and a slot is scanned while another one dies; the second client gets a
  fresh number or, after the first has left, the number of the first. Three responses are a create, a
  forward and a destroy, or two of equal priority beside another. In `Server_liveness` there is one
  number (0 is standard input), so that the second client has to wait for the number of the first. That
  one mapping is followed by another matters only to the id that `on_invalidate` gets
  (`Server_invalidate`, two instances); the invariants are proved for all bounds.
- *Workers*. Two workers are what inheritance needs: the second sertop holds the pipe of the first. A
  pipe of one piece makes every message of two block once. A behaviour has one of three budgets: two
  messages and no failure; one message and one failure; one print and one failure. A failure is
  any failing call or the death of a sertop, so a worker is seen with each of its calls failing
  while the other one is alive, being made or being destroyed; two independent
  failures in one behaviour are not covered.
- *Startup*. One call of the constructor fails in a behaviour, as it ends it. Two failures of the
  server reach the second `fail()`; two signals the one that comes while a first is being obeyed.
- *Parser*. A stream of six holds an empty message, two messages in one read of three, a
  message over three reads and a terminator alone in a read.
- *Framing*. With one bit per byte, lengths run to 15 and `int` overflows at 8, so that the range
  of the length is exhausted by texts one can enumerate; the texts used are below 8 and hold
  the encodings of lengths, so that a slip of the frame is seen. `Base` is 256 in the code.

### Fairness

- Threads that can run do. A mutex is granted to a thread that keeps asking for it (strong fairness of
  `RunLocks`, `ReaderStep`, `WriterStep`, `InvalidateStep`, and of the server's steps). This is an
  assumption: `std::mutex` promises nothing. It is a mild one for `queue_m_`, which the run
  thread gives up for as long as 500 ms in each iteration, and which no thread asks for in a tight loop.
- Nothing is assumed of a call that waits for somebody else: a `send()` to or a `recv()` from a client that
  is there, a `write()` to sertop, and, in `Server`, a callback. A thread that keeps `clients_mutex_` during
  such a call may keep it for good. Where a property needs more, it names the wait as an exception.
- The timeout of `wait_for` does expire (`RunTimeout` is part of `RunStep`).
- `main` calls `notify()` once `has_failed()` holds, since it polls twice a second.
- A connection that hung up has finitely many requests left to read (`ReadDead`). Clients that
  connect, leave or send are not fair.
- In `Framing` the read thread comes back to a connection that has data; that it waits for nobody else
  meanwhile is assumed.
- In `Workers` the owner, the thread of the future and each worker's threads run (weak fairness; `queue_m_`
  is the owner's or free, and no thread keeps taking it), a forked child calls `execv`, and SIGTERM
  ends a sertop. That sertop reads, or ends at the end of its input, is not assumed.
- In `Startup` the main thread runs; the join of the server threads is not fair.
- Clients, signals, output of sertop, and failures are never fair.

### Liveness with exceptions

Each exception is a state that lasts for good (`[]Stuck`), so that what is claimed is also that there
is no other way for the thread to wait. They are states of the code that no document rules out; where
one did, there is a finding.

`StopsUnlessStuck` and `DeliversUnlessStuck` hold except in `Stuck`, five ways to wait:

- `JoinCycle`: a thread holds `queue_m_` and joins one that waits for it;
- `LostHangup`: a reader that is joined was never told to stop, because its worker has failed before or
  the byte could not be written;
- `LockCycle`: the two mutexes;
- `BlockedWrite`: a writer that is joined is inside `write()`, and sertop does not read;
- `BlockedSend`: `run` is inside the `send()` of `unmap`, and the client does not read.

`AcceptedIsPolled` and `GoneIsClosed` hold until the server stops, except in `Blocked`: a callback has
not returned (it waits for `queue_m_`, in the lock cycle for good), `unmap` is inside
`send()` with `clients_mutex_` held, or a client has sent part of a request. `WriterReturns` has two
exceptions: its own client does not read, or the holder of `clients_mutex_` waits in one of the ways
above. `GoneIsClosed`, `MappedToCreator` and `PolledOnce` also have the premise that no `send()` has
failed: the write thread then invalidates a socket the read thread still polls, and from that point
descriptors and slots disagree.

`DestructorReturns`, however sertop behaves, except in four waits: `JoinCycle` (as above; on Windows also
because `CancelIoEx` makes an orderly shutdown look like a failure to the write thread, which then waits
for `queue_m_`), `BlockedWrite` (sertop does not read and the write thread is inside `write()`),
`LostHangup` (the write to the interrupt pipe failed, or `fail()` has closed its write end, of which a
sertop forked later holds a copy) and `LostKill` (`kill()` failed, and the future waits for a
sertop that does not end). `QueueIsWritten` has `BlockedWrite` as its exception.

`EventuallyReceived` holds for a connection that stays open. One that hangs up, is reset or is
invalidated by the write thread may be given up with requests unread (`GiveUp`): `read_loop` tests
`POLLHUP | POLLERR` before `POLLRDNORM` (`server.cpp:398-405`).

### Refinements

`Parser` implements `SertopStream` (`DeliversMessages`): sertop's output, cut into reads anywhere, is delivered
message by message. `Workers` implements `SertopInput` (`SertopGetsMessages`): what a sertop has read is a
prefix of the pieces of the messages enqueued to its worker, also when failures or the destructor end
the writing between two pieces, and on the Windows pipe, where a write is taken back by `CancelIoEx`.

## 4. Findings

Each is a run that TLC finds violated, against a line of the documentation.

1. *A failed worker terminates the process* (`Conductor_failure`). `conductor.cpp:225` says
   the worker is deleted and Waterproof informed; the handler runs on a thread of the worker,
   `~worker` joins that thread with itself, and `std::terminate` follows.
2. *Destroy and disconnect deadlock* (`Conductor_unmap`). `handle_request` calls
   `server::unmap` with `queue_m_` held, `server::invalidate` calls `on_invalidate` with
   `clients_mutex_` held (`server.h:98`).
3. *The wrong worker is invalidated* (`Server_invalidate`). `server.cpp:89-95` passes the id of the
   mapping after the erased one (`server.h:112`).
4. *A response may go to another client* (`Server_routing`). `server.cpp:490` reads the descriptor
   without `clients_mutex_`; it may be closed and reused before the text is written
   (`server.h:176`).
5. *The server's destructor may not return* (`Server_destroy`). `server_posix.cpp:228` expects the
   close of one UDP socket to be an event on the other.

## 5. Proofs

`tlapm` checks every theorem for all values of the constants, from the named assumptions of the
modules (the bounds are natural numbers; a byte has at least two values).

- `ServerProofs`, first part: `operator<` is a strict order, total on responses with different ids, and what
  `top()` returns is the oldest of the highest priority, and unique. With unique ids (which
  `ConductorProofs!IdsOrdered` gives) the heap leaves no choice, so `IsTop` in `Server` is exact.
- `FramingProofs!RoundTrip`: reading inverts writing for every `uint32_t` and every `Base`. The proof
  peels one digit at a time (`ShiftLow`) and recombines the sum (`FactorBound`).
- `ConductorProofs`: `TypeCorrect`, `IdsOrdered` and `CreatedFirst` follow from one inductive
  invariant, `IInv`, by `InitIInv`, `NextIInv` and `Inductive`.

The parts of `IInv`, and why each is there:

| Conjunct | Says | Needed because |
|---|---|---|
| `TypeOK` with `FrontInv` | types; in the states where the run thread is inside a request, that request is at the front of the queue | `Subject` and `Tail` are meaningful in `RunCreated`, `RunJoined`, `RunUnmap`, `RunUnmapSend` |
| `LockInv` | who is inside a critical section owns `queue_m_` | `HandleResponse` cannot interleave with the run thread's handling |
| `CreatingInv` | the response under construction exists only while the run thread is in state `created` | nobody draws an id before it is pushed |
| `OrderInv` | `ResponseIdsOrdered`, and the id of the response under construction is above every pushed one and below `next_id_` | the next response goes behind all others |
| `StartedInv` | a worker whose threads exist has its create response pushed or under construction | a forward response finds it, with a lower id |
| `CreateBeforeOutput` | | itself |

`ResponseIdsOrdered` is not inductive: an id is drawn in `RunCreate` and pushed in
`RunCreated`, and without `LockInv` a worker's response could be pushed in between. One lemma
per kind of step (`PushOrder`, `DrawOrder`, `PushDrawnOrder`, `HandOverOrder`, `SkipOrder`,
`SameOrder`) says what it does to the order of ids; `StepKinds` sorts the actions into
these kinds, so that each property is argued six times and not once per action.

`QuietProofs!DestroyedQuiet` has an invariant of its own, `QuietInv`, on top of `TypeInv`, `LockInv`
and `CreatingInv`. It follows a worker out of `workers_`:

| Conjunct | Says | Needed because |
|---|---|---|
| `WriterInv` | a failed writer that joins its reader owns `queue_m_` | nobody else removes workers meanwhile |
| `MainInv` | members are destroyed only after the run thread has stopped | `~conductor` and `handle_request` are never both in `~worker` |
| `JoinedInv` | a worker that is not in `workers_` is quiet, or some thread is inside its destructor | `DestroyedIsQuiet` says nothing about the time between erase and unmap |
| `TargetInv` | the subject of a destroy is out of `workers_` from the join on, and quiet when `unmap` starts and while it sends | the step that sends the destroy response |
| `DestroyedIsQuiet` | | itself; an id that was destroyed before it was given out is no longer `unmapped` when it is created |

`QuietProofs!ForwardsFindWorkers` adds `AccountInv`: every instance that was given out is accounted for.

| Conjunct | Says | Needed because |
|---|---|---|
| `AccountedInv` | such an instance waits in `in_queue_`, is in `workers_`, is being removed by a named thread, or its client knows (the excuses of `ForwardFindsWorker`) | `ForwardFindsWorker` speaks of the moment of a lookup only |
| `InvalidationInv` | a thread inside `invalidate` has been counted | erasing by the server's threads is excused |
| `MakingInv` | a create response under construction says whether there is a worker | `RunCreated` pops the request, which must leave another account of the instance |
| `NamedInv` | a queued request names an id that was given out, or a guessed one, and so does a request before the create request of its id | a forward at the front that has its create request behind it was a guess, one of the four excuses |
| `OrderInv`, `QuietInv` | as above | what was pushed stays pushed, and which threads remove workers |

Both were checked by TLC as invariants before they were proved.

`ServerProofs` holds the types and the two invariants about queues:

- `TypeInv` is `TypeOK` by groups of variables, with what the types of a step rest on: a slot that is
  ready is in use, `AssignInv` (there is a request to take the sender from), and `HolderInv` (where the
  three threads are while `clients_mutex_` is held). The variables come in groups that actions leave
  unchanged together, so that each action is argued for the groups that it touches.
- `AckInv`: while the server runs, acknowledgements under way, being sent or being taken are never more than
  `new_clients_` holds. A `recv()` that fails leaves its acknowledgement where it is, and takes a client all
  the same; but it has cleared `running_`, and the read thread ends before it takes another.
- `OrderInv`: `SentInOrder` speaks of two popped responses. For the next `pop()` one must know that what
  has left is older than what is queued, priority by priority (`PoppedInv`), and that ids are
  different and drawn (`IdInv`).

`RoutingProofs` follows descriptors. Its invariants:

| Conjunct | Says | Needed because |
|---|---|---|
| `PlacedInv`, `ExclusiveInv`, `DistinctInv` | until a `send()` fails, every open descriptor is once in exactly one of: a slot, `new_clients_`, the clients being invalidated, the accept thread's hands | `PolledOnce` is about slots; a second copy could come from any of the other places |
| `StopInv`, `WriterInv` | the destructor closes after the threads have ended; only a failed `send()` makes the write thread invalidate | no other step closes a descriptor that has a place |
| `SenderInv` | the client that is being read keeps its descriptor until its instance is mapped | `MappedToCreator` when `read_loop` assigns |

`StartupProofs` needs little: before a call of the constructor exactly that is open which the call's
error path closes (`ConstructorInv`, a check of the two tables row by row), afterwards `running_` tells
whether `fail()` has closed its end (`ServingInv`), and so on through the destructor (`StoppingInv`,
`ExitInv`).

`WorkersProofs` proves the six invariants of both builds from one `IInv`, for any number of workers,
messages, pieces, failures and any size of the pipe:

| Conjunct | Says | Needed because |
|---|---|---|
| `OwnerInv`, `LifeInv` | what each state of a constructor or destructor means for the worker it works on, and for `queue_m_` | two threads may be inside destructors: the owner, and a failed writer that joins its reader |
| `ThreadInv` | threads run between construction and join only | who may use or close a handle |
| `OpenMost`, `OpenLeast` | the open handles of a worker are those of its `Phase`, but for the write end of the interrupt pipe after a failure | `ThreadsUseOpenHandles`, `KnownLeaks` and `MisusedOnlyAfterFailure` at once |
| `HeldInv` | the write end of a sertop's input is inherited by younger sertops only, and by itself only until `execv` | `ClosingEndsInput` |
| `EndInv`, `BornInv` | what the owner knows of the end of the process; workers are born in the order of their ids | `NoProcessLeft` |

The actions fall into five kinds: a step of a thread (`ThreadStep`), of a process (`ProcessStep`), of a
destructor (`DestructorMove`), a birth (`BirthStep`), and the crash; `IInv` is argued once per kind, and
`StepOf` sorts the actions. `IInv` too was checked by TLC before it was proved.

The refinement of `SertopInput` (`WorkersDeliver`) adds `FlowInv`, one conjunct per worker (`FlowOf`): the
pieces that are in the pipe and in the hands of the write thread are, piece by piece, the ones that come after
what sertop has read (`InPlace`, `PipeInPlace`), and the queue holds the messages that come after those
(`Taken`), for as long as the write thread takes messages. It says nothing of what a writer that has stopped
leaves behind, so that a failure may cut a message. On Windows a pending write can be cancelled by the other
thread; that nothing follows a message that was cut rests on the pipe being empty unless a write is pending.
Most actions move no message (`Idles`); each of the others is a lemma of its own.

`FramingProofs!RequestsAreReceived` and `ParserProofs` are about data: the bytes of a stream, and how far a
loop has come in it. Induction over data is out of the provers' reach when it is stated with an operator;
both modules go round that.

- `Framing`: the invariant says where each request starts in the stream (`Laid`: positions, one behind the
  other, with the length and the text at each), which of them has been received (`ParsedInv`), and what the
  counters of the two loops mean for the one that is being read (`CurrentInv`, `ArrivingInv`). A step of
  `recv()` moves one position; that a length is read back as it was written is `RoundTrip`. It holds as long as
  every text is short enough for an `int` (`AllShort`), as `ReceivesRequests` says.
- `Parser`: the invariant is that the marks (positions of the terminators) of what has been read cut it into
  what has been delivered, and the remainder (`Parsed`). `ParseCuts` says what `worker::parse` returns, loop
  and all, in terms of the marks of its input; `MarksBehind` and `CutJoins` put the marks of one read behind
  those of the stream before it. The two inductions (over the length of a stream in `MarksExtend`, over the
  iterations in `LoopTakes`) use `SetInduction`, which is stated with a set instead of a predicate and
  follows from the well-foundedness of `<`. `ReadDelivers` is then the one step of the refinement that is not
  a step of sertop: the messages of a read are the next ones of the whole stream (`Deliver`), or none.

### Only model-checked

- All liveness properties: fairness and `ENABLED` are out of the prover's reach.

Every safety invariant that a run checks is proved, and so are both refinements.

## 6. Plan

Done: all modules of section 2, and the proofs of section 5. In the order of what they would add:

1. `System`: `Conductor` with `Server`, sharing `queue_m_` and `clients_mutex_`, against an abstract
   `OrderedDelivery` (a client gets create, then output in order, then destroy), and the lock
   cycle in one model. The two are joined now by what each assumes of the other (section 2,
   Abstractions).
2. `Server` with the 256 slots of `waitfds` as a parameter.

## 7. Not modelled

- The 256 slots of `waitfds` (`server.cpp:384`): a behaviour that reaches the end of the array is longer
  than the bounds, and the step past it is an arbitrary write.
- What a client does while it makes a `send()` or a `recv()` block: the call may block or return (`Stalls`).
- JSON, beyond the exceptions it throws; the paths and arguments of `config`.
- `read_uint32` and `write_uint32` at an offset or in little endian, and `buffers::clear`, which nothing
  depends on.
- The API wrappers (one system call each, no state), `api_error`, which logs, and the build files.
- Reuse of a process id between the reaping of a sertop and `kill()`, and of a handle's number by another
  object outside `Server`.
- Exceptions of `std::thread` and `std::mutex` at the limit of the system's resources.
