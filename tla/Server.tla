------------------------------- MODULE Server -------------------------------
(***************************************************************************)
(* The server (waterproof/server.h, server.cpp, server_posix.cpp): its     *)
(* accept, read and write thread, the file descriptors of its clients, and *)
(* the conductor thread that calls enqueue, unmap and the destructor.      *)
(*                                                                         *)
(* A client is a connection; a file descriptor is a small number that the  *)
(* kernel gives to the next connection as soon as it is closed.  One step  *)
(* is what a thread does between two accesses to shared state, a system    *)
(* call counting as one.  What the callbacks wait for is the subject of    *)
(* module Conductor; here they may return or not, and so may a send() to a *)
(* client that does not read and a recv() from one that does not go on.    *)
(***************************************************************************)
EXTENDS Message, SequencesExt, FiniteSetsExt

CONSTANTS
  Clients,        \* connections that Waterproof opens
  MaxFd,          \* the largest file descriptor that accept() returns
  MaxInstances,   \* bound on create requests, hence on instance ids
  MaxResponses    \* bound on responses that the conductor makes

ASSUME ServerAssumption ==
  /\ MaxFd \in Nat /\ MaxInstances \in Nat /\ MaxResponses \in Nat
  /\ Clients \cap {"stdin", "closed"} = {}

VARIABLES
  running,                  \* running_
  peer,                     \* the far end of each connection
  fdOwner,                  \* what each file descriptor stands for
  interrupt,                \* the ends of interrupt_ that are open
  acks,                     \* ACK chars in the receive buffer of interrupt_[0]
  clients, newClients,      \* clients_, new_clients_
  clientMap,                \* client_map_
  nextId,                   \* next_id_
  creator,                  \* history: the connection that created an instance
  clientsOwner,             \* who holds clients_mutex_
  notifying,                \* whether it is inside on_invalidate
  queue,                    \* response_queue_
  acceptPc, acceptFd,       \* accept_loop and its local client
  readPc, waitfds, ready, readFrom, invalid,   \* read_loop and its locals
  writePc, writeFd, writeMsg,                  \* write_loop and its locals
  unmapPc, unmapFd, unmapMsg,                  \* unmap and its locals
  nextResponse, announced,                     \* what the conductor has done
  dtorPc,                   \* ~server
  wire,                     \* history: the instances each connection was told about
  popped,                   \* history: responses in the order of their pop()
  notified,                 \* history: <<unmapped id, id given to on_invalidate>>
  writeFailed,              \* history: whether a send() has failed
  killed                    \* whether SIGPIPE or an exception has ended the process

fdVars     == <<peer, fdOwner>>
interruptVars == <<interrupt, acks>>
collectionVars == <<clients, newClients, clientMap, nextId, creator>>
acceptVars == <<acceptPc, acceptFd>>
readVars   == <<readPc, waitfds, ready, readFrom, invalid>>
writeVars  == <<writePc, writeFd, writeMsg>>
unmapVars  == <<unmapPc, unmapFd, unmapMsg>>
callerVars == <<nextResponse, announced, dtorPc>>
sendVars   == <<wire, writeFailed, killed>>
lockVars   == <<clientsOwner, notifying>>
sharedVars == <<running, fdVars, interruptVars, collectionVars, lockVars, queue>>
restVars   == <<unmapVars, callerVars, sendVars, popped, notified>>
vars == <<sharedVars, acceptVars, readVars, writeVars, restVars>>

Fds == 0 .. MaxFd

Instances == 0 .. MaxInstances - 1

Owner == Clients \union {"stdin", "closed"}

NoMessage ==
  [id |-> 0, priority |-> 0, status |-> "success", verb |-> "forward", instance |-> 0]

Init ==
  /\ running = TRUE
  /\ peer = [c \in Clients |-> "new"]
  /\ fdOwner = [f \in Fds |-> IF f = 0 THEN "stdin" ELSE "closed"]
  /\ interrupt = {0, 1} /\ acks = 0 /\ clients = <<>> /\ newClients = <<>>
  /\ clientMap = <<>> /\ nextId = 0 /\ creator = <<>>
  /\ clientsOwner = "none" /\ notifying = FALSE
  /\ queue = {}
  /\ acceptPc = "poll" /\ acceptFd = 0
  /\ readPc = "poll" /\ waitfds = <<>> /\ ready = {} /\ readFrom = "closed" /\ invalid = <<>>
  /\ writePc = "wait" /\ writeFd = 0 /\ writeMsg = NoMessage
  /\ unmapPc = "none" /\ unmapFd = 0 /\ unmapMsg = NoMessage
  /\ nextResponse = 0 /\ announced = {}
  /\ dtorPc = "none"
  /\ wire = [c \in Clients |-> {}]
  /\ popped = <<>> /\ notified = {}
  /\ writeFailed = FALSE /\ killed = FALSE

(***************************************************************************)
(* Helpers.                                                                *)
(***************************************************************************)

ClientsFree == clientsOwner = "none"

\* map::insert and map::erase.
Extended(map, i, v) == [j \in DOMAIN map \union {i} |-> IF j = i THEN v ELSE map[j]]
Erased(map, i) == [j \in DOMAIN map \ {i} |-> map[j]]

\* client_map_[i] default-inserts file descriptor 0 for an unknown instance.
Lookup(i) == IF i \in DOMAIN clientMap THEN clientMap[i] ELSE 0

\* fail() clears running_, closes interrupt_[0] and calls on_failure.
Fail ==
  /\ running' = FALSE
  /\ interrupt' = interrupt \ {0}

\* A loop tests running_ and blocks in its wait again.
LoopOr(pc) == IF running THEN pc ELSE "done"

Gone(f) == fdOwner[f] \in Clients /\ peer[fdOwner[f]] = "gone"

\* The client is there.  A send() to it blocks for as long as it does not read, a
\* recv() from it until it has sent the rest of its request.
Stalls(f) == fdOwner[f] \in Clients /\ ~Gone(f)

\* One send() of write(), which takes some of the length or the text of a response.
\* It may succeed silently on a connection that the peer has closed; it fails with
\* ECONNRESET or, since SIGPIPE has its default action, kills the process.
SendOk(f, r) ==
  /\ fdOwner[f] \in Clients
  /\ wire' = IF Gone(f) THEN wire ELSE [wire EXCEPT ![fdOwner[f]] = @ \union {r.instance}]
  /\ UNCHANGED <<writeFailed, killed>>

SendFails(f) ==
  /\ Gone(f) \/ fdOwner[f] \in {"stdin", "closed"}
  /\ writeFailed' = TRUE
  /\ UNCHANGED <<wire, killed>>

SendKills(f) ==
  /\ Gone(f)
  /\ killed' = TRUE
  /\ UNCHANGED <<wire, writeFailed>>

(***************************************************************************)
(* Clients.                                                                *)
(***************************************************************************)

Disconnect(c) ==
  /\ peer[c] = "connected"
  /\ peer' = [peer EXCEPT ![c] = "gone"]
  /\ UNCHANGED <<running, fdOwner, interruptVars, collectionVars, lockVars, queue,
                 acceptVars, readVars, writeVars, restVars>>

(***************************************************************************)
(* accept_loop.                                                            *)
(***************************************************************************)

\* A client has connected, and may have gone again (Disconnect).  accept() returns the
\* lowest file descriptor that is not in use.
AcceptClient(c) ==
  /\ acceptPc = "poll" /\ peer[c] = "new"
  /\ LET unused == {f \in Fds : fdOwner[f] = "closed"}
     IN  /\ unused # {}
         /\ acceptFd' = Min(unused)
         /\ fdOwner' = [fdOwner EXCEPT ![Min(unused)] = c]
  /\ peer' = [peer EXCEPT ![c] = "connected"]
  /\ acceptPc' = "push"
  /\ UNCHANGED <<running, interruptVars, collectionVars, lockVars, queue, readVars,
                 writeVars, restVars>>

\* Mutant of AcceptPush: new_clients_ is forgotten.
AcceptPushesOnce ==
  /\ acceptPc = "push" /\ ClientsFree
  /\ clients' = Append(clients, acceptFd)
  /\ acceptPc' = "ack"
  /\ UNCHANGED <<running, fdVars, interruptVars, newClients, clientMap, nextId, creator,
                 lockVars, queue, acceptFd, readVars, writeVars, restVars>>

AcceptPush ==
  /\ acceptPc = "push" /\ ClientsFree
  /\ clients' = Append(clients, acceptFd)
  /\ newClients' = Append(newClients, acceptFd)
  /\ acceptPc' = "ack"
  /\ UNCHANGED <<running, fdVars, interruptVars, clientMap, nextId, creator, lockVars,
                 queue, acceptFd, readVars, writeVars, restVars>>

\* Mutant of AcceptAck: the read thread is not told.
AcceptSilently ==
  /\ acceptPc = "ack"
  /\ acceptPc' = LoopOr("poll")
  /\ UNCHANGED <<sharedVars, acceptFd, readVars, writeVars, restVars>>

\* A socket that is closed while poll() waits on it may still receive the ACK.
AcceptAck ==
  /\ acceptPc = "ack" /\ 1 \in interrupt
  /\ \E n \in IF 0 \in interrupt THEN {1} ELSE {0, 1} : acks' = acks + n
  /\ acceptPc' = LoopOr("poll")
  /\ UNCHANGED <<running, interrupt, fdVars, collectionVars, lockVars, queue, acceptFd,
                 readVars, writeVars, restVars>>

\* send() fails, in particular when ~server has closed interrupt_[1].
AcceptAckFails ==
  /\ acceptPc = "ack"
  /\ Fail
  /\ acceptPc' = "done"
  /\ UNCHANGED <<fdVars, acks, collectionVars, lockVars, queue, acceptFd, readVars,
                 writeVars, restVars>>

\* wait() or accept() fails, which a signal handler that runs on this thread is
\* enough for (EINTR).
AcceptFails ==
  /\ acceptPc = "poll"
  /\ Fail
  /\ acceptPc' = "done"
  /\ UNCHANGED <<fdVars, acks, collectionVars, lockVars, queue, acceptFd, readVars,
                 writeVars, restVars>>

(***************************************************************************)
(* invalidate, called by thread t on the socket Target(t).                 *)
(***************************************************************************)

Thread == {"read", "write"}

Target(t) == IF t = "read" THEN Head(invalid) ELSE writeFd

AtInvalidate(t) ==
  IF t = "read" THEN readPc = "sweep" /\ invalid # <<>> ELSE writePc = "invalidate"

Mapped(f) == {i \in DOMAIN clientMap : clientMap[i] = f}

InvalidateLock(t) ==
  /\ AtInvalidate(t) /\ ClientsFree
  /\ clientsOwner' = t
  /\ clients' = RemoveFirst(clients, Target(t))
  /\ UNCHANGED <<notifying, running, fdVars, interruptVars, newClients, clientMap, nextId,
                 creator, queue, acceptVars, readVars, writeVars, restVars>>

\* The iterator that erase() returns stands on the next mapping, and its key is
\* what on_invalidate is called with.  Past the last mapping it is whatever is there.
InvalidateMapping(t) ==
  /\ clientsOwner = t /\ ~notifying /\ Mapped(Target(t)) # {}
  /\ notifying' = TRUE
  /\ LET i == Min(Mapped(Target(t)))
         later == {j \in DOMAIN clientMap : j > i}
     IN  /\ clientMap' = Erased(clientMap, i)
         /\ \E j \in IF later # {} THEN {Min(later)} ELSE Instances :
              notified' = notified \union {<<i, j>>}
  /\ UNCHANGED <<running, fdVars, interruptVars, clients, newClients, nextId, creator,
                 clientsOwner, queue, acceptVars, readVars, writeVars, unmapVars,
                 callerVars, sendVars, popped>>

\* on_invalidate returns; it has waited for queue_m_, with clients_mutex_ held.
InvalidateNotified(t) ==
  /\ clientsOwner = t /\ notifying
  /\ notifying' = FALSE
  /\ UNCHANGED <<running, fdVars, interruptVars, collectionVars, clientsOwner, queue,
                 acceptVars, readVars, writeVars, restVars>>

\* Mutant of InvalidateClose: the socket is closed before its mappings are erased.
InvalidateClosesFirst(t) ==
  /\ clientsOwner = t /\ ~notifying
  /\ fdOwner' = [fdOwner EXCEPT ![Target(t)] = "closed"]
  /\ UNCHANGED <<running, peer, interruptVars, collectionVars, lockVars, queue,
                 acceptVars, readVars, writeVars, restVars>>

\* Mutant of InvalidateClose: the socket is not closed.
InvalidateLeaks(t) ==
  /\ clientsOwner = t /\ ~notifying /\ Mapped(Target(t)) = {}
  /\ clientsOwner' = "none"
  /\ IF t = "read"
       THEN invalid' = Tail(invalid) /\ UNCHANGED writePc
       ELSE writePc' = LoopOr("wait") /\ UNCHANGED invalid
  /\ UNCHANGED <<notifying, running, fdVars, interruptVars, collectionVars, queue,
                 acceptVars, readPc, waitfds, ready, readFrom, writeFd, writeMsg, restVars>>

\* close() of a file descriptor that is already closed does nothing.
InvalidateClose(t) ==
  /\ clientsOwner = t /\ ~notifying /\ Mapped(Target(t)) = {}
  /\ fdOwner' = [fdOwner EXCEPT ![Target(t)] = "closed"]
  /\ clientsOwner' = "none"
  /\ IF t = "read"
       THEN invalid' = Tail(invalid) /\ UNCHANGED writePc
       ELSE writePc' = LoopOr("wait") /\ UNCHANGED invalid
  /\ UNCHANGED <<notifying, running, peer, interruptVars, collectionVars, queue,
                 acceptVars, readPc, waitfds, ready, readFrom, writeFd, writeMsg, restVars>>

InvalidateStep(t) == InvalidateLock(t) \/ InvalidateMapping(t) \/ InvalidateClose(t)

(***************************************************************************)
(* read_loop.                                                              *)
(***************************************************************************)

Listening(k) == waitfds[k] # -1

\* A closed descriptor makes poll() return at once, with POLLNVAL, which the loop
\* does not look at.
Bad(k) == Listening(k) /\ fdOwner[waitfds[k]] \notin Clients

PollsClosed == 0 \notin interrupt \/ \E k \in DOMAIN waitfds : Bad(k)

\* poll() is called with descriptors that are all open.
ReadPoll ==
  /\ readPc = "poll" /\ ~PollsClosed
  /\ readPc' = "blocked"
  /\ UNCHANGED <<sharedVars, acceptVars, waitfds, ready, readFrom, invalid, writeVars,
                 restVars>>

\* The interrupt socket is readable and recv() takes one ACK, or fails, for instance
\* because fail() has closed the socket since.  Then fail() is called, but the loop
\* goes on as if there were an ACK.
ReadAck ==
  /\ acks > 0 /\ (readPc = "blocked" \/ (readPc = "poll" /\ 0 \in interrupt))
  /\ \/ 0 \in interrupt /\ acks' = acks - 1 /\ UNCHANGED <<running, interrupt>>
     \/ Fail /\ UNCHANGED acks
  /\ readPc' = "refresh"
  /\ UNCHANGED <<fdVars, collectionVars, lockVars, queue, acceptVars, waitfds, ready,
                 readFrom, invalid, writeVars, restVars>>

ReadRefresh ==
  /\ readPc = "refresh" /\ ClientsFree
  /\ newClients # <<>>
  /\ waitfds' = Append(waitfds, Head(newClients))
  /\ newClients' = Tail(newClients)
  /\ readPc' = LoopOr("poll")
  /\ UNCHANGED <<running, fdVars, interruptVars, clients, clientMap, nextId, creator,
                 lockVars, queue, acceptVars, ready, readFrom, invalid, writeVars,
                 restVars>>

\* A client has closed its end.
HungUp(k) == Listening(k) /\ Gone(waitfds[k])

\* A client may have sent a request (the bound is that of create requests).
MayHaveSent(k) ==
  Listening(k) /\ fdOwner[waitfds[k]] \in Clients /\ nextId < MaxInstances

\* poll() returns with revents set on the slots in ready, and no ACK to receive
\* first.  What is closed while it is under way is not noticed before the next call.
ReadScan ==
  /\ \E sent \in SUBSET {k \in DOMAIN waitfds : MayHaveSent(k)} :
       ready' = sent \union {k \in DOMAIN waitfds : HungUp(k)}
  /\ \/ readPc = "blocked" /\ acks = 0 /\ ready' # {}
     \/ readPc = "poll" /\ PollsClosed /\ (acks = 0 \/ 0 \notin interrupt)
  /\ readPc' = "scan"
  /\ UNCHANGED <<sharedVars, acceptVars, waitfds, readFrom, invalid, writeVars, restVars>>

\* read() returns a create request.
ReadCreate ==
  /\ readPc = "scan" /\ ready # {} /\ nextId < MaxInstances
  /\ fdOwner[waitfds[Min(ready)]] \in Clients
  /\ readFrom' = fdOwner[waitfds[Min(ready)]]
  /\ readPc' = "assign"
  /\ UNCHANGED <<sharedVars, acceptVars, waitfds, ready, invalid, writeVars, restVars>>

\* The instance gets its id and is mapped to the socket; on_request is called.
ReadAssign ==
  /\ readPc = "assign" /\ ClientsFree
  /\ clientMap' = Extended(clientMap, nextId, waitfds[Min(ready)])
  /\ creator' = Extended(creator, nextId, readFrom)
  /\ nextId' = nextId + 1
  /\ ready' = ready \ {Min(ready)}
  /\ readFrom' = "closed"
  /\ readPc' = "request"
  /\ UNCHANGED <<running, fdVars, interruptVars, clients, newClients, lockVars, queue,
                 acceptVars, waitfds, invalid, writeVars, restVars>>

\* read() returns another request, which is only passed to on_request, or throws
\* a parse error, which is ignored.
ReadOther ==
  /\ readPc = "scan" /\ ready # {}
  /\ fdOwner[waitfds[Min(ready)]] \in Clients
  /\ ready' = ready \ {Min(ready)}
  /\ readPc' \in {"request", "scan"}
  /\ UNCHANGED <<sharedVars, acceptVars, waitfds, readFrom, invalid, writeVars, restVars>>

\* on_request returns; it has waited for queue_m_.
ReadRequested ==
  /\ readPc = "request"
  /\ readPc' = "scan"
  /\ UNCHANGED <<sharedVars, acceptVars, waitfds, ready, readFrom, invalid, writeVars,
                 restVars>>

\* read() throws a json exception that is no parse error: the request is an object
\* without one of the three members, or with one of another type.  Nothing catches
\* it in the noexcept loop.  (A verb that is no verb is read as create.)
ReadThrows ==
  /\ readPc = "scan" /\ ready # {} /\ nextId < MaxInstances
  /\ fdOwner[waitfds[Min(ready)]] \in Clients
  /\ killed' = TRUE
  /\ UNCHANGED <<sharedVars, acceptVars, readVars, writeVars, unmapVars, callerVars, wire,
                 writeFailed, popped, notified>>

\* Mutant of ReadDead: the slot is removed while the array is being scanned.
ReadDeadShifts ==
  /\ readPc = "scan" /\ ready # {}
  /\ Gone(waitfds[Min(ready)])
  /\ invalid' = Append(invalid, waitfds[Min(ready)])
  /\ waitfds' = RemoveAt(waitfds, Min(ready))
  /\ ready' = ready \ {Min(ready)}
  /\ UNCHANGED <<sharedVars, acceptVars, readPc, readFrom, writeVars, restVars>>

\* Mutant of ReadDead: the slot is kept.
ReadDeadKeepsSlot ==
  /\ readPc = "scan" /\ ready # {}
  /\ Gone(waitfds[Min(ready)])
  /\ invalid' = Append(invalid, waitfds[Min(ready)])
  /\ ready' = ready \ {Min(ready)}
  /\ UNCHANGED <<sharedVars, acceptVars, waitfds, readPc, readFrom, writeVars, restVars>>

\* POLLHUP or POLLERR, end of file, or a failing recv().
ReadDead ==
  /\ readPc = "scan" /\ ready # {}
  /\ LET k == Min(ready)
     IN  /\ Gone(waitfds[k]) \/ fdOwner[waitfds[k]] \notin Clients
         /\ invalid' = Append(invalid, waitfds[k])
         /\ waitfds' = [waitfds EXCEPT ![k] = -1]
         /\ ready' = ready \ {k}
  /\ UNCHANGED <<sharedVars, acceptVars, readPc, readFrom, writeVars, restVars>>

ReadSweep ==
  /\ readPc = "scan" /\ ready = {}
  /\ readPc' = "sweep"
  /\ UNCHANGED <<sharedVars, acceptVars, waitfds, ready, readFrom, invalid, writeVars,
                 restVars>>

ReadSwept ==
  /\ readPc = "sweep" /\ invalid = <<>>
  /\ readPc' = LoopOr("poll")
  /\ UNCHANGED <<sharedVars, acceptVars, waitfds, ready, readFrom, invalid, writeVars,
                 restVars>>

ReadFails ==
  /\ readPc \in {"poll", "blocked"}
  /\ Fail
  /\ readPc' = "done"
  /\ UNCHANGED <<fdVars, acks, collectionVars, lockVars, queue, acceptVars, waitfds,
                 ready, readFrom, invalid, writeVars, restVars>>

(***************************************************************************)
(* write_loop.                                                             *)
(***************************************************************************)

WritePop ==
  /\ writePc = "wait" /\ running
  /\ \E r \in queue :
       /\ IsTop(r, queue)
       /\ queue' = queue \ {r}
       /\ writeMsg' = r
       /\ popped' = Append(popped, r)
  /\ writePc' = "lookup"
  /\ UNCHANGED <<running, fdVars, interruptVars, collectionVars, lockVars, acceptVars,
                 readVars, writeFd, unmapVars, callerVars, sendVars, notified>>

\* client_map_ is read, and written, without clients_mutex_.
WriteLookup ==
  /\ writePc = "lookup"
  /\ writeFd' = Lookup(writeMsg.instance)
  /\ clientMap' = Extended(clientMap, writeMsg.instance, writeFd')
  /\ writePc' = "header"
  /\ UNCHANGED <<running, fdVars, interruptVars, clients, newClients, nextId, creator,
                 lockVars, queue, acceptVars, readVars, writeMsg, restVars>>

\* Mutant of WriteSend: the write thread ends when a write fails.
WriteGivesUp ==
  /\ writePc \in {"header", "body"}
  /\ \/ /\ SendOk(writeFd, writeMsg)
        /\ writePc' = IF writePc = "header" THEN "body" ELSE LoopOr("wait")
     \/ SendFails(writeFd) /\ writePc' = "done"
  /\ UNCHANGED <<sharedVars, acceptVars, readVars, writeFd, writeMsg, unmapVars, callerVars,
                 popped, notified>>

\* A send() of write takes some of what is left of the length or the text.
WriteSend ==
  /\ writePc \in {"header", "body"}
  /\ \/ /\ SendOk(writeFd, writeMsg)
        /\ writePc' \in {writePc, IF writePc = "header" THEN "body" ELSE LoopOr("wait")}
     \/ SendFails(writeFd) /\ writePc' = "invalidate"
     \/ SendKills(writeFd) /\ UNCHANGED writePc
  /\ UNCHANGED <<sharedVars, acceptVars, readVars, writeFd, writeMsg, unmapVars, callerVars,
                 popped, notified>>

\* Text of sertop that is not UTF-8 cannot be serialized, and only api_error is caught.
WriteThrows ==
  /\ writePc = "header" /\ writeMsg.verb = "forward"
  /\ killed' = TRUE
  /\ UNCHANGED <<sharedVars, acceptVars, readVars, writeVars, unmapVars, callerVars, wire,
                 writeFailed, popped, notified>>

WriteStops ==
  /\ writePc = "wait" /\ ~running
  /\ writePc' = "done"
  /\ UNCHANGED <<sharedVars, acceptVars, readVars, writeFd, writeMsg, restVars>>

(***************************************************************************)
(* The conductor's run thread: enqueue, unmap and, at the end, ~server.    *)
(***************************************************************************)

NewResponse(i, priority, verb) ==
  [id |-> nextResponse, priority |-> priority, status |-> "success", verb |-> verb,
   instance |-> i]

\* The conductor makes one create response per instance, with priority, and then
\* forward responses, also for instances it has unmapped since; it enqueues them
\* in the order of their ids (Conductor!ResponseIdsOrdered).
Enqueue(i, verb) ==
  /\ dtorPc = "none" /\ unmapPc = "none" /\ writePc # "lookup"
  /\ nextResponse < MaxResponses
  /\ i < nextId
  /\ IF verb = "create"
       THEN /\ i \notin announced /\ announced' = announced \union {i}
            /\ queue' = queue \union {NewResponse(i, 1, verb)}
       ELSE /\ i \in announced /\ UNCHANGED announced
            /\ queue' = queue \union {NewResponse(i, 0, verb)}
  /\ nextResponse' = nextResponse + 1
  /\ UNCHANGED <<running, fdVars, interruptVars, collectionVars, lockVars, acceptVars,
                 readVars, writeVars, unmapVars, dtorPc, sendVars, popped, notified>>

\* A destroy request may name any instance, also one that was destroyed before or was
\* never created.
UnmapBegin(i) ==
  /\ dtorPc = "none" /\ unmapPc = "none" /\ ClientsFree
  /\ nextResponse < MaxResponses
  /\ clientsOwner' = "unmap"
  /\ unmapFd' = Lookup(i)
  /\ clientMap' = Extended(clientMap, i, unmapFd')
  /\ unmapMsg' = NewResponse(i, 1, "destroy")
  /\ nextResponse' = nextResponse + 1
  /\ unmapPc' = "header"
  /\ UNCHANGED <<notifying, running, fdVars, interruptVars, clients, newClients, nextId,
                 creator, queue, acceptVars, readVars, writeVars, announced, dtorPc, sendVars,
                 popped, notified>>

UnmapSend ==
  /\ unmapPc \in {"header", "body"}
  /\ \/ /\ SendOk(unmapFd, unmapMsg)
        /\ unmapPc' \in {unmapPc, IF unmapPc = "header" THEN "body" ELSE "erase"}
     \/ SendFails(unmapFd) /\ unmapPc' = "erase"
     \/ SendKills(unmapFd) /\ UNCHANGED unmapPc
  /\ UNCHANGED <<sharedVars, acceptVars, readVars, writeVars, unmapFd, unmapMsg, callerVars,
                 popped, notified>>

UnmapErase ==
  /\ unmapPc = "erase"
  /\ clientMap' = Erased(clientMap, unmapMsg.instance)
  /\ clientsOwner' = "none"
  /\ unmapPc' = "none"
  /\ UNCHANGED <<notifying, running, fdVars, interruptVars, clients, newClients, nextId,
                 creator, queue, acceptVars, readVars, writeVars, unmapFd, unmapMsg,
                 callerVars, sendVars, popped, notified>>

\* ~server closes interrupt_[1], unless a thread has failed.  The interrupt sockets
\* are two UDP sockets, so that is not an event on interrupt_[0].
Destroy ==
  /\ dtorPc = "none" /\ unmapPc = "none"
  /\ running' = FALSE
  /\ interrupt' = IF running THEN interrupt \ {1} ELSE interrupt
  /\ dtorPc' = "joining"
  /\ UNCHANGED <<fdVars, acks, collectionVars, lockVars, queue, acceptVars, readVars,
                 writeVars, unmapVars, nextResponse, announced, sendVars, popped, notified>>

Destroyed ==
  /\ dtorPc = "joining"
  /\ acceptPc = "done" /\ readPc = "done" /\ writePc = "done"
  /\ fdOwner' = [f \in Fds |-> IF f \in ToSet(clients) THEN "closed" ELSE fdOwner[f]]
  /\ interrupt' = interrupt \ {0}
  /\ dtorPc' = "done"
  /\ UNCHANGED <<running, peer, acks, collectionVars, lockVars, queue, acceptVars,
                 readVars, writeVars, unmapVars, nextResponse, announced,
                 sendVars, popped, notified>>

(***************************************************************************)
(* The specification.                                                      *)
(***************************************************************************)

AcceptStep == AcceptPush \/ AcceptAck

ReadStep ==
  \/ ReadPoll \/ ReadAck \/ ReadRefresh \/ ReadScan \/ ReadAssign \/ ReadDead
  \/ ReadSweep \/ ReadSwept \/ InvalidateStep("read")

WriteStep == WritePop \/ WriteLookup \/ WriteStops \/ InvalidateStep("write")

\* Nothing happens in a killed process.
Next ==
  /\ ~killed
  /\ \/ \E c \in Clients : Disconnect(c) \/ AcceptClient(c)
     \/ AcceptStep \/ AcceptAckFails \/ AcceptFails
     \/ ReadStep \/ ReadCreate \/ ReadOther \/ ReadRequested \/ ReadThrows \/ ReadFails
     \/ WriteStep \/ WriteSend \/ WriteThrows
     \/ \E t \in Thread : InvalidateNotified(t)
     \/ \E i \in Instances : Enqueue(i, "create") \/ Enqueue(i, "forward") \/ UnmapBegin(i)
     \/ UnmapSend \/ UnmapErase \/ Destroy \/ Destroyed

Alive(A) == ~killed /\ A

\* The threads run, as far as they wait neither for a callback nor for a client that
\* is there: nothing is assumed of those two.  clients_mutex_ and the processor are
\* granted to a thread that keeps asking, which is an assumption: std::mutex does not
\* promise it.  A connection that was closed at the other end has finitely many requests
\* left, so that ReadDead is taken in the end.
Fairness ==
  /\ SF_vars(Alive(AcceptStep))
  /\ SF_vars(Alive(ReadStep))
  /\ SF_vars(Alive(ReadDead))
  /\ SF_vars(Alive(WriteStep))
  /\ SF_vars(Alive(~Stalls(writeFd) /\ WriteSend))
  /\ SF_vars(Alive(~Stalls(unmapFd) /\ UnmapSend))
  /\ WF_vars(Alive(UnmapErase))
  /\ WF_vars(Alive(Destroyed))

Spec == Init /\ [][Next]_vars

FairSpec == Spec /\ Fairness

(***************************************************************************)
(* Safety.                                                                 *)
(***************************************************************************)

Map(S) == UNION {[D -> S] : D \in SUBSET Instances}

TypeOK ==
  /\ running \in BOOLEAN
  /\ peer \in [Clients -> {"new", "connected", "gone"}]
  /\ fdOwner \in [Fds -> Owner]
  /\ interrupt \subseteq {0, 1} /\ acks \in Nat
  /\ clients \in Seq(Fds) /\ newClients \in Seq(Fds)
  /\ clientMap \in Map(Fds) /\ creator \in Map(Clients) /\ nextId \in 0 .. MaxInstances
  /\ clientsOwner \in {"none", "read", "write", "unmap"} /\ notifying \in BOOLEAN
  /\ queue \subseteq Response
  /\ acceptPc \in {"poll", "push", "ack", "done"} /\ acceptFd \in Fds
  /\ readPc \in {"poll", "blocked", "refresh", "scan", "assign", "request", "sweep", "done"}
  /\ waitfds \in Seq(Fds \union {-1}) /\ ready \subseteq DOMAIN waitfds
  /\ readFrom \in Owner /\ invalid \in Seq(Fds)
  /\ writePc \in {"wait", "lookup", "header", "body", "invalidate", "done"}
  /\ writeFd \in Fds /\ writeMsg \in Response
  /\ unmapPc \in {"none", "header", "body", "erase"}
  /\ unmapFd \in Fds /\ unmapMsg \in Response
  /\ nextResponse \in 0 .. MaxResponses
  /\ announced \subseteq Instances
  /\ dtorPc \in {"none", "joining", "done"}
  /\ wire \in [Clients -> SUBSET Instances]
  /\ popped \in Seq(Response) /\ notified \subseteq Instances \X Instances
  /\ writeFailed \in BOOLEAN /\ killed \in BOOLEAN

\* The read thread never takes the front of an empty new_clients_ (server.cpp:372,
\* "Retrieve the last inserted client"), also when its recv() of an ACK has failed, and
\* until the server stops there is a client in the queue for every ACK on its way.
AckedClientQueued ==
  /\ readPc = "refresh" => newClients # <<>>
  /\ running => acks + (IF readPc = "refresh" THEN 1 ELSE 0) <= Len(newClients)

\* Responses of one priority leave the queue in the order in which they were made,
\* and no forward response overtakes the create response of its instance.
SentInOrder ==
  \A j, k \in DOMAIN popped : j < k =>
    /\ popped[j].priority = popped[k].priority => popped[j].id < popped[k].id
    /\ ~(popped[j].verb = "forward" /\ popped[k].verb = "create"
          /\ popped[j].instance = popped[k].instance)

\* As long as no send() has failed, every mapping names the connection that created
\* the instance: the mappings of a client that leaves are erased before its file
\* descriptor can be given to another one, and a mapping is never made for a client
\* that is already gone.
MappedToCreator ==
  ~writeFailed /\ dtorPc # "done" =>
    \A i \in DOMAIN clientMap :
      clientMap[i] # 0 => i \in DOMAIN creator /\ fdOwner[clientMap[i]] = creator[i]

\* As long as no send() has failed, every open connection is polled by the read
\* thread in exactly one slot, or is on its way there.
PolledOnce ==
  ~writeFailed =>
    \A f \in Fds : fdOwner[f] \in Clients =>
      Cardinality({k \in DOMAIN waitfds : waitfds[k] = f})
      + Cardinality({k \in DOMAIN newClients : newClients[k] = f})
      + Cardinality({k \in DOMAIN invalid : invalid[k] = f})
      + (IF acceptPc = "push" /\ acceptFd = f THEN 1 ELSE 0) = 1

(***************************************************************************)
(* Liveness.  Blocked names every way in which the read thread, or the     *)
(* thread that holds clients_mutex_, can wait for somebody outside.        *)
(***************************************************************************)

\* The run thread is inside send(), with clients_mutex_ held.
UnmapBlocked == unmapPc \in {"header", "body"} /\ Stalls(unmapFd)

\* on_request or on_invalidate has not returned, or a client that is there has sent
\* part of a request.
Blocked ==
  \/ notifying \/ UnmapBlocked
  \/ readPc = "request"
  \/ readPc = "scan" /\ ready # {} /\ Stalls(waitfds[Min(ready)])

\* An accepted client is polled eventually, unless the server stops or a thread waits
\* for good: the ACK is not lost between the two threads.
AcceptedIsPolled ==
  (newClients # <<>>) ~> (newClients = <<>> \/ ~running \/ killed \/ []Blocked)

\* The descriptor of a client that leaves is closed eventually, with the same
\* exceptions, unless a send() has failed.
GoneIsClosed ==
  \A c \in Clients :
    (peer[c] = "gone") ~>
      \/ \A f \in Fds : fdOwner[f] # c
      \/ ~running \/ killed \/ writeFailed \/ []Blocked

\* A response whose client is gone costs the write thread a detour through
\* invalidate, where it competes for clients_mutex_ with the read thread and with
\* unmap.  It comes back for the next response, unless its own client, or the one of
\* unmap, does not read, or on_invalidate waits for good.
WriterReturns ==
  (writePc # "wait") ~>
    \/ writePc = "wait" \/ ~running \/ killed
    \/ [](writePc \in {"header", "body"} /\ Stalls(writeFd))
    \/ [](notifying \/ UnmapBlocked)

(***************************************************************************)
(* What the documentation says and the code does not do.                   *)
(***************************************************************************)

\* server.h:112, invalidate "Unmaps all workers associated with a client. Executes
\* the on_invalidate callbacks": on_invalidate gets the id that was unmapped.
InvalidatesUnmapped == \A n \in notified : n[1] = n[2]

\* server.h:176, client_map_ is "Used to route responses to the correct
\* destination": everything a connection is sent is about an instance it created.
RoutedToCreator ==
  \A c \in Clients : \A i \in wire[c] : i \in DOMAIN creator /\ creator[i] = c

\* server_posix.cpp:228, closing interrupt_[1] "will cause the accept and read threads
\* to finish execution": so they do if no thread has failed before, nor fails later.
DestroyFinishes ==
  (dtorPc = "joining" /\ interrupt = {0}) ~> (dtorPc = "done" \/ killed \/ interrupt = {})
=============================================================================
