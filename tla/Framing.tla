------------------------------- MODULE Framing -------------------------------
(***************************************************************************)
(* server::read (server.cpp): requests are taken from the byte stream of a *)
(* connection, each preceded by its length, with a recv() that returns as  *)
(* many bytes as have arrived.  Waterproof writes the stream.              *)
(***************************************************************************)
EXTENDS Buffers, SequencesExt, FiniteSetsExt

CONSTANTS
  Requests,     \* texts that Waterproof may send: sequences of bytes
  MaxSent,      \* bound on the requests it sends
  BufferSize    \* size of the buffer of read: 4096 in the code

ASSUME FramingAssumption ==
  /\ Requests \subseteq Seq(Byte)
  /\ \A r \in Requests : Len(r) \in UInt32
  /\ MaxSent \in Nat
  /\ BufferSize \in Nat /\ BufferSize > 3

VARIABLES
  requests,     \* history: the requests sent
  arriving,     \* bytes sent and not received
  closed,       \* whether Waterproof has closed the connection
  phase,        \* what read is doing
  toRead,       \* bytes_to_read
  header,       \* the bytes of the length received so far
  rawRequest,   \* raw_request
  received      \* history: the texts that read has passed to the JSON parser

vars == <<requests, arriving, closed, phase, toRead, header, rawRequest, received>>

Init ==
  /\ requests = <<>> /\ arriving = <<>> /\ closed = FALSE
  /\ phase = "length" /\ toRead = 4
  /\ header = <<>> /\ rawRequest = <<>>
  /\ received = <<>>

Send(r) ==
  /\ ~closed /\ Len(requests) < MaxSent
  /\ requests' = Append(requests, r)
  /\ arriving' = arriving \o WriteBig(Len(r)) \o r
  /\ UNCHANGED <<closed, phase, toRead, header, rawRequest, received>>

Close ==
  /\ ~closed
  /\ closed' = TRUE
  /\ UNCHANGED <<requests, arriving, phase, toRead, header, rawRequest, received>>

\* recv() of at most n bytes: the chunk it may return.
Chunk(n) == {SubSeq(arriving, 1, k) : k \in 1 .. Min({n, Len(arriving)})}

\* recv() returns chunk.
Taken(chunk) == arriving' = SubSeq(arriving, Len(chunk) + 1, Len(arriving))

\* Mutant of ReadLength: the loop ends after the first recv().
ReadLengthOnce ==
  /\ phase = "length" /\ toRead > 0
  /\ \E chunk \in Chunk(toRead) :
       /\ Taken(chunk)
       /\ header' = header \o chunk \o [k \in 1 .. 4 - Len(chunk) |-> 0]
       /\ toRead' = 0
  /\ UNCHANGED <<requests, closed, phase, rawRequest, received>>

\* Mutant of ReadLength: recv() is asked for a whole buffer.
ReadLengthGreedy ==
  /\ phase = "length" /\ toRead > 0
  /\ \E chunk \in Chunk(BufferSize + 1) :
       /\ Taken(chunk)
       /\ header' = header \o chunk
       /\ toRead' = toRead - Len(chunk)
  /\ UNCHANGED <<requests, closed, phase, rawRequest, received>>

\* The loop that reads the four bytes of the length.
ReadLength ==
  /\ phase = "length" /\ toRead > 0
  /\ \E chunk \in Chunk(toRead) :
       /\ Taken(chunk)
       /\ header' = header \o chunk
       /\ toRead' = toRead - Len(chunk)
  /\ UNCHANGED <<requests, closed, phase, rawRequest, received>>

\* bytes_to_read is an int, length a uint32_t.
GotLength ==
  /\ phase = "length" /\ toRead = 0
  /\ toRead' = ToInt(ReadBig(header))
  /\ phase' = "text"
  /\ UNCHANGED <<requests, arriving, closed, header, rawRequest, received>>

\* The loop that reads the text, at most a buffer at a time.
ReadText ==
  /\ phase = "text" /\ toRead > 0
  /\ \E chunk \in Chunk(Min({toRead, BufferSize})) :
       /\ Taken(chunk)
       /\ rawRequest' = rawRequest \o chunk
       /\ toRead' = toRead - Len(chunk)
  /\ UNCHANGED <<requests, closed, phase, header, received>>

\* Mutant of GotText: raw_request is not cleared, as if it were a member.
GotTextKeeps ==
  /\ phase = "text" /\ toRead <= 0
  /\ received' = Append(received, rawRequest)
  /\ phase' = "length" /\ toRead' = 4 /\ header' = <<>>
  /\ UNCHANGED <<requests, arriving, closed, rawRequest>>

\* The text is parsed; read_loop calls read again when there is more.
GotText ==
  /\ phase = "text" /\ toRead <= 0
  /\ received' = Append(received, rawRequest)
  /\ phase' = "length" /\ toRead' = 4 /\ header' = <<>> /\ rawRequest' = <<>>
  /\ UNCHANGED <<requests, arriving, closed>>

\* recv() returns 0: the client is invalidated, with what it has sent of a request.
ReadEof ==
  /\ phase \in {"length", "text"} /\ toRead > 0
  /\ closed /\ arriving = <<>>
  /\ phase' = "closed"
  /\ UNCHANGED <<requests, arriving, closed, toRead, header, rawRequest, received>>

\* The client is invalidated with requests unread: recv() fails, as after a reset,
\* poll() reports a hang-up, which read_loop looks at before the data, or the write
\* thread has met an error.
GiveUp ==
  /\ phase # "closed" /\ toRead > 0
  /\ phase' = "closed"
  /\ UNCHANGED <<requests, arriving, closed, toRead, header, rawRequest, received>>

ReadStep == ReadLength \/ GotLength \/ ReadText \/ GotText \/ ReadEof

Next == (\E r \in Requests : Send(r)) \/ Close \/ ReadStep \/ GiveUp

Spec == Init /\ [][Next]_vars

\* The read thread comes back to a connection that has data, as long as it has one: that
\* it waits for nobody else meanwhile is assumed (Server!Blocked).
FairSpec == Spec /\ WF_vars(ReadStep)

(***************************************************************************)
(* Properties.                                                             *)
(***************************************************************************)

TypeOK ==
  /\ requests \in Seq(Requests) /\ arriving \in Seq(Byte)
  /\ closed \in BOOLEAN
  /\ phase \in {"length", "text", "closed"}
  /\ toRead \in Int
  /\ header \in Seq(Byte) /\ Len(header) <= 4
  /\ rawRequest \in Seq(Byte) /\ received \in Seq(Seq(Byte))

\* The longest text whose length survives the conversion to int.
Short(r) == 2 * Len(r) < Range32

AllShort == \A k \in DOMAIN requests : Short(requests[k])

\* While every request is shorter than half the range of a uint32_t, the texts that
\* are parsed are the requests that were sent, in order, whatever recv() returns.
ReceivesRequests == AllShort => IsPrefix(received, requests)

\* Such requests are all received, none is held back for bytes that have arrived already,
\* unless the connection is closed or given up.
EventuallyReceived == [](AllShort /\ phase # "closed") => <>[](received = requests)
=============================================================================
