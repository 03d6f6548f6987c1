------------------------------- MODULE Parser -------------------------------
(***************************************************************************)
(* The read side of a worker: the stdout pipe of sertop, worker::read_loop *)
(* (worker_posix.cpp, worker_win.cpp) and worker::parse (worker.cpp).      *)
(***************************************************************************)
EXTENDS SequencesExt, FiniteSetsExt

CONSTANTS
  Chars, NUL, MaxStream,  \* as in SertopStream
  BufferSize              \* size of the read buffer: 4096 in the code

ASSUME ParserAssumption ==
  NUL \notin Chars /\ MaxStream \in Nat /\ BufferSize \in Nat \ {0}

VARIABLES
  sent,        \* history: everything sertop has printed
  pipe,        \* printed and not read yet
  remainder,   \* read_loop's remainder: the start of an unfinished message
  delivered    \* history: the responses passed to on_response

vars == <<sent, pipe, remainder, delivered>>

Char == Chars \union {NUL}

Init == sent = <<>> /\ pipe = <<>> /\ remainder = <<>> /\ delivered = <<>>

(***************************************************************************)
(* worker::parse.  A pointer is an index into raw_result.                  *)
(***************************************************************************)

\* std::string(ptr): the characters up to the first terminator.  c_str() puts one
\* behind the last character.
CString(raw, ptr) ==
  LET stops == {p \in ptr .. Len(raw) : raw[p] = NUL} \union {Len(raw) + 1}
  IN  SubSeq(raw, ptr, Min(stops) - 1)

\* One iteration of the loop over full messages.
TakeMessage(raw, state) ==
  LET message == CString(raw, state.ptr)
  IN  [ptr |-> state.ptr + Len(message) + 1,
       read |-> state.read - (Len(message) + 1),
       result |-> Append(state.result, message)]

\* The state of the loop after k iterations.
Loop(raw, read, count) ==
  LET state[k \in 0 .. count] ==
        IF k = 0 THEN [ptr |-> 1, read |-> read, result |-> <<>>]
        ELSE TakeMessage(raw, state[k - 1])
  IN  state[count]

\* std::string(ptr, read).
Rest(raw, state) ==
  IF state.read = 0 THEN <<>> ELSE SubSeq(raw, state.ptr, state.ptr + state.read - 1)

\* Mutant of Parse: the length of the prefix is not added to read.
ParseIgnoresPrefix(buffer, prefix) ==
  LET raw == prefix \o buffer
      count == Cardinality({p \in DOMAIN raw : raw[p] = NUL})
      final == Loop(raw, Len(buffer), count)
  IN  IF count > 0 THEN [messages |-> final.result, remainder |-> Rest(raw, final)]
      ELSE [messages |-> <<>>, remainder |-> raw]

\* Mutant of Parse: off by one in the test of the number of messages.
ParseNeedsTwo(buffer, prefix) ==
  LET raw == prefix \o buffer
      count == Cardinality({p \in DOMAIN raw : raw[p] = NUL})
      final == Loop(raw, Len(buffer) + Len(prefix), count)
  IN  IF count > 1 THEN [messages |-> final.result, remainder |-> Rest(raw, final)]
      ELSE [messages |-> <<>>, remainder |-> raw]

\* The messages given to on_response, and the returned remainder.
Parse(buffer, prefix) ==
  LET raw == prefix \o buffer
      count == Cardinality({p \in DOMAIN raw : raw[p] = NUL})
      final == Loop(raw, Len(buffer) + Len(prefix), count)
  IN  IF count > 0 THEN [messages |-> final.result, remainder |-> Rest(raw, final)]
      ELSE [messages |-> <<>>, remainder |-> raw]

(***************************************************************************)
(* The pipe and read_loop.                                                 *)
(***************************************************************************)

Emit(c) ==
  /\ Len(sent) < MaxStream
  /\ sent' = Append(sent, c)
  /\ pipe' = Append(pipe, c)
  /\ UNCHANGED <<remainder, delivered>>

\* Mutant of Read: the remainder is not passed on to the next parse.
ReadDropsRemainder ==
  /\ pipe # <<>>
  /\ LET n == Min({Len(pipe), BufferSize})
         parsed == Parse(SubSeq(pipe, 1, n), <<>>)
     IN  /\ pipe' = SubSeq(pipe, n + 1, Len(pipe))
         /\ remainder' = parsed.remainder
         /\ delivered' = delivered \o parsed.messages
  /\ UNCHANGED sent

\* read() returns what the pipe holds, up to the size of the buffer.
Read ==
  /\ pipe # <<>>
  /\ LET n == Min({Len(pipe), BufferSize})
         parsed == Parse(SubSeq(pipe, 1, n), remainder)
     IN  /\ pipe' = SubSeq(pipe, n + 1, Len(pipe))
         /\ remainder' = parsed.remainder
         /\ delivered' = delivered \o parsed.messages
  /\ UNCHANGED sent

Next == (\E c \in Char : Emit(c)) \/ Read

Spec == Init /\ [][Next]_vars

\* poll() reports a pipe that holds data; sertop need not print anything.
FairSpec == Spec /\ WF_vars(Read)

(***************************************************************************)
(* Properties.                                                             *)
(***************************************************************************)

TypeOK ==
  /\ sent \in Seq(Char) /\ pipe \in Seq(Char)
  /\ remainder \in Seq(Chars) /\ delivered \in Seq(Seq(Chars))

Abstract == INSTANCE SertopStream

\* The worker implements SertopStream: whatever the buffer size and the timing of
\* the reads, exactly the messages sertop has terminated are delivered, in order.
DeliversMessages == Abstract!Spec

\* What was read and not delivered is the remainder: nothing is lost, repeated or
\* cut when a message spans several reads, or several messages share one.
RemainderIsTail ==
  LET read == SubSeq(sent, 1, Len(sent) - Len(pipe))
  IN  /\ delivered = Abstract!Messages(read)
      /\ IsSuffix(remainder, read)

\* Once sertop is silent, every terminated message has been delivered.
EventuallyAllDelivered == <>[]Abstract!AllDelivered
=============================================================================
