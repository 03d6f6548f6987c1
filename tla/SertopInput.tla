---------------------------- MODULE SertopInput ----------------------------
(***************************************************************************)
(* What the write side of the workers promises (worker.h:85-87, 117-120):  *)
(* a sertop reads the messages it was sent whole, once and in the order in *)
(* which they were enqueued, up to the moment at which writing stops, and  *)
(* never those of another one.                                             *)
(***************************************************************************)
EXTENDS Integers, Sequences

CONSTANTS
  Sertop,       \* who is written to
  Message,      \* what may be enqueued
  Length        \* the pieces in which a message may be written and read

VARIABLES
  accepted,     \* the messages enqueued so far, per sertop
  received      \* the pieces that it has read

Init ==
  /\ accepted = [s \in Sertop |-> <<>>]
  /\ received = [s \in Sertop |-> <<>>]

Accept(s, m) ==
  /\ accepted' = [accepted EXCEPT ![s] = Append(@, m)]
  /\ UNCHANGED received

\* A message is next when those before it have been read, and its pieces come in order.
Receive(s) ==
  \E n \in DOMAIN accepted[s], k \in 1 .. Length :
    /\ Len(received[s]) = (n - 1) * Length + (k - 1)
    /\ received' = [received EXCEPT ![s] = Append(@, <<accepted[s][n], k>>)]
    /\ UNCHANGED accepted

Next == \E s \in Sertop : (\E m \in Message : Accept(s, m)) \/ Receive(s)

Spec == Init /\ [][Next]_<<accepted, received>>
=============================================================================
